---------------------------- MODULE LedgerProofs ----------------------------
(***************************************************************************)
(* What the ledger service guarantees for any number of calls, users,      *)
(* keys and requests, on either repository.  The argument: an entry is     *)
(* only appended, and only when no entry has its reference; so references  *)
(* stay unique, an entry a call has found or posted stays where it is, and *)
(* each repository call is a step, or no step, of IdempotentBook.  Every   *)
(* entry that PostJournalEntry appends is balanced and names accounts that *)
(* exist, so the balances, which are sums over the entries, cancel.        *)
(***************************************************************************)
EXTENDS Ledger, Sums

\* How far a call is determines what it has decided and answered.
PhaseOf(c) ==
    /\ pc[c] # "done" <=> outcome[c] = "none"
    /\ pc[c] \notin {"reply", "done"} => receipt[c] = NoEntry
    /\ pc[c] = "reply" => receipt[c] # NoEntry
    /\ pc[c] \notin {"idle", "done"} /\ req[c].op = "reverse" => req[c].entry \in DOMAIN journal

Phases == \A c \in Calls : PhaseOf(c)

IInv == TypeOK /\ Phases /\ KeyPostedOnce /\ ReceiptIsPosted
-----------------------------------------------------------------------------
(* The references and the entries of requests. *)

LEMMA RefOfType ==
    ASSUME NEW r \in RequestType
    PROVE  RefOf(r) \in Refs /\ RefOf(r) # <<>>
<1>1. r.entry \in Nat /\ r.key \in Keys \cup {NoKey}
  BY DEF RequestType
<1>2. NoRef \in Refs /\ NoRef # <<>>
  BY DEF NoRef, Refs
<1>3. <<"reversal", r.entry>> \in Refs /\ <<"reversal", r.entry>> # <<>>
  BY <1>1 DEF Refs
<1>4. r.key # NoKey => <<"key", r.key>> \in Refs /\ <<"key", r.key>> # <<>>
  BY <1>1 DEF Refs
<1> QED
  BY <1>2, <1>3, <1>4 DEF RefOf

LEMMA SwappedType ==
    ASSUME NEW ps \in Seq(Posting)
    PROVE  Swapped(ps) \in Seq(Posting)
<1>1. ASSUME NEW i \in DOMAIN ps
      PROVE  [ps[i] EXCEPT !.direction = IF @ = "DR" THEN "CR" ELSE "DR"] \in Posting
  <2>1. ps[i] \in Posting
    BY <1>1
  <2> QED
    BY <2>1 DEF Posting
<1>2. DOMAIN ps = 1..Len(ps) /\ Len(ps) \in Nat
  OBVIOUS
<1> QED
  BY <1>1, <1>2 DEF Swapped

LEMMA JournalEntryType ==
    ASSUME TypeOK, NEW n \in DOMAIN journal
    PROVE  /\ n \in Nat /\ journal[n] \in Entry
           /\ journal[n].ref \in Refs /\ journal[n].kind \in Kinds
           /\ journal[n].postings \in Seq(Posting)
<1>1. journal \in Seq(Entry)
  BY DEF TypeOK, RepoTypeOK
<1>2. n \in Nat /\ journal[n] \in Entry
  BY <1>1
<1> QED
  BY <1>2 DEF Entry

LEMMA PostingsType ==
    ASSUME TypeOK, NEW c \in Calls,
           req[c].op = "reverse" => req[c].entry \in DOMAIN journal
    PROVE  PostingsOf(c) \in Seq(Posting)
<1> DEFINE r == req[c]
<1>1. r \in RequestType /\ own[c] \in Nat /\ other[c] \in Nat /\ journal \in Seq(Entry)
  BY DEF TypeOK, RepoTypeOK
<1>2. r.amount \in Int /\ r.raw \in Seq(Posting)
  BY <1>1 DEF RequestType
<1>3. /\ Credit(own[c], r.amount) \in Posting /\ Debit(own[c], r.amount) \in Posting
      /\ Credit(other[c], r.amount) \in Posting /\ Debit(other[c], r.amount) \in Posting
  BY <1>1, <1>2 DEF Credit, Debit, Posting
<1>4. /\ <<Credit(own[c], r.amount), Debit(other[c], r.amount)>> \in Seq(Posting)
      /\ <<Debit(own[c], r.amount), Credit(other[c], r.amount)>> \in Seq(Posting)
  BY <1>3
<1>5. r.op = "reverse" => Swapped(journal[r.entry].postings) \in Seq(Posting)
  BY SwappedType, JournalEntryType
<1> QED
  BY <1>2, <1>4, <1>5 DEF PostingsOf

LEMMA EntryOfType ==
    ASSUME TypeOK, NEW c \in Calls,
           req[c].op = "reverse" => req[c].entry \in DOMAIN journal
    PROVE  EntryOf(c) \in Entry /\ EntryOf(c).ref = RefOf(req[c])
<1>1. req[c] \in RequestType /\ journal \in Seq(Entry)
  BY DEF TypeOK, RepoTypeOK
<1>2. RefOf(req[c]) \in Refs
  BY <1>1, RefOfType
<1>3. req[c].op = "reverse" => journal[req[c].entry].kind \in Kinds
  BY JournalEntryType
<1>4. KindOf(req[c]) \in Kinds
  BY <1>3 DEF KindOf, StoredKind, Kinds
<1>5. PostingsOf(c) \in Seq(Posting)
  BY PostingsType
<1> QED
  BY <1>2, <1>4, <1>5 DEF EntryOf, Entry
-----------------------------------------------------------------------------
(* Posting appends one entry with a new reference, or changes nothing. *)

LEMMA PostedCases ==
    ASSUME NEW e, NEW jnl
    PROVE  \/ /\ PostResult(e, jnl) = "posted" /\ Posted(e, jnl) = Append(jnl, e)
              /\ EntriesOf(e.ref, jnl) = {}
           \/ PostResult(e, jnl) # "posted" /\ Posted(e, jnl) = jnl
BY DEF Posted, PostResult

\* The journal after a step is the journal before it, with at most one more
\* entry, whose reference is new.
Grown(c) ==
    \/ journal' = journal
    \/ /\ journal' = Append(journal, EntryOf(c))
       /\ EntriesOf(EntryOf(c).ref, journal) = {}

LEMMA PostGrows ==
    ASSUME NEW c \in Calls, Post(c)
    PROVE  Grown(c)
BY PostedCases DEF Post, Grown

LEMMA RowsAreAccounts ==
    ASSUME TypeOK, NEW o
    PROVE  Rows(o) \subseteq Nat /\ UserRows(o) \subseteq Nat
<1>1. DOMAIN accounts = 1..Len(accounts) /\ Len(accounts) \in Nat
  BY DEF TypeOK, RepoTypeOK
<1> QED
  BY <1>1 DEF Rows, UserRows, SystemRows, SystemRowsByType

LEMMA CreateAccountType ==
    ASSUME TypeOK, NEW o \in Owners, NEW i, NEW accs, CreateAccount(o, i, accs)
    PROVE  i \in Nat /\ accs \in Seq(Account)
<1>1. accounts \in Seq(Account)
  BY DEF TypeOK, RepoTypeOK
<1>2. [owner |-> o, type |-> TypeOfOwner(o)] \in Account
  BY DEF Account, TypeOfOwner
<1>3. UserRows(o) \subseteq Nat
  BY RowsAreAccounts
<1> QED
  BY <1>1, <1>2, <1>3 DEF CreateAccount
-----------------------------------------------------------------------------
(* Typing. *)

LEMMA FourInSeq ==
    ASSUME NEW S, NEW a \in S, NEW b \in S, NEW c \in S, NEW d \in S
    PROVE  <<a, b, c, d>> \in Seq(S)
OBVIOUS

LEMMA InitIInv == Init => IInv
<1> SUFFICES ASSUME Init PROVE IInv
  OBVIOUS
<1>1. accounts \in Seq(Account)
  <2>1. \A o \in Owners : [owner |-> o, type |-> TypeOfOwner(o)] \in Account
    BY DEF Account, TypeOfOwner
  <2>2. DemoUser \in Owners /\ Amina \in Owners /\ MoMoPool \in Owners /\ EscrowPool \in Owners
    BY DemoAssumption DEF Owners, Pools
  <2> HIDE DEF Account, Owners
  <2> QED
    BY <2>1, <2>2 DEF Init, RepoInit, SeedAccounts
<1>2. \A n \in 1..4, kind \in Kinds, debit, credit \in Nat, amount \in Int :
        SeedEntry(n, kind, debit, credit, amount) \in Entry
  <2> TAKE n \in 1..4, kind \in Kinds, debit, credit \in Nat, amount \in Int
  <2>1. Debit(debit, amount) \in Posting /\ Credit(credit, amount) \in Posting
    BY DEF Debit, Credit, Posting
  <2>2. <<Debit(debit, amount), Credit(credit, amount)>> \in Seq(Posting)
    BY <2>1
  <2>3. <<"seed", n>> \in Refs
    BY DEF Refs
  <2>4. StoredKind(kind) \in Kinds
    BY DEF StoredKind, Kinds
  <2> QED
    BY <2>2, <2>3, <2>4 DEF SeedEntry, Entry
<1>3. journal \in Seq(Entry)
  <2>1. {"p2p_transfer", "momo_cash_in", "marketplace_escrow"} \subseteq Kinds
    BY DEF Kinds
  <2> DEFINE e1 == SeedEntry(1, "momo_cash_in", 1, 3, 5)
             e2 == SeedEntry(2, "momo_cash_in", 2, 3, 6)
             e3 == SeedEntry(3, "p2p_transfer", 1, 2, 6)
             e4 == SeedEntry(4, "marketplace_escrow", 4, 1, 2)
  <2>2. e1 \in Entry /\ e2 \in Entry /\ e3 \in Entry /\ e4 \in Entry
    BY <1>2, <2>1
  <2>3. journal = <<e1, e2, e3, e4>> \/ journal = <<>>
    BY DEF Init, RepoInit, SeedJournal
  <2>4. <<e1, e2, e3, e4>> \in Seq(Entry)
    BY <2>2, FourInSeq
  <2>5. <<>> \in Seq(Entry)
    OBVIOUS
  <2> QED
    BY <2>3, <2>4, <2>5, Zenon
<1>4. NoRequest \in RequestType
  BY DemoAssumption DEF NoRequest, RequestType, Ops
<1>5. TypeOK
  BY <1>1, <1>3, <1>4 DEF Init, TypeOK, RepoTypeOK, Labels, Outcomes, NoAccount, NoEntry
<1>6. Phases
  BY DEF Init, Phases, PhaseOf, NoEntry
<1>7. KeyPostedOnce
  <2>1. \A n \in DOMAIN journal : journal[n].ref = <<"seed", n>>
    BY DEF Init, RepoInit, SeedJournal, SeedEntry
  <2> QED
    BY <2>1, <1>3 DEF KeyPostedOnce
<1>8. ReceiptIsPosted
  BY DEF Init, ReceiptIsPosted, NoEntry
<1> QED
  BY <1>5, <1>6, <1>7, <1>8 DEF IInv

LEMMA AnswerType ==
    ASSUME TypeOK, NEW c \in Calls, NEW what \in Outcomes, NEW n \in Nat, Answer(c, what, n)
    PROVE  /\ pc' \in [Calls -> Labels] /\ outcome' \in [Calls -> Outcomes]
           /\ receipt' \in [Calls -> Nat]
BY DEF TypeOK, Answer, Goto, Labels

LEMMA OwnFoundType ==
    ASSUME TypeOK, NEW c \in Calls, NEW a \in Nat, OwnFound(c, a)
    PROVE  /\ pc' \in [Calls -> Labels] /\ outcome' \in [Calls -> Outcomes]
           /\ receipt' \in [Calls -> Nat] /\ own' \in [Calls -> Nat]
BY AnswerType DEF TypeOK, OwnFound, Goto, Labels, Outcomes, NoEntry

LEMMA TypeStep ==
    ASSUME TypeOK, Phases, [Next]_vars
    PROVE  TypeOK'
<1> USE DEF NoEntry
<1>0. "ok" \in Outcomes /\ "found" \in Outcomes /\ "invalid" \in Outcomes /\ "conflict" \in Outcomes
      /\ "insufficient" \in Outcomes /\ "error" \in Outcomes /\ "lost" \in Outcomes /\ 0 \in Nat
  BY DEF Outcomes
<1>1. ASSUME NEW c \in Calls, NEW r \in Requests, Begin(c, r)
      PROVE  TypeOK'
  <2>1. r \in RequestType
    BY RequestAssumption
  <2>2. req' \in [Calls -> RequestType]
    BY <1>1, <2>1 DEF Begin, TypeOK
  <2>3. pc' \in [Calls -> Labels] /\ outcome' \in [Calls -> Outcomes] /\ receipt' \in [Calls -> Nat]
    <3>1. FirstLabel(r) \in Labels
      BY DEF FirstLabel, Labels
    <3> QED
      BY <1>0, <1>1, <3>1, AnswerType DEF Begin, TypeOK, Goto
  <2> QED
    BY <1>1, <2>2, <2>3 DEF Begin, TypeOK, RepoTypeOK
<1>2. ASSUME NEW c \in Calls, CheckIdempotency(c)
      PROVE  TypeOK'
  <2>1. \A n \in EntriesOf(RefOf(req[c]), journal) : n \in Nat
    BY JournalEntryType DEF EntriesOf
  <2>2. pc' \in [Calls -> Labels] /\ outcome' \in [Calls -> Outcomes] /\ receipt' \in [Calls -> Nat]
    BY <1>0, <1>2, <2>1, AnswerType DEF CheckIdempotency, AfterCheck, TypeOK, Goto, Labels
  <2> QED
    BY <1>2, <2>2 DEF CheckIdempotency, TypeOK, RepoTypeOK
<1>3. ASSUME NEW c \in Calls, FindOwn(c)
      PROVE  TypeOK'
  <2>1. UserRows(req[c].user) \subseteq Nat
    BY RowsAreAccounts
  <2>2. /\ pc' \in [Calls -> Labels] /\ outcome' \in [Calls -> Outcomes]
        /\ receipt' \in [Calls -> Nat] /\ own' \in [Calls -> Nat]
    BY <1>3, <2>1, OwnFoundType DEF FindOwn, TypeOK, Goto, Labels
  <2> QED
    BY <1>3, <2>2 DEF FindOwn, TypeOK, RepoTypeOK
<1>4. ASSUME NEW c \in Calls, CreateOwn(c)
      PROVE  TypeOK'
  <2>1. req[c].user \in Owners
    BY DEF TypeOK, RequestType, Owners
  <2>2. /\ pc' \in [Calls -> Labels] /\ outcome' \in [Calls -> Outcomes]
        /\ receipt' \in [Calls -> Nat] /\ own' \in [Calls -> Nat] /\ accounts' \in Seq(Account)
    <3>1. CASE \E a \in 1..(Len(accounts) + 1) :
                 CreateAccount(req[c].user, a, accounts') /\ OwnFound(c, a)
      BY <2>1, <3>1, CreateAccountType, OwnFoundType
    <3>2. CASE Answer(c, "error", NoEntry) /\ UNCHANGED <<accounts, own>>
      BY <1>0, <3>2, AnswerType DEF TypeOK, RepoTypeOK
    <3> QED
      BY <1>4, <3>1, <3>2 DEF CreateOwn
  <2> QED
    BY <1>4, <2>2 DEF CreateOwn, TypeOK, RepoTypeOK
<1>5. ASSUME NEW c \in Calls, CheckFunds(c)
      PROVE  TypeOK'
  <2>1. pc' \in [Calls -> Labels] /\ outcome' \in [Calls -> Outcomes] /\ receipt' \in [Calls -> Nat]
    BY <1>0, <1>5, AnswerType DEF CheckFunds, TypeOK, Goto, Labels
  <2> QED
    BY <1>5, <2>1 DEF CheckFunds, TypeOK, RepoTypeOK
<1>6. ASSUME NEW c \in Calls, FindOther(c)
      PROVE  TypeOK'
  <2>1. Rows(req[c].to) \subseteq Nat
    BY RowsAreAccounts
  <2>2. pc' \in [Calls -> Labels] /\ other' \in [Calls -> Nat]
    BY <1>6, <2>1 DEF FindOther, TypeOK, Goto, Labels
  <2> QED
    BY <1>6, <2>2 DEF FindOther, TypeOK, RepoTypeOK
<1>7. ASSUME NEW c \in Calls, CreateOther(c)
      PROVE  TypeOK'
  <2>1. req[c].to \in Owners
    BY DEF TypeOK, RequestType, Owners, Pools
  <2>2. /\ pc' \in [Calls -> Labels] /\ outcome' \in [Calls -> Outcomes]
        /\ receipt' \in [Calls -> Nat] /\ other' \in [Calls -> Nat] /\ accounts' \in Seq(Account)
    <3>1. ASSUME NEW a \in 1..(Len(accounts) + 1), CreateAccount(req[c].to, a, accounts'),
                 other' = [other EXCEPT ![c] = a], Goto(c, "post"), UNCHANGED <<outcome, receipt>>
          PROVE  /\ pc' \in [Calls -> Labels] /\ outcome' \in [Calls -> Outcomes]
                 /\ receipt' \in [Calls -> Nat] /\ other' \in [Calls -> Nat] /\ accounts' \in Seq(Account)
      BY <2>1, <3>1, CreateAccountType DEF TypeOK, Goto, Labels
    <3>2. CASE Answer(c, "error", NoEntry) /\ UNCHANGED <<accounts, other>>
      BY <1>0, <3>2, AnswerType DEF TypeOK, RepoTypeOK
    <3> QED
      BY <1>7, <3>1, <3>2 DEF CreateOther
  <2> QED
    BY <1>7, <2>2 DEF CreateOther, TypeOK, RepoTypeOK
<1>8. ASSUME NEW c \in Calls, Post(c)
      PROVE  TypeOK'
  <2>1. EntryOf(c) \in Entry
    BY <1>8, EntryOfType DEF Post, Phases, PhaseOf
  <2>2. journal \in Seq(Entry) /\ Len(journal) + 1 \in Nat
    BY DEF TypeOK, RepoTypeOK
  <2>3. journal' \in Seq(Entry)
    BY <1>8, <2>1, <2>2, PostGrows DEF Grown
  <2>4. pc' \in [Calls -> Labels] /\ outcome' \in [Calls -> Outcomes] /\ receipt' \in [Calls -> Nat]
    BY <1>0, <1>8, <2>2, AnswerType DEF Post, TypeOK, Goto, Labels
  <2> QED
    BY <1>8, <2>3, <2>4 DEF Post, TypeOK, RepoTypeOK
<1>9. ASSUME NEW c \in Calls, Recover(c)
      PROVE  TypeOK'
  <2>1. \A n \in EntriesOf(RefOf(req[c]), journal) : n \in Nat
    BY JournalEntryType DEF EntriesOf
  <2>2. pc' \in [Calls -> Labels] /\ outcome' \in [Calls -> Outcomes] /\ receipt' \in [Calls -> Nat]
    BY <1>0, <1>9, <2>1, AnswerType DEF Recover
  <2> QED
    BY <1>9, <2>2 DEF Recover, TypeOK, RepoTypeOK
<1>10. ASSUME NEW c \in Calls, Reply(c)
       PROVE  TypeOK'
  <2>1. receipt[c] \in Nat
    BY DEF TypeOK
  <2>2. pc' \in [Calls -> Labels] /\ outcome' \in [Calls -> Outcomes] /\ receipt' \in [Calls -> Nat]
    BY <1>0, <1>10, <2>1, AnswerType DEF Reply
  <2> QED
    BY <1>10, <2>2 DEF Reply, TypeOK, RepoTypeOK
<1>11. ASSUME NEW c \in Calls, Stop(c)
       PROVE  TypeOK'
  BY <1>11 DEF Stop, Goto, TypeOK, RepoTypeOK, Labels, Outcomes
<1>12. ASSUME NEW c \in Calls, LookupFails(c)
       PROVE  TypeOK'
  BY <1>12 DEF LookupFails, AfterCheck, Goto, TypeOK, RepoTypeOK, Labels
<1>13. CASE UNCHANGED vars
  BY <1>13 DEF vars, TypeOK, RepoTypeOK
<1> QED
  BY <1>1, <1>2, <1>3, <1>4, <1>5, <1>6, <1>7, <1>8, <1>9, <1>10, <1>11, <1>12, <1>13 DEF Next, Step
-----------------------------------------------------------------------------
(* The journal. *)

LEMMA JournalGrows ==
    ASSUME [Next]_vars
    PROVE  journal' = journal \/ \E c \in Calls : Grown(c)
<1>1. ASSUME NEW c \in Calls, Post(c)
      PROVE  Grown(c)
  BY <1>1, PostGrows
<1>2. ASSUME NEW c \in Calls, Step(c), ~Post(c)
      PROVE  journal' = journal
  BY <1>2 DEF Step, CheckIdempotency, FindOwn, CreateOwn, CheckFunds, FindOther, CreateOther,
              Recover, Reply, LookupFails
<1>3. ASSUME NEW c \in Calls, NEW r \in Requests, Begin(c, r)
      PROVE  journal' = journal
  BY <1>3 DEF Begin
<1>4. (\E c \in Calls : Stop(c)) \/ UNCHANGED vars => journal' = journal
  BY DEF Stop, vars
<1> QED
  BY <1>1, <1>2, <1>3, <1>4 DEF Next

LEMMA JournalStep ==
    ASSUME TypeOK, [Next]_vars
    PROVE  /\ Len(journal) \in Nat /\ DOMAIN journal = 1..Len(journal)
           /\ DOMAIN journal \subseteq DOMAIN journal'
           /\ \A n \in DOMAIN journal : journal'[n] = journal[n]
           /\ \/ journal' = journal
              \/ \E c \in Calls :
                    /\ DOMAIN journal' = 1..(Len(journal) + 1)
                    /\ journal'[Len(journal) + 1] = EntryOf(c)
                    /\ EntriesOf(EntryOf(c).ref, journal) = {}
<1>1. journal \in Seq(Entry)
  BY DEF TypeOK, RepoTypeOK
<1>2. CASE journal' = journal
  BY <1>1, <1>2
<1>3. ASSUME NEW c \in Calls, journal' = Append(journal, EntryOf(c)),
             EntriesOf(EntryOf(c).ref, journal) = {}
      PROVE  /\ Len(journal) \in Nat /\ DOMAIN journal = 1..Len(journal)
             /\ DOMAIN journal' = 1..(Len(journal) + 1)
             /\ \A n \in DOMAIN journal : journal'[n] = journal[n]
             /\ journal'[Len(journal) + 1] = EntryOf(c)
  BY <1>1, <1>3
<1> QED
  BY <1>2, <1>3, JournalGrows DEF Grown

LEMMA KeyStep ==
    ASSUME TypeOK, KeyPostedOnce, [Next]_vars
    PROVE  KeyPostedOnce'
<1>1. CASE journal' = journal
  BY <1>1 DEF KeyPostedOnce
<1>2. ASSUME NEW c \in Calls, DOMAIN journal' = 1..(Len(journal) + 1),
             journal'[Len(journal) + 1] = EntryOf(c),
             EntriesOf(EntryOf(c).ref, journal) = {}
      PROVE  KeyPostedOnce'
  <2>1. \A n \in DOMAIN journal' :
          \/ n \in DOMAIN journal /\ journal'[n] = journal[n]
          \/ n = Len(journal) + 1 /\ journal'[n] = EntryOf(c)
    BY <1>2, JournalStep
  <2>2. \A n \in DOMAIN journal : EntryOf(c).ref # NoRef => journal[n].ref # EntryOf(c).ref
    BY <1>2 DEF EntriesOf
  <2> QED
    BY <2>1, <2>2 DEF KeyPostedOnce
<1> QED
  BY <1>1, <1>2, JournalStep
-----------------------------------------------------------------------------
(* Phases and receipts. *)

LEMMA PhasesStep ==
    ASSUME TypeOK, Phases, [Next]_vars
    PROVE  Phases'
<1> USE DEF NoEntry
<1> SUFFICES ASSUME NEW d \in Calls PROVE PhaseOf(d)'
  BY DEF Phases
<1>0. PhaseOf(d) /\ DOMAIN journal \subseteq DOMAIN journal'
  BY JournalStep DEF Phases
<1>1. ASSUME NEW c \in Calls, NEW r \in Requests, Begin(c, r)
      PROVE  PhaseOf(d)'
  <2>1. FirstLabel(r) \notin {"idle", "done", "reply"}
    BY DEF FirstLabel
  <2> QED
    BY <1>0, <1>1, <2>1 DEF Begin, Goto, Answer, PhaseOf, TypeOK
<1>2. ASSUME NEW c \in Calls, CheckIdempotency(c)
      PROVE  PhaseOf(d)'
  BY <1>0, <1>2 DEF CheckIdempotency, AfterCheck, Goto, Answer, PhaseOf, TypeOK
<1>3. ASSUME NEW c \in Calls, FindOwn(c)
      PROVE  PhaseOf(d)'
  BY <1>0, <1>3 DEF FindOwn, OwnFound, Goto, Answer, PhaseOf, TypeOK
<1>4. ASSUME NEW c \in Calls, CreateOwn(c)
      PROVE  PhaseOf(d)'
  BY <1>0, <1>4 DEF CreateOwn, OwnFound, Goto, Answer, PhaseOf, TypeOK
<1>5. ASSUME NEW c \in Calls, CheckFunds(c)
      PROVE  PhaseOf(d)'
  BY <1>0, <1>5 DEF CheckFunds, Goto, Answer, PhaseOf, TypeOK
<1>6. ASSUME NEW c \in Calls, FindOther(c)
      PROVE  PhaseOf(d)'
  BY <1>0, <1>6 DEF FindOther, Goto, PhaseOf, TypeOK
<1>7. ASSUME NEW c \in Calls, CreateOther(c)
      PROVE  PhaseOf(d)'
  BY <1>0, <1>7 DEF CreateOther, Goto, Answer, PhaseOf, TypeOK
<1>8. ASSUME NEW c \in Calls, Post(c)
      PROVE  PhaseOf(d)'
  <2>1. Len(journal) + 1 # 0
    BY JournalStep
  <2> QED
    BY <1>0, <1>8, <2>1 DEF Post, Goto, Answer, PhaseOf, TypeOK
<1>9. ASSUME NEW c \in Calls, Recover(c)
      PROVE  PhaseOf(d)'
  BY <1>0, <1>9 DEF Recover, Goto, Answer, PhaseOf, TypeOK
<1>10. ASSUME NEW c \in Calls, Reply(c)
       PROVE  PhaseOf(d)'
  BY <1>0, <1>10 DEF Reply, Goto, Answer, PhaseOf, TypeOK
<1>11. ASSUME NEW c \in Calls, Stop(c)
       PROVE  PhaseOf(d)'
  BY <1>0, <1>11 DEF Stop, Goto, PhaseOf, TypeOK
<1>12. ASSUME NEW c \in Calls, LookupFails(c)
       PROVE  PhaseOf(d)'
  BY <1>0, <1>12 DEF LookupFails, AfterCheck, Goto, PhaseOf, TypeOK
<1>13. CASE UNCHANGED vars
  BY <1>0, <1>13 DEF vars, PhaseOf
<1> QED
  BY <1>1, <1>2, <1>3, <1>4, <1>5, <1>6, <1>7, <1>8, <1>9, <1>10, <1>11, <1>12, <1>13 DEF Next, Step

\* The receipt of d is good in the current state.
GoodReceipt(d) ==
    /\ outcome[d] = "ok" => receipt[d] # NoEntry
    /\ receipt[d] # NoEntry => /\ receipt[d] \in DOMAIN journal
                               /\ journal[receipt[d]].ref = RefOf(req[d])

LEMMA ReceiptStep ==
    ASSUME IInv, [Next]_vars
    PROVE  ReceiptIsPosted'
<1> USE DEF NoEntry
<1> SUFFICES ASSUME NEW d \in Calls PROVE GoodReceipt(d)'
  BY DEF ReceiptIsPosted, GoodReceipt
<1>0. /\ TypeOK /\ PhaseOf(d) /\ GoodReceipt(d)
      /\ DOMAIN journal \subseteq DOMAIN journal'
      /\ \A n \in DOMAIN journal : journal'[n] = journal[n]
  BY JournalStep DEF IInv, Phases, ReceiptIsPosted, GoodReceipt
<1>1. \A ref : \A n \in EntriesOf(ref, journal) : n \in DOMAIN journal /\ journal[n].ref = ref /\ n # 0
  <2>1. \A n \in DOMAIN journal : n # 0
    BY <1>0, JournalStep
  <2> QED
    BY <2>1 DEF EntriesOf
<1>2. ASSUME outcome'[d] = outcome[d], receipt'[d] = receipt[d],
             req'[d] = req[d] \/ receipt[d] = 0
      PROVE  GoodReceipt(d)'
  BY <1>0, <1>2 DEF GoodReceipt
<1>3. ASSUME NEW c \in Calls, NEW r \in Requests, Begin(c, r)
      PROVE  GoodReceipt(d)'
  BY <1>0, <1>2, <1>3 DEF Begin, Goto, Answer, PhaseOf, GoodReceipt, TypeOK
<1>4. ASSUME NEW c \in Calls, CheckIdempotency(c)
      PROVE  GoodReceipt(d)'
  BY <1>0, <1>1, <1>2, <1>4 DEF CheckIdempotency, Goto, Answer, PhaseOf, GoodReceipt, TypeOK
<1>5. ASSUME NEW c \in Calls, FindOwn(c)
      PROVE  GoodReceipt(d)'
  BY <1>0, <1>2, <1>5 DEF FindOwn, OwnFound, Goto, Answer, GoodReceipt, TypeOK
<1>6. ASSUME NEW c \in Calls, CreateOwn(c)
      PROVE  GoodReceipt(d)'
  BY <1>0, <1>2, <1>6 DEF CreateOwn, OwnFound, Goto, Answer, GoodReceipt, TypeOK
<1>7. ASSUME NEW c \in Calls, CheckFunds(c)
      PROVE  GoodReceipt(d)'
  BY <1>0, <1>2, <1>7 DEF CheckFunds, Goto, Answer, GoodReceipt, TypeOK
<1>8. ASSUME NEW c \in Calls, FindOther(c)
      PROVE  GoodReceipt(d)'
  BY <1>2, <1>8 DEF FindOther
<1>9. ASSUME NEW c \in Calls, CreateOther(c)
      PROVE  GoodReceipt(d)'
  BY <1>0, <1>2, <1>9 DEF CreateOther, Goto, Answer, GoodReceipt, TypeOK
<1>10. ASSUME NEW c \in Calls, Post(c)
       PROVE  GoodReceipt(d)'
  <2>1. CASE PostResult(EntryOf(c), journal) = "posted"
    <3>1. journal' = Append(journal, EntryOf(c)) /\ journal \in Seq(Entry)
      BY <1>0, <1>10, <2>1, PostedCases DEF Post, TypeOK, RepoTypeOK
    <3>2. /\ Len(journal) + 1 \in DOMAIN journal' /\ Len(journal) + 1 # 0
          /\ journal'[Len(journal) + 1] = EntryOf(c)
      BY <3>1
    <3>3. EntryOf(c).ref = RefOf(req[c])
      BY DEF EntryOf
    <3> QED
      BY <1>0, <1>2, <1>10, <2>1, <3>2, <3>3 DEF Post, Goto, GoodReceipt, TypeOK
  <2>2. CASE PostResult(EntryOf(c), journal) # "posted"
    BY <1>0, <1>2, <1>10, <2>2 DEF Post, Goto, Answer, GoodReceipt, TypeOK
  <2> QED
    BY <2>1, <2>2
<1>11. ASSUME NEW c \in Calls, Recover(c)
       PROVE  GoodReceipt(d)'
  BY <1>0, <1>1, <1>2, <1>11 DEF Recover, Goto, Answer, PhaseOf, GoodReceipt, TypeOK
<1>12. ASSUME NEW c \in Calls, Reply(c)
       PROVE  GoodReceipt(d)'
  BY <1>0, <1>2, <1>12 DEF Reply, Goto, Answer, PhaseOf, GoodReceipt, TypeOK
<1>13. ASSUME NEW c \in Calls, Stop(c)
       PROVE  GoodReceipt(d)'
  BY <1>0, <1>2, <1>13 DEF Stop, Goto, GoodReceipt, TypeOK
<1>14. ASSUME NEW c \in Calls, LookupFails(c)
       PROVE  GoodReceipt(d)'
  BY <1>2, <1>14 DEF LookupFails
<1>15. CASE UNCHANGED vars
  BY <1>2, <1>15 DEF vars
<1> QED
  BY <1>3, <1>4, <1>5, <1>6, <1>7, <1>8, <1>9, <1>10, <1>11, <1>12, <1>13, <1>14, <1>15 DEF Next, Step
-----------------------------------------------------------------------------
LEMMA Inductive == Spec => []IInv
<1>1. IInv /\ [Next]_vars => IInv'
  BY TypeStep, PhasesStep, KeyStep, ReceiptStep DEF IInv
<1> QED
  BY InitIInv, <1>1, PTL DEF Spec

\* Whatever is requested, the accounts, the journal and the calls stay well formed.
THEOREM Typing == Spec => []TypeOK
<1>1. IInv => TypeOK
  BY DEF IInv
<1> QED
  BY Inductive, <1>1, PTL

\* A key is posted at most once, for any number of calls, keys and lost answers.
THEOREM Idempotency == Spec => []KeyPostedOnce
<1>1. IInv => KeyPostedOnce
  BY DEF IInv
<1> QED
  BY Inductive, <1>1, PTL

\* A call that is told "ok", or dies after it posted, has its entry in the journal.
THEOREM Receipts == Spec => []ReceiptIsPosted
<1>1. IInv => ReceiptIsPosted
  BY DEF IInv
<1> QED
  BY Inductive, <1>1, PTL

\* No step changes or removes an entry.
THEOREM AppendOnlyJournal == Spec => AppendOnly
<1>1. TypeOK /\ [Next]_vars =>
        [/\ Len(journal) <= Len(journal')
         /\ \A n \in DOMAIN journal : journal'[n] = journal[n]]_vars
  <2> SUFFICES ASSUME TypeOK, [Next]_vars
               PROVE  /\ Len(journal) <= Len(journal')
                      /\ \A n \in DOMAIN journal : journal'[n] = journal[n]
    OBVIOUS
  <2>1. journal \in Seq(Entry)
    BY DEF TypeOK, RepoTypeOK
  <2>2. Len(journal) <= Len(journal')
    BY <2>1, JournalGrows DEF Grown
  <2> QED
    BY <2>2, JournalStep
<1> QED
  BY Typing, <1>1, PTL DEF Spec, AppendOnly
-----------------------------------------------------------------------------
(* The service implements the book. *)

\* The refinement mapping of the reference a call asks for.
Asked == [c \in Calls |-> IF pc[c] = "idle" THEN <<>> ELSE RefOf(req[c])]

LEMMA BookInit == Init => Book!Open
BY DEF Init, RepoInit, Book!Open, NoEntry

LEMMA AskedSame ==
    ASSUME NEW c \in Calls, TypeOK, TypeOK', pc[c] # "idle", pc'[c] # "idle", req' = req,
           \A d \in Calls \ {c} : pc'[d] = pc[d]
    PROVE  Asked' = Asked
BY DEF Asked

LEMMA WaitingCall ==
    ASSUME TypeOK, Phases, NEW c \in Calls, pc[c] \notin {"idle", "reply", "done"}
    PROVE  Asked[c] = RefOf(req[c]) /\ Asked[c] # <<>> /\ outcome[c] = "none" /\ receipt[c] = 0
<1>1. RefOf(req[c]) # <<>>
  BY RefOfType DEF TypeOK
<1> QED
  BY <1>1 DEF Phases, PhaseOf, Asked, NoEntry

\* An answer that refuses, and a step that answers nothing.
LEMMA RefuseStep ==
    ASSUME TypeOK, TypeOK', Phases, NEW c \in Calls, pc[c] \notin {"idle", "reply", "done"},
           NEW what \in {"found", "invalid", "conflict", "insufficient", "error"},
           Answer(c, what, NoEntry), UNCHANGED <<journal, req>>
    PROVE  Book!BookNext
<1>1. Asked' = Asked
  BY AskedSame DEF Answer, Goto, TypeOK
<1>2. receipt' = receipt /\ outcome' = [outcome EXCEPT ![c] = what]
  BY WaitingCall DEF Answer, TypeOK, NoEntry
<1>3. Book!Refuse(c)
  BY <1>1, <1>2, WaitingCall DEF Book!Refuse, Book!Waiting, Book!Refusals, Asked
<1> QED
  BY <1>3 DEF Book!BookNext, Book!CallStep

LEMMA TakeStep ==
    ASSUME TypeOK, TypeOK', Phases, NEW c \in Calls, pc[c] \notin {"idle", "reply", "done"},
           NEW n \in EntriesOf(RefOf(req[c]), journal),
           Answer(c, "ok", n), UNCHANGED <<journal, req>>
    PROVE  Book!BookNext
<1>1. Asked' = Asked
  BY AskedSame DEF Answer, Goto, TypeOK
<1>2. n \in Book!Named(Asked[c])
  BY WaitingCall DEF EntriesOf, Book!Named
<1>3. Book!Take(c, n)
  BY <1>1, WaitingCall DEF Answer, Book!Take, Book!Waiting, Asked
<1> QED
  BY <1>2, <1>3 DEF Book!BookNext, Book!CallStep, Asked

LEMMA SilentStep ==
    ASSUME TypeOK, TypeOK', NEW c \in Calls, pc[c] # "idle", NEW label \in Labels \ {"idle"},
           Goto(c, label), UNCHANGED <<journal, req, outcome, receipt>>
    PROVE  UNCHANGED Book!bookVars
<1>1. Asked' = Asked
  BY AskedSame DEF Goto, TypeOK
<1> QED
  BY <1>1 DEF Book!bookVars, Asked

LEMMA BookStep ==
    ASSUME IInv, IInv', [Next]_vars
    PROVE  [Book!BookNext]_Book!bookVars
<1> USE DEF NoEntry
<1>0. TypeOK /\ TypeOK' /\ Phases
  BY DEF IInv
<1>l. \A l \in {"check", "find_own", "create_own", "balance", "find_other", "create_other",
               "post", "recover", "reply", "done"} : l \in Labels \ {"idle"}
  BY DEF Labels
<1>1. ASSUME NEW c \in Calls, NEW r \in Requests, Begin(c, r)
      PROVE  Book!BookNext
  <2>1. pc[c] = "idle" /\ pc' = [pc EXCEPT ![c] = pc'[c]] /\ pc'[c] # "idle"
    <3>1. FirstLabel(r) # "idle"
      BY DEF FirstLabel
    <3> QED
      BY <1>0, <1>1, <3>1 DEF Begin, Answer, Goto, TypeOK
  <2>2. RefOf(r) # <<>>
    BY RequestAssumption, RefOfType
  <2>3. Asked[c] = <<>> /\ Asked'[c] = RefOf(r) /\ Asked' = [Asked EXCEPT ![c] = Asked'[c]]
    BY <1>0, <1>1, <2>1 DEF Begin, Asked, TypeOK
  <2>4. receipt' = receipt /\ outcome' = [outcome EXCEPT ![c] = outcome'[c]]
        /\ outcome'[c] \in {"none", "invalid", "error"}
    BY <1>0, <1>1, <2>1 DEF Begin, Answer, TypeOK, Phases, PhaseOf
  <2>5. Book!Ask(c)
    BY <1>1, <2>2, <2>3, <2>4 DEF Begin, Book!Ask, Book!Refusals, Asked
  <2> QED
    BY <2>5 DEF Book!BookNext, Book!CallStep
<1>2. ASSUME NEW c \in Calls, CheckIdempotency(c)
      PROVE  [Book!BookNext]_Book!bookVars
  BY <1>0, <1>l, <1>2, RefuseStep, TakeStep, SilentStep DEF CheckIdempotency, AfterCheck
<1>3. ASSUME NEW c \in Calls, FindOwn(c)
      PROVE  [Book!BookNext]_Book!bookVars
  BY <1>0, <1>l, <1>3, RefuseStep, SilentStep DEF FindOwn, OwnFound
<1>4. ASSUME NEW c \in Calls, CreateOwn(c)
      PROVE  [Book!BookNext]_Book!bookVars
  BY <1>0, <1>l, <1>4, RefuseStep, SilentStep DEF CreateOwn, OwnFound
<1>5. ASSUME NEW c \in Calls, CheckFunds(c)
      PROVE  [Book!BookNext]_Book!bookVars
  BY <1>0, <1>l, <1>5, RefuseStep, SilentStep DEF CheckFunds
<1>6. ASSUME NEW c \in Calls, FindOther(c)
      PROVE  [Book!BookNext]_Book!bookVars
  BY <1>0, <1>l, <1>6, SilentStep DEF FindOther
<1>7. ASSUME NEW c \in Calls, CreateOther(c)
      PROVE  [Book!BookNext]_Book!bookVars
  BY <1>0, <1>l, <1>7, RefuseStep, SilentStep DEF CreateOther
<1>8. ASSUME NEW c \in Calls, Post(c)
      PROVE  [Book!BookNext]_Book!bookVars
  <2>1. CASE PostResult(EntryOf(c), journal) = "posted"
    <3>1. /\ journal' = Append(journal, EntryOf(c)) /\ journal \in Seq(Entry)
          /\ EntriesOf(EntryOf(c).ref, journal) = {}
      BY <1>0, <1>8, <2>1, PostedCases DEF Post, TypeOK, RepoTypeOK
    <3>2. Len(journal') = Len(journal) + 1 /\ journal'[Len(journal) + 1] = EntryOf(c)
      BY <3>1
    <3>3. EntryOf(c).ref = RefOf(req[c])
      BY DEF EntryOf
    <3>4. Asked' = Asked
      BY <1>0, <1>8, <2>1, AskedSame DEF Post, Goto, TypeOK
    <3>5. Book!Named(Asked[c]) = {}
      BY <1>0, <1>8, <3>1, <3>3, WaitingCall DEF Post, EntriesOf, Book!Named
    <3>6. Book!Write(c)
      BY <1>0, <1>8, <2>1, <3>1, <3>2, <3>3, <3>4, <3>5, WaitingCall
      DEF Post, Book!Write, Book!Waiting, Asked
    <3> QED
      BY <3>6 DEF Book!BookNext, Book!CallStep
  <2>2. CASE PostResult(EntryOf(c), journal) # "posted"
    <3>1. journal' = journal
      BY <1>8, <2>2, PostedCases DEF Post
    <3> QED
      BY <1>0, <1>l, <1>8, <2>2, <3>1, RefuseStep, SilentStep DEF Post
  <2> QED
    BY <2>1, <2>2
<1>9. ASSUME NEW c \in Calls, Recover(c)
      PROVE  Book!BookNext
  BY <1>0, <1>9, RefuseStep, TakeStep DEF Recover
<1>10. ASSUME NEW c \in Calls, Reply(c)
       PROVE  Book!BookNext
  <2>1. Asked' = Asked
    BY <1>0, <1>10, AskedSame DEF Reply, Answer, Goto, TypeOK
  <2>2. receipt' = receipt /\ receipt[c] # 0 /\ outcome[c] = "none"
    BY <1>0, <1>10 DEF Reply, Answer, TypeOK, Phases, PhaseOf
  <2>3. Book!Confirm(c)
    BY <1>10, <2>1, <2>2 DEF Reply, Answer, Book!Confirm, Asked
  <2> QED
    BY <2>3 DEF Book!BookNext, Book!CallStep
<1>11. ASSUME NEW c \in Calls, Stop(c)
       PROVE  Book!BookNext
  <2>1. Asked' = Asked
    BY <1>0, <1>11, AskedSame DEF Stop, Goto, TypeOK
  <2>2. Asked[c] # <<>> /\ outcome[c] = "none"
    BY <1>0, <1>11, RefOfType DEF Stop, Asked, TypeOK, Phases, PhaseOf
  <2>3. Book!Lose(c)
    BY <1>11, <2>1, <2>2 DEF Stop, Book!Lose, Asked
  <2> QED
    BY <2>3 DEF Book!BookNext, Book!CallStep
<1>12. ASSUME NEW c \in Calls, LookupFails(c)
       PROVE  UNCHANGED Book!bookVars
  BY <1>0, <1>l, <1>12, SilentStep DEF LookupFails, AfterCheck
<1>13. CASE UNCHANGED vars
  BY <1>13 DEF vars, Book!bookVars
<1> QED
  BY <1>1, <1>2, <1>3, <1>4, <1>5, <1>6, <1>7, <1>8, <1>9, <1>10, <1>11, <1>12, <1>13 DEF Next, Step

\* The service with its separate look-ups, checks and posts implements a book
\* that is written in single steps.
THEOREM ImplementsBook == Spec => BookSpec
<1>1. IInv /\ IInv' /\ [Next]_vars => [Book!BookNext]_Book!bookVars
  BY BookStep
<1>2. Spec => Book!Open /\ [][Book!BookNext]_Book!bookVars
  BY BookInit, Inductive, <1>1, PTL DEF Spec
<1> QED
  BY <1>2 DEF BookSpec, Book!BookSpec
-----------------------------------------------------------------------------
(* Accounts and their owners. *)

\* Call c has found no account for o and is about to create one.
Creates(c, o) ==
    \/ pc[c] = "create_own" /\ o = req[c].user
    \/ pc[c] = "create_other" /\ o = req[c].to

\* Two calls are about to create an account for one owner.
TwoCreate == \E c, d \in Calls, o \in Owners : c # d /\ Creates(c, o) /\ Creates(d, o)

\* A look-up reports an account that is there as missing: the query failed.
Overlooks ==
    \E c \in Calls :
        \/ pc[c] = "find_own" /\ pc'[c] = "create_own" /\ UserRows(req[c].user) # {}
        \/ pc[c] = "find_other" /\ pc'[c] = "create_other" /\ Rows(req[c].to) # {}

\* What a call found is still so: there is no account for the owner.
Vacant == \A c \in Calls, o \in Owners : Creates(c, o) => UserRows(o) = {}

TypedByOwner == \A a \in DOMAIN accounts : accounts[a].type = TypeOfOwner(accounts[a].owner)

LEMMA InitAccounts ==
    ASSUME Init
    PROVE  OneAccountPerUser /\ TypedByOwner /\ Vacant
<1>1. OneAccountPerUser /\ TypedByOwner
  <2>1. CASE Backend = "memory"
    <3>1. accounts = <<[owner |-> DemoUser, type |-> TypeOfOwner(DemoUser)],
                       [owner |-> Amina, type |-> TypeOfOwner(Amina)],
                       [owner |-> MoMoPool, type |-> TypeOfOwner(MoMoPool)],
                       [owner |-> EscrowPool, type |-> TypeOfOwner(EscrowPool)]>>
      BY <2>1 DEF Init, RepoInit, SeedAccounts
    <3>2. DOMAIN accounts = 1..4 /\ accounts[1].owner = DemoUser /\ accounts[2].owner = Amina
          /\ accounts[3].owner = MoMoPool /\ accounts[4].owner = EscrowPool
      BY <3>1
    <3>3. /\ DemoUser # Amina /\ MoMoPool # EscrowPool /\ DemoUser # MoMoPool
          /\ DemoUser # EscrowPool /\ Amina # MoMoPool /\ Amina # EscrowPool
      BY PoolAssumption, DemoAssumption
    <3>4. \A a \in DOMAIN accounts : a = 1 \/ a = 2 \/ a = 3 \/ a = 4
      BY <3>2
    <3>5. OneAccountPerUser
      BY <3>2, <3>3, <3>4 DEF OneAccountPerUser
    <3>6. TypedByOwner
      BY <3>1, <3>2, <3>4 DEF TypedByOwner
    <3> QED
      BY <3>5, <3>6
  <2>2. CASE Backend # "memory"
    <3>1. accounts = <<[owner |-> MoMoPool, type |-> TypeOfOwner(MoMoPool)]>>
      BY <2>2 DEF Init, RepoInit, SeedAccounts
    <3>2. \A a \in DOMAIN accounts : a = 1
      BY <3>1
    <3> QED
      BY <3>1, <3>2 DEF OneAccountPerUser, TypedByOwner
  <2> QED
    BY <2>1, <2>2
<1>2. Vacant
  BY DEF Init, Vacant, Creates
<1> QED
  BY <1>1, <1>2

\* An account for an owner that has none, or none at all, keeps the owners apart.
LEMMA CreateKeepsOwnersApart ==
    ASSUME TypeOK, OneAccountPerUser, TypedByOwner, NEW o, NEW i,
           CreateAccount(o, i, accounts'), Backend = "memory" \/ UserRows(o) = {}
    PROVE  /\ OneAccountPerUser' /\ TypedByOwner'
           /\ \A u : u # o => UserRows(u)' = UserRows(u)
<1>1. accounts \in Seq(Account)
  BY DEF TypeOK, RepoTypeOK
<1>2. CASE accounts' = accounts
  BY <1>2 DEF OneAccountPerUser, TypedByOwner, UserRows
<1>3. CASE /\ UserRows(o) = {}
           /\ accounts' = Append(accounts, [owner |-> o, type |-> TypeOfOwner(o)])
  <2>1. DOMAIN accounts = 1..Len(accounts) /\ DOMAIN accounts' = 1..(Len(accounts) + 1)
        /\ Len(accounts) \in Nat
    BY <1>1, <1>3
  <2>2. \A a \in DOMAIN accounts : accounts'[a] = accounts[a] /\ accounts[a].owner # o
    BY <1>1, <1>3 DEF UserRows
  <2>3. accounts'[Len(accounts) + 1] = [owner |-> o, type |-> TypeOfOwner(o)]
    BY <1>1, <1>3
  <2>4. OneAccountPerUser'
    BY <2>1, <2>2, <2>3 DEF OneAccountPerUser
  <2>5. TypedByOwner'
    <3> SUFFICES ASSUME NEW a \in DOMAIN accounts'
                 PROVE  accounts'[a].type = TypeOfOwner(accounts'[a].owner)
      BY DEF TypedByOwner, TypeOfOwner
    <3>1. CASE a = Len(accounts) + 1
      BY <2>3, <3>1
    <3>2. CASE a \in DOMAIN accounts
      BY <2>2, <3>2 DEF TypedByOwner
    <3> QED
      BY <2>1, <3>1, <3>2
  <2>6. \A u : u # o => UserRows(u)' = UserRows(u)
    BY <2>1, <2>2, <2>3 DEF UserRows
  <2> QED
    BY <2>4, <2>5, <2>6
<1> QED
  BY <1>2, <1>3 DEF CreateAccount

\* The other steps leave the accounts as they are.
LEMMA OnlyCreateAdds ==
    ASSUME [Next]_vars, ~ \E c \in Calls : CreateOwn(c) \/ CreateOther(c)
    PROVE  accounts' = accounts
<1>1. ASSUME NEW c \in Calls, Step(c)
      PROVE  accounts' = accounts
  BY <1>1 DEF Step, CheckIdempotency, FindOwn, CheckFunds, FindOther, Post, Recover, Reply,
              LookupFails
<1>2. ASSUME NEW c \in Calls, NEW r \in Requests, Begin(c, r)
      PROVE  accounts' = accounts
  BY <1>2 DEF Begin
<1>3. (\E c \in Calls : Stop(c)) \/ UNCHANGED vars => accounts' = accounts
  BY DEF Stop, vars
<1> QED
  BY <1>1, <1>2, <1>3 DEF Next

\* A step keeps the owners apart if the insert it may make is checked under the
\* lock, or what its call has found still holds.
LEMMA OwnersStayApart ==
    ASSUME TypeOK, OneAccountPerUser, TypedByOwner, Backend = "memory" \/ Vacant, [Next]_vars
    PROVE  OneAccountPerUser' /\ TypedByOwner'
<1>1. CASE accounts' = accounts
  BY <1>1 DEF OneAccountPerUser, TypedByOwner
<1>2. ASSUME NEW c \in Calls, CreateOwn(c)
      PROVE  OneAccountPerUser' /\ TypedByOwner'
  <2>1. req[c].user \in Owners
    BY DEF TypeOK, RequestType, Owners
  <2>2. Backend = "memory" \/ UserRows(req[c].user) = {}
    BY <1>2, <2>1 DEF Vacant, Creates, CreateOwn
  <2> QED
    BY <1>1, <1>2, <2>2, CreateKeepsOwnersApart DEF CreateOwn
<1>3. ASSUME NEW c \in Calls, CreateOther(c)
      PROVE  OneAccountPerUser' /\ TypedByOwner'
  <2>1. req[c].to \in Owners
    BY DEF TypeOK, RequestType, Owners, Pools
  <2>2. Backend = "memory" \/ UserRows(req[c].to) = {}
    BY <1>3, <2>1 DEF Vacant, Creates, CreateOther
  <2> QED
    BY <1>1, <1>3, <2>2, CreateKeepsOwnersApart DEF CreateOther
<1> QED
  BY <1>1, <1>2, <1>3, OnlyCreateAdds

\* MemoryRepository keeps one account per owner: the service's look-up and
\* insert are separate, but CreateAccount looks again under its lock.
THEOREM OneWallet == Backend = "memory" /\ Spec => []OneAccountPerUser
<1> SUFFICES ASSUME Backend = "memory" PROVE Spec => []OneAccountPerUser
  OBVIOUS
<1>1. Init => OneAccountPerUser /\ TypedByOwner
  BY InitAccounts
<1>2. TypeOK /\ OneAccountPerUser /\ TypedByOwner /\ [Next]_vars
          => OneAccountPerUser' /\ TypedByOwner'
  BY OwnersStayApart
<1> QED
  BY <1>1, <1>2, Typing, PTL DEF Spec

\* No account appears for an owner that a call has found to have none, unless
\* two calls create one, and only a failing query finds none where there is one.
LEMMA VacantStep ==
    ASSUME TypeOK, OneAccountPerUser, TypedByOwner, Vacant, ~TwoCreate, ~Overlooks,
           [Next]_vars
    PROVE  Vacant'
<1> SUFFICES ASSUME NEW d \in Calls, NEW o \in Owners, Creates(d, o)'
             PROVE  UserRows(o)' = {}
  BY DEF Vacant
<1>1. CASE accounts' = accounts /\ Creates(d, o)
  BY <1>1 DEF Vacant, UserRows
<1>2. CASE FindOwn(d) \/ FindOther(d) \/ LookupFails(d)
  <2>1. pc'[d] \in {"create_own", "create_other"}
    BY DEF Creates
  <2>2. CASE FindOwn(d)
    BY <2>1, <2>2 DEF FindOwn, OwnFound, Answer, Goto, TypeOK, Creates, UserRows
  <2>3. CASE FindOther(d)
    <3>1. pc'[d] = "create_other" /\ Rows(req[d].to) = {} /\ accounts' = accounts /\ o = req[d].to
      BY <2>1, <2>3 DEF FindOther, Goto, TypeOK, Creates
    <3>2. UserRows(o) = {}
      BY <3>1 DEF Rows, SystemRows, SystemRowsByType, UserRows, TypedByOwner
    <3> QED
      BY <3>1, <3>2 DEF UserRows
  <2>4. CASE LookupFails(d) /\ ~Creates(d, o)
    <3>1. /\ accounts' = accounts
          /\ \/ pc[d] = "find_own" /\ pc'[d] = "create_own" /\ o = req[d].user
             \/ pc[d] = "find_other" /\ pc'[d] = "create_other" /\ o = req[d].to
      BY <2>4 DEF LookupFails, AfterCheck, Goto, TypeOK, Creates
    <3>2. UserRows(o) = {}
      BY <3>1 DEF Overlooks, Rows, SystemRows, SystemRowsByType, UserRows, TypedByOwner
    <3> QED
      BY <3>1, <3>2 DEF UserRows
  <2>5. LookupFails(d) => accounts' = accounts
    BY DEF LookupFails
  <2> QED
    BY <1>1, <1>2, <2>2, <2>3, <2>4, <2>5
<1>3. ASSUME NEW c \in Calls, CreateOwn(c) \/ CreateOther(c)
      PROVE  UserRows(o)' = {}
  <2>1. PICK u \in Owners :
           /\ Creates(c, u)
           /\ accounts' # accounts => \E a : CreateAccount(u, a, accounts')
    <3>1. CASE CreateOwn(c)
      BY <3>1 DEF CreateOwn, Creates, TypeOK, RequestType, Owners
    <3>2. CASE CreateOther(c)
      BY <3>2 DEF CreateOther, Creates, TypeOK, RequestType, Owners, Pools
    <3> QED
      BY <1>3, <3>1, <3>2
  <2>2. c # d /\ Creates(d, o)
    BY <1>3 DEF CreateOwn, CreateOther, OwnFound, Answer, Goto, Creates, TypeOK
  <2>3. u # o
    BY <2>1, <2>2 DEF TwoCreate
  <2>4. UserRows(u) = {} /\ UserRows(o) = {}
    BY <2>1, <2>2 DEF Vacant
  <2> QED
    BY <1>1, <2>1, <2>2, <2>3, <2>4, CreateKeepsOwnersApart
<1>4. ASSUME ~ \E c \in Calls : CreateOwn(c) \/ CreateOther(c),
             ~ (FindOwn(d) \/ FindOther(d) \/ LookupFails(d))
      PROVE  accounts' = accounts /\ Creates(d, o)
  <2>1. accounts' = accounts
    BY <1>4, OnlyCreateAdds
  <2>2. ASSUME NEW c \in Calls, NEW r \in Requests, Begin(c, r)
        PROVE  Creates(d, o)
    BY <2>2 DEF Begin, Answer, Goto, FirstLabel, Creates, TypeOK
  <2>3. ASSUME NEW c \in Calls, Step(c)
        PROVE  Creates(d, o)
    BY <1>4, <2>3 DEF Step, CheckIdempotency, FindOwn, CheckFunds, FindOther, Post, Recover, Reply,
                      LookupFails, AfterCheck, OwnFound, Answer, Goto, Creates, TypeOK
  <2>4. (\E c \in Calls : Stop(c)) \/ UNCHANGED vars => Creates(d, o)
    BY DEF Stop, Goto, Creates, TypeOK, vars
  <2> QED
    BY <1>4, <2>1, <2>2, <2>3, <2>4 DEF Next
<1> QED
  BY <1>1, <1>2, <1>3, <1>4

\* On Postgres nothing looks again, and user_id is not unique.  A second account
\* for one owner has one of two causes: two calls were about to create one for
\* that owner, or a query that failed reported an account as missing.  As long as
\* neither happens there is one wallet per user, whatever is retried, cut off,
\* raced for other users, or fails when there is nothing to find.
THEOREM SecondWalletHasCause ==
    Spec /\ []~TwoCreate /\ [][~Overlooks]_vars => []OneAccountPerUser
<1>1. Init => OneAccountPerUser /\ TypedByOwner /\ Vacant
  BY InitAccounts
<1>2. TypeOK /\ OneAccountPerUser /\ TypedByOwner /\ Vacant /\ ~TwoCreate /\ [Next]_vars
          /\ [~Overlooks]_vars
          => OneAccountPerUser' /\ TypedByOwner' /\ Vacant'
  <2>1. UNCHANGED vars => ~Overlooks
    BY DEF vars, Overlooks
  <2> QED
    BY <2>1, OwnersStayApart, VacantStep
<1> QED
  BY <1>1, <1>2, Typing, PTL DEF Spec
-----------------------------------------------------------------------------
(* Sides, nets and balances as totals. *)

\* One side of an entry is a total.
LEMMA SideIs ==
    ASSUME NEW ps, IsFiniteSet(DOMAIN ps), NEW d
    PROVE  SideTotal(ps, d)
             = Total([i \in DOMAIN ps |-> IF ps[i].direction = d THEN ps[i].amount ELSE 0], DOMAIN ps)
<1> DEFINE S == DOMAIN ps
           v(i) == IF ps[i].direction = d THEN ps[i].amount ELSE 0
           f == [i \in S |-> v(i)]
           Q(g) == g = [s \in SUBSET S |-> IF s = {} THEN 0 ELSE v(Pick(s)) + g[s \ {Pick(s)}]]
<1>1. SideTotal(ps, d) = (CHOOSE g : Q(g))[S]
  BY DEF SideTotal, SumOver, MapThenSumSet, MapThenFoldSet, Pick
<1>2. \A s \in SUBSET S : s # {} => f[Pick(s)] = v(Pick(s))
  BY PickIn
<1> HIDE DEF f, v
<1>3. ASSUME NEW g PROVE Q(g) <=> IsSum(g, f, S)
  BY <1>2 DEF IsSum
<1> DEFINE G == CHOOSE g : Q(g)
<1>4. Q(G)
  BY <1>3, SumExists
<1> HIDE DEF G
<1>5. G[S] = Total(f, S)
  BY <1>3, <1>4, TotalIsSum
<1> QED
  BY <1>1, <1>5 DEF G, f, v

\* What an entry adds to an account is a total.
LEMMA NetIs ==
    ASSUME NEW ps, IsFiniteSet(DOMAIN ps), NEW a
    PROVE  NetDebit(ps, a)
             = Total([i \in DOMAIN ps |-> IF ps[i].account # a THEN 0
                                          ELSE IF ps[i].direction = "DR" THEN ps[i].amount
                                          ELSE -ps[i].amount], DOMAIN ps)
<1> DEFINE S == DOMAIN ps
           v(i) == IF ps[i].account # a THEN 0
                   ELSE IF ps[i].direction = "DR" THEN ps[i].amount ELSE -ps[i].amount
           f == [i \in S |-> v(i)]
           Q(g) == g = [s \in SUBSET S |-> IF s = {} THEN 0 ELSE v(Pick(s)) + g[s \ {Pick(s)}]]
<1>1. NetDebit(ps, a) = (CHOOSE g : Q(g))[S]
  BY DEF NetDebit, SumOver, MapThenSumSet, MapThenFoldSet, Pick
<1>2. \A s \in SUBSET S : s # {} => f[Pick(s)] = v(Pick(s))
  BY PickIn
<1> HIDE DEF f, v
<1>3. ASSUME NEW g PROVE Q(g) <=> IsSum(g, f, S)
  BY <1>2 DEF IsSum
<1> DEFINE G == CHOOSE g : Q(g)
<1>4. Q(G)
  BY <1>3, SumExists
<1> HIDE DEF G
<1>5. G[S] = Total(f, S)
  BY <1>3, <1>4, TotalIsSum
<1> QED
  BY <1>1, <1>5 DEF G, f, v

\* The debits less the credits of account a in a journal.
NetIn(jnl, a) == Total([n \in DOMAIN jnl |-> NetDebit(jnl[n].postings, a)], DOMAIN jnl)

\* The recursion in GetBalance computes NetIn.
LEMMA NetInIs ==
    ASSUME NEW jnl, IsFiniteSet(DOMAIN jnl), NEW a
    PROVE  (CHOOSE g : g = [s \in SUBSET (DOMAIN jnl) |->
                IF s = {} THEN 0
                ELSE NetDebit(jnl[Pick(s)].postings, a) + g[s \ {Pick(s)}]])[DOMAIN jnl] = NetIn(jnl, a)
<1> DEFINE S == DOMAIN jnl
           v(n) == NetDebit(jnl[n].postings, a)
           f == [n \in S |-> v(n)]
           Q(g) == g = [s \in SUBSET S |-> IF s = {} THEN 0 ELSE v(Pick(s)) + g[s \ {Pick(s)}]]
<1>1. \A s \in SUBSET S : s # {} => f[Pick(s)] = v(Pick(s))
  BY PickIn
<1> HIDE DEF f, v
<1>2. ASSUME NEW g PROVE Q(g) <=> IsSum(g, f, S)
  BY <1>1 DEF IsSum
<1> DEFINE G == CHOOSE g : Q(g)
<1>3. Q(G)
  BY <1>2, SumExists
<1> HIDE DEF G
<1>4. G[S] = Total(f, S)
  BY <1>2, <1>3, TotalIsSum
<1> QED
  BY <1>4 DEF G, f, v, NetIn

\* GetBalance is NetIn with the sign of the account.
LEMMA BalanceIs ==
    ASSUME IsFiniteSet(DOMAIN journal), NEW a
    PROVE  GetBalance(a) = IF accounts[a].type = "asset" THEN NetIn(journal, a) ELSE -NetIn(journal, a)
<1> DEFINE Q(g) == g = [s \in SUBSET (DOMAIN journal) |->
                           IF s = {} THEN 0
                           ELSE NetDebit(journal[Pick(s)].postings, a) + g[s \ {Pick(s)}]]
           net == (CHOOSE g : Q(g))[DOMAIN journal]
<1>1. GetBalance(a) = IF accounts[a].type = "asset" THEN net ELSE -net
  BY DEF GetBalance, SumOver, MapThenSumSet, MapThenFoldSet, Pick
<1>2. net = NetIn(journal, a)
  BY NetInIs
<1> HIDE DEF net
<1> QED
  BY <1>1, <1>2

\* A sum of balances is a total.
LEMMA BalancesAre ==
    ASSUME NEW S, IsFiniteSet(S)
    PROVE  SumOver(S, GetBalance) = Total([a \in S |-> GetBalance(a)], S)
<1> DEFINE f == [a \in S |-> GetBalance(a)]
           Q(g) == g = [s \in SUBSET S |-> IF s = {} THEN 0 ELSE GetBalance(Pick(s)) + g[s \ {Pick(s)}]]
<1>1. SumOver(S, GetBalance) = (CHOOSE g : Q(g))[S]
  BY DEF SumOver, MapThenSumSet, MapThenFoldSet, Pick
<1>2. \A s \in SUBSET S : s # {} => f[Pick(s)] = GetBalance(Pick(s))
  BY PickIn
<1> HIDE DEF f
<1>3. ASSUME NEW g PROVE Q(g) <=> IsSum(g, f, S)
  BY <1>2 DEF IsSum
<1> DEFINE G == CHOOSE g : Q(g)
<1>4. Q(G)
  BY <1>3, SumExists
<1> HIDE DEF G
<1>5. G[S] = Total(f, S)
  BY <1>3, <1>4, TotalIsSum
<1> QED
  BY <1>1, <1>5 DEF G, f

\* The same after a step, for a caller's account.
LEMMA OwnBalanceThen ==
    ASSUME NEW c, NEW o, own'[c] = o, IsFiniteSet(DOMAIN journal')
    PROVE  GetBalance(own[c])' = IF accounts'[o].type = "asset" THEN NetIn(journal', o) ELSE -NetIn(journal', o)
<1> DEFINE Q(g) == g = [s \in SUBSET (DOMAIN journal') |->
                           IF s = {} THEN 0
                           ELSE NetDebit(journal'[Pick(s)].postings, o) + g[s \ {Pick(s)}]]
           net == (CHOOSE g : Q(g))[DOMAIN journal']
<1>1. GetBalance(own[c])' = IF accounts'[o].type = "asset" THEN net ELSE -net
  BY DEF GetBalance, SumOver, MapThenSumSet, MapThenFoldSet, Pick
<1>2. net = NetIn(journal', o)
  BY ONLY IsFiniteSet(DOMAIN journal'), NetInIs
<1> HIDE DEF net
<1> QED
  BY <1>1, <1>2
-----------------------------------------------------------------------------
(* Balanced entries move money and make none. *)

\* A sequence has finitely many indices.
LEMMA SeqDomain ==
    ASSUME NEW S, NEW s \in Seq(S)
    PROVE  IsFiniteSet(DOMAIN s) /\ \A i \in DOMAIN s : s[i] \in S
<1>1. DOMAIN s = 1 .. Len(s) /\ Len(s) \in Nat /\ \A i \in 1 .. Len(s) : s[i] \in S
  OBVIOUS
<1>2. IsFiniteSet(1 .. Len(s))
  BY <1>1, FS_Interval
<1> QED
  BY <1>1, <1>2

\* An entry adds an integer to every account.
LEMMA NetType ==
    ASSUME NEW ps \in Seq(Posting), NEW a
    PROVE  NetDebit(ps, a) \in Int
<1> DEFINE S == DOMAIN ps
           f == [i \in S |-> IF ps[i].account # a THEN 0
                             ELSE IF ps[i].direction = "DR" THEN ps[i].amount ELSE -ps[i].amount]
<1>1. IsFiniteSet(S) /\ \A i \in S : ps[i].amount \in Int
  <2>1. IsFiniteSet(S) /\ \A i \in S : ps[i] \in Posting
    BY SeqDomain
  <2> QED
    BY <2>1 DEF Posting
<1>2. \A i \in S : f[i] \in Int
  BY <1>1
<1>3. NetDebit(ps, a) = Total(f, S)
  BY <1>1, NetIs
<1> HIDE DEF f
<1> QED
  BY <1>1, <1>2, <1>3, TotalType

\* An entry whose sides are equal adds nothing to its accounts together.
LEMMA EntryCancels ==
    ASSUME NEW A, IsFiniteSet(A), NEW ps \in Seq(Posting), \A i \in DOMAIN ps : ps[i].account \in A,
           SideTotal(ps, "DR") = SideTotal(ps, "CR")
    PROVE  Total([a \in A |-> NetDebit(ps, a)], A) = 0
<1> DEFINE S == DOMAIN ps
           point(i, a) == IF ps[i].account # a THEN 0
                          ELSE IF ps[i].direction = "DR" THEN ps[i].amount ELSE -ps[i].amount
           m == [a \in A |-> [i \in S |-> point(i, a)]]
           c == [i \in S |-> [a \in A |-> point(i, a)]]
           row == [a \in A |-> NetDebit(ps, a)]
           dr == [i \in S |-> IF ps[i].direction = "DR" THEN ps[i].amount ELSE 0]
           cr == [i \in S |-> IF ps[i].direction = "CR" THEN ps[i].amount ELSE 0]
           back == [i \in S |-> -cr[i]]
           col == [i \in S |-> dr[i] + back[i]]
<1>0. /\ IsFiniteSet(S)
      /\ \A i \in S : ps[i].amount \in Int /\ ps[i].account \in A /\ ps[i].direction \in {"DR", "CR"}
  <2>1. IsFiniteSet(S) /\ \A i \in S : ps[i] \in Posting
    BY SeqDomain
  <2> QED
    BY <2>1 DEF Posting
<1>1. \A a \in A, i \in S : m[a][i] \in Int /\ c[i][a] = m[a][i]
  BY <1>0
<1>2. \A a \in A : row[a] = Total(m[a], S)
  BY <1>0, NetIs
<1>3. ASSUME NEW i \in S PROVE col[i] = Total(c[i], A)
  <2> DEFINE f == c[i]
  <2>1. /\ ps[i].account \in A /\ f[ps[i].account] = col[i] /\ col[i] \in Int
        /\ \A a \in A \ {ps[i].account} : f[a] = 0
    BY <1>0
  <2> HIDE DEF f
  <2>2. Total(f, A) = f[ps[i].account]
    BY <2>1, TotalOne
  <2> QED
    BY <2>1, <2>2 DEF f
<1>4. Total(row, A) = Total(col, S)
  <2> HIDE DEF m, c, row, col
  <2>1. Table(A, S, m, c, row, col)
    BY <1>0, <1>1, <1>2, <1>3 DEF Table
  <2> QED
    BY <2>1, TotalTable
<1>5. \A i \in S : /\ dr[i] \in Int /\ cr[i] \in Int /\ back[i] \in Int
                   /\ back[i] = -cr[i] /\ col[i] = dr[i] + back[i]
  BY <1>0
<1>6. SideTotal(ps, "DR") = Total(dr, S) /\ SideTotal(ps, "CR") = Total(cr, S)
  BY <1>0, SideIs
<1> HIDE DEF dr, cr, back, col, row
<1>7. Total(col, S) = Total(dr, S) + Total(back, S)
  BY <1>0, <1>5, TotalPlus
<1>8. Total(back, S) = -Total(cr, S)
  BY <1>0, <1>5, TotalMinus
<1>9. Total(dr, S) \in Int /\ Total(cr, S) \in Int
  BY <1>0, <1>5, TotalType
<1> QED
  BY <1>4, <1>6, <1>7, <1>8, <1>9 DEF row

\* Every entry is balanced and moves money between accounts that exist.
Sound(e) ==
    /\ \A i \in DOMAIN e.postings : e.postings[i].account \in DOMAIN accounts
    /\ SideTotal(e.postings, "DR") = SideTotal(e.postings, "CR")

\* When every entry is sound, the accounts together hold nothing.
LEMMA NetsCancel ==
    ASSUME TypeOK, \A n \in DOMAIN journal : Sound(journal[n])
    PROVE  /\ \A a : NetIn(journal, a) \in Int
           /\ Total([a \in DOMAIN accounts |-> NetIn(journal, a)], DOMAIN accounts) = 0
<1> DEFINE A == DOMAIN accounts
           J == DOMAIN journal
           nets(a) == [n \in J |-> NetDebit(journal[n].postings, a)]
           m == [a \in A |-> nets(a)]
           c == [n \in J |-> [a \in A |-> NetDebit(journal[n].postings, a)]]
           row == [a \in A |-> NetIn(journal, a)]
           col == [n \in J |-> 0]
<1>1. /\ IsFiniteSet(A) /\ IsFiniteSet(J)
      /\ \A n \in J : journal[n].postings \in Seq(Posting)
  BY SeqDomain, JournalEntryType DEF TypeOK, RepoTypeOK
<1>2. ASSUME NEW a PROVE NetIn(journal, a) \in Int
  <2>1. \A n \in J : nets(a)[n] \in Int
    BY <1>1, NetType
  <2>2. NetIn(journal, a) = Total(nets(a), J)
    BY DEF NetIn
  <2> HIDE DEF nets
  <2> QED
    BY <1>1, <2>1, <2>2, TotalType
<1>3. \A a \in A, n \in J : m[a][n] \in Int /\ c[n][a] = m[a][n]
  BY <1>1, NetType
<1>4. \A a \in A : row[a] = Total(m[a], J)
  BY DEF NetIn
<1>5. ASSUME NEW n \in J PROVE col[n] = Total(c[n], A)
  <2>1. Total([a \in A |-> NetDebit(journal[n].postings, a)], A) = 0
    BY <1>1, EntryCancels DEF Sound
  <2>2. c[n] = [a \in A |-> NetDebit(journal[n].postings, a)]
    OBVIOUS
  <2> QED
    BY <2>1, <2>2
<1>6. Total(row, A) = Total(col, J)
  <2> HIDE DEF m, c, row, col
  <2>1. Table(A, J, m, c, row, col)
    BY <1>1, <1>3, <1>4, <1>5 DEF Table
  <2> QED
    BY <2>1, TotalTable
<1>7. Total(col, J) = 0
  BY <1>1, TotalZero
<1> QED
  BY <1>2, <1>6, <1>7

\* Split by type: what the assets hold is what the liabilities owe.
LEMMA MoneyKept ==
    ASSUME TypeOK, \A n \in DOMAIN journal : Sound(journal[n])
    PROVE  TrialBalance
<1> DEFINE A == DOMAIN accounts
           row == [a \in A |-> NetIn(journal, a)]
           has == [a \in A |-> IF accounts[a].type = "asset" THEN NetIn(journal, a) ELSE 0]
           owes == [a \in A |-> IF accounts[a].type = "asset" THEN 0 ELSE NetIn(journal, a)]
           H == AccountsOf("asset")
           O == AccountsOf("liability")
           hasOf == [a \in H |-> GetBalance(a)]
           owesOf == [a \in O |-> GetBalance(a)]
<1>1. /\ IsFiniteSet(A) /\ IsFiniteSet(DOMAIN journal)
      /\ \A a \in A : accounts[a].type \in {"asset", "liability"}
  <2>1. accounts \in Seq(Account) /\ journal \in Seq(Entry)
    BY DEF TypeOK, RepoTypeOK
  <2>2. IsFiniteSet(A) /\ IsFiniteSet(DOMAIN journal) /\ \A a \in A : accounts[a] \in Account
    BY <2>1, SeqDomain
  <2> QED
    BY <2>2 DEF Account
<1>2. H \in SUBSET A /\ O \in SUBSET A /\ IsFiniteSet(H) /\ IsFiniteSet(O)
  <2>1. H \in SUBSET A /\ O \in SUBSET A
    BY DEF AccountsOf
  <2> QED
    BY <1>1, <2>1, FS_Subset
<1>3. \A a \in A : /\ has[a] \in Int /\ owes[a] \in Int /\ row[a] = has[a] + owes[a]
                   /\ a \notin H => has[a] = 0
                   /\ a \notin O => owes[a] = 0
  BY <1>1, NetsCancel DEF AccountsOf
<1>4. \A a \in H : hasOf[a] = has[a]
  BY <1>1, BalanceIs DEF AccountsOf
<1>5. \A a \in O : owesOf[a] = -owes[a]
  BY <1>1, BalanceIs DEF AccountsOf
<1>6. Total(row, A) = 0
  BY NetsCancel
<1>7. SumOver(H, GetBalance) = Total(hasOf, H) /\ SumOver(O, GetBalance) = Total(owesOf, O)
  BY <1>2, BalancesAre
<1> HIDE DEF row, has, owes, hasOf, owesOf, H, O
<1>8. Total(row, A) = Total(has, A) + Total(owes, A)
  BY <1>1, <1>3, TotalPlus
<1>9. Total(has, A) = Total(has, H) /\ Total(owes, A) = Total(owes, O)
  BY <1>1, <1>2, <1>3, TotalPart
<1>10. Total(hasOf, H) = Total(has, H)
  BY <1>2, <1>3, <1>4, TotalSame
<1>11. Total(owesOf, O) = -Total(owes, O)
  BY <1>2, <1>3, <1>5, TotalMinus
<1>12. Total(has, H) \in Int /\ Total(owes, O) \in Int
  BY <1>2, <1>3, TotalType
<1>13. SumOver(H, GetBalance) = SumOver(O, GetBalance)
  BY <1>6, <1>7, <1>8, <1>9, <1>10, <1>11, <1>12
<1> QED
  BY <1>13 DEF TrialBalance, H, O
-----------------------------------------------------------------------------
(* Pairs, reversals and one entry more. *)

\* A debit and a credit of the same amount, in either order.
Pair(ps, p, q, n) == p \in Nat /\ q \in Nat /\ n \in Int /\
    (ps = <<Debit(p, n), Credit(q, n)>> \/ ps = <<Credit(q, n), Debit(p, n)>>)

\* Both sides of such a pair are its amount.
LEMMA PairSides ==
    ASSUME NEW ps, NEW p, NEW q, NEW n, Pair(ps, p, q, n)
    PROVE  SideTotal(ps, "DR") = n /\ SideTotal(ps, "CR") = n
<1> DEFINE dr == [i \in DOMAIN ps |-> IF ps[i].direction = "DR" THEN ps[i].amount ELSE 0]
           cr == [i \in DOMAIN ps |-> IF ps[i].direction = "CR" THEN ps[i].amount ELSE 0]
<1>1. DOMAIN ps = 1..2 /\ IsFiniteSet(1..2)
  BY TwoFinite DEF Pair
<1>2. /\ dr[1] \in Int /\ dr[2] \in Int /\ dr[1] + dr[2] = n
      /\ cr[1] \in Int /\ cr[2] \in Int /\ cr[1] + cr[2] = n
  <2>1. 1 \in DOMAIN ps /\ 2 \in DOMAIN ps /\ n \in Int
    BY <1>1 DEF Pair
  <2>2. CASE ps = <<Debit(p, n), Credit(q, n)>>
    <3>1. /\ ps[1].direction = "DR" /\ ps[1].amount = n
          /\ ps[2].direction = "CR" /\ ps[2].amount = n
      BY <2>2 DEF Debit, Credit
    <3> QED
      BY <2>1, <3>1
  <2>3. CASE ps = <<Credit(q, n), Debit(p, n)>>
    <3>1. /\ ps[1].direction = "CR" /\ ps[1].amount = n
          /\ ps[2].direction = "DR" /\ ps[2].amount = n
      BY <2>3 DEF Debit, Credit
    <3> QED
      BY <2>1, <3>1
  <2> QED
    BY <2>2, <2>3 DEF Pair
<1>3. SideTotal(ps, "DR") = Total(dr, DOMAIN ps) /\ SideTotal(ps, "CR") = Total(cr, DOMAIN ps)
  BY <1>1, SideIs
<1> HIDE DEF dr, cr
<1>4. Total(dr, 1..2) = n /\ Total(cr, 1..2) = n
  BY <1>2, TotalTwo
<1> QED
  BY <1>1, <1>3, <1>4

\* What such a pair takes from the credited account.
LEMMA PairNet ==
    ASSUME NEW ps, NEW p, NEW q, NEW n, Pair(ps, p, q, n)
    PROVE  NetDebit(ps, q) = IF p = q THEN 0 ELSE -n
<1> DEFINE f == [i \in DOMAIN ps |-> IF ps[i].account # q THEN 0
                                     ELSE IF ps[i].direction = "DR" THEN ps[i].amount
                                     ELSE -ps[i].amount]
<1>1. DOMAIN ps = 1..2 /\ IsFiniteSet(1..2)
  BY TwoFinite DEF Pair
<1>2. f[1] \in Int /\ f[2] \in Int /\ f[1] + f[2] = IF p = q THEN 0 ELSE -n
  <2>1. 1 \in DOMAIN ps /\ 2 \in DOMAIN ps /\ n \in Int
    BY <1>1 DEF Pair
  <2>2. CASE ps = <<Debit(p, n), Credit(q, n)>>
    <3>1. /\ ps[1].account = p /\ ps[1].direction = "DR" /\ ps[1].amount = n
          /\ ps[2].account = q /\ ps[2].direction = "CR" /\ ps[2].amount = n
      BY <2>2 DEF Debit, Credit
    <3> QED
      BY <2>1, <3>1
  <2>3. CASE ps = <<Credit(q, n), Debit(p, n)>>
    <3>1. /\ ps[1].account = q /\ ps[1].direction = "CR" /\ ps[1].amount = n
          /\ ps[2].account = p /\ ps[2].direction = "DR" /\ ps[2].amount = n
      BY <2>3 DEF Debit, Credit
    <3> QED
      BY <2>1, <3>1
  <2> QED
    BY <2>2, <2>3 DEF Pair
<1>3. NetDebit(ps, q) = Total(f, DOMAIN ps)
  BY <1>1, NetIs
<1> HIDE DEF f
<1>4. Total(f, 1..2) = f[1] + f[2]
  BY <1>2, TotalTwo
<1> QED
  BY <1>1, <1>2, <1>3, <1>4

\* Swapping the directions takes back what the postings did.
LEMMA SwapNet ==
    ASSUME NEW ps \in Seq(Posting), NEW a
    PROVE  NetDebit(Swapped(ps), a) = -NetDebit(ps, a)
<1> DEFINE S == DOMAIN ps
           sw == Swapped(ps)
           f == [i \in S |-> IF ps[i].account # a THEN 0
                             ELSE IF ps[i].direction = "DR" THEN ps[i].amount ELSE -ps[i].amount]
           g == [i \in DOMAIN sw |-> IF sw[i].account # a THEN 0
                                     ELSE IF sw[i].direction = "DR" THEN sw[i].amount
                                     ELSE -sw[i].amount]
<1>1. IsFiniteSet(S) /\ \A i \in S : ps[i] \in Posting
  BY SeqDomain
<1>2. DOMAIN sw = S
  BY DEF Swapped
<1>3. ASSUME NEW i \in S PROVE f[i] \in Int /\ g[i] = -f[i]
  <2>1. sw[i] = [ps[i] EXCEPT !.direction = IF @ = "DR" THEN "CR" ELSE "DR"]
    BY DEF Swapped
  <2>2. ps[i] = [account |-> ps[i].account, amount |-> ps[i].amount, direction |-> ps[i].direction]
        /\ ps[i].amount \in Int /\ ps[i].direction \in {"DR", "CR"}
    BY <1>1 DEF Posting
  <2>3. /\ sw[i].account = ps[i].account /\ sw[i].amount = ps[i].amount
        /\ sw[i].direction = IF ps[i].direction = "DR" THEN "CR" ELSE "DR"
    BY <2>1, <2>2
  <2> HIDE DEF sw
  <2> QED
    BY <1>2, <2>2, <2>3
<1>4. NetDebit(ps, a) = Total(f, S) /\ NetDebit(sw, a) = Total(g, DOMAIN sw)
  BY <1>1, <1>2, NetIs
<1> HIDE DEF f, g, sw
<1>5. Total(g, S) = -Total(f, S)
  BY <1>1, <1>3, TotalMinus
<1> QED
  BY <1>2, <1>4, <1>5 DEF sw

\* One entry more changes every account by what the entry adds to it.
LEMMA NetAppend ==
    ASSUME NEW jnl \in Seq(Entry), NEW e \in Entry, NEW a
    PROVE  /\ NetIn(Append(jnl, e), a) = NetIn(jnl, a) + NetDebit(e.postings, a)
           /\ NetIn(jnl, a) \in Int
<1> DEFINE all == Append(jnl, e)
           J == DOMAIN jnl
           K == DOMAIN all
           k == Len(jnl) + 1
           f == [n \in J |-> NetDebit(jnl[n].postings, a)]
           g == [n \in K |-> NetDebit(all[n].postings, a)]
<1>1. /\ all \in Seq(Entry) /\ IsFiniteSet(K) /\ IsFiniteSet(J)
      /\ J \in SUBSET K /\ k \in K \ J /\ K = J \cup {k}
      /\ all[k] = e /\ \A n \in J : all[n] = jnl[n]
  <2>1. all \in Seq(Entry)
    OBVIOUS
  <2>2. /\ J = 1..Len(jnl) /\ K = 1..(Len(jnl) + 1) /\ Len(jnl) \in Nat
        /\ all[k] = e /\ \A n \in J : all[n] = jnl[n]
    OBVIOUS
  <2> HIDE DEF all
  <2>3. IsFiniteSet(K) /\ IsFiniteSet(J)
    BY <2>1, SeqDomain
  <2> QED
    BY <2>1, <2>2, <2>3
<1>2. \A n \in K : all[n].postings \in Seq(Posting)
  <2> HIDE DEF all
  <2>1. \A n \in K : all[n] \in Entry
    BY <1>1, SeqDomain
  <2> QED
    BY <2>1 DEF Entry
<1>3. \A n \in K : g[n] \in Int
  <2> HIDE DEF all
  <2> QED
    BY <1>2, NetType
<1>4. \A n \in J : g[n] = f[n] /\ g[n] \in Int
  <2>1. \A n \in J : all[n].postings = jnl[n].postings
    BY <1>1
  <2> HIDE DEF all
  <2> QED
    BY <1>1, <1>3, <2>1
<1>5. g[k] = NetDebit(e.postings, a)
  BY <1>1
<1>6. NetIn(all, a) = Total(g, K) /\ NetIn(jnl, a) = Total(f, J)
  BY DEF NetIn
<1> HIDE DEF f, g, all, k
<1>7. Total(g, J \cup {k}) = Total(g, J) + g[k]
  BY <1>1, <1>3, TotalInsert
<1>8. Total(g, J) = Total(f, J) /\ Total(g, J) \in Int
  BY <1>1, <1>4, TotalSame, TotalType
<1>9. Total(g, K) = Total(g, J \cup {k})
  BY <1>1, Zenon
<1> QED
  BY <1>5, <1>6, <1>7, <1>8, <1>9 DEF all
-----------------------------------------------------------------------------
(* Every entry of the journal is sound. *)

\* A reversal carries the postings of an earlier entry, with their directions swapped.
Undoes(e) ==
    e.ref[1] = "reversal" =>
        /\ e.ref[2] \in DOMAIN journal
        /\ e.postings = Swapped(journal[e.ref[2]].postings)

\* What every entry of the journal satisfies.
Entered == \A n \in DOMAIN journal : Sound(journal[n]) /\ Undoes(journal[n])

\* Accounts are only added.
LEMMA AccountsGrow ==
    ASSUME TypeOK, [Next]_vars
    PROVE  /\ DOMAIN accounts \subseteq DOMAIN accounts'
           /\ \A a \in DOMAIN accounts : accounts'[a] = accounts[a]
<1>1. accounts \in Seq(Account)
  BY DEF TypeOK, RepoTypeOK
<1>2. ASSUME NEW o, NEW i, CreateAccount(o, i, accounts')
      PROVE  accounts' = accounts \/ accounts' = Append(accounts, [owner |-> o, type |-> TypeOfOwner(o)])
  BY <1>2 DEF CreateAccount
<1>3. accounts' = accounts \/ \E row : accounts' = Append(accounts, row)
  <2>1. ASSUME NEW c \in Calls, CreateOwn(c) \/ CreateOther(c)
        PROVE  accounts' = accounts \/ \E row : accounts' = Append(accounts, row)
    BY <1>2, <2>1 DEF CreateOwn, CreateOther
  <2>2. ASSUME NEW c \in Calls, Step(c), ~(CreateOwn(c) \/ CreateOther(c))
        PROVE  accounts' = accounts
    BY <2>2 DEF Step, CheckIdempotency, FindOwn, CheckFunds, FindOther, Post, Recover, Reply,
                LookupFails
  <2>3. ASSUME NEW c \in Calls, NEW r \in Requests, Begin(c, r)
        PROVE  accounts' = accounts
    BY <2>3 DEF Begin
  <2>4. (\E c \in Calls : Stop(c)) \/ UNCHANGED vars => accounts' = accounts
    BY DEF Stop, vars
  <2> QED
    BY <2>1, <2>2, <2>3, <2>4 DEF Next
<1>4. CASE accounts' = accounts
  BY <1>4
<1>5. ASSUME NEW row, accounts' = Append(accounts, row)
      PROVE  /\ DOMAIN accounts \subseteq DOMAIN accounts'
             /\ \A a \in DOMAIN accounts : accounts'[a] = accounts[a]
  <2>1. DOMAIN accounts = 1..Len(accounts) /\ Len(accounts) \in Nat
    BY <1>1
  <2>2. /\ DOMAIN accounts' = 1..(Len(accounts) + 1)
        /\ \A a \in 1..Len(accounts) : accounts'[a] = accounts[a]
    BY <1>1, <1>5
  <2> QED
    BY <2>1, <2>2
<1> QED
  BY <1>3, <1>4, <1>5

\* The step of a call that posts.
Posts(c) ==
    /\ Post(c)
    /\ PostResult(EntryOf(c), journal) = "posted"
    /\ journal' = Append(journal, EntryOf(c))

\* Only a post changes the journal.
LEMMA PostStep ==
    ASSUME [Next]_vars
    PROVE  journal' = journal \/ \E c \in Calls : Posts(c)
<1>1. ASSUME NEW c \in Calls, Post(c)
      PROVE  journal' = journal \/ Posts(c)
  BY <1>1, PostedCases DEF Post, Posts
<1>2. ASSUME NEW c \in Calls, Step(c), ~Post(c)
      PROVE  journal' = journal
  BY <1>2 DEF Step, CheckIdempotency, FindOwn, CreateOwn, CheckFunds, FindOther, CreateOther,
              Recover, Reply, LookupFails
<1>3. ASSUME NEW c \in Calls, NEW r \in Requests, Begin(c, r)
      PROVE  journal' = journal
  BY <1>3 DEF Begin
<1>4. (\E c \in Calls : Stop(c)) \/ UNCHANGED vars => journal' = journal
  BY DEF Stop, vars
<1> QED
  BY <1>1, <1>2, <1>3, <1>4 DEF Next

\* The demonstration data satisfies it.
LEMMA InitEntered == Init => Entered
<1> SUFFICES ASSUME Init PROVE Entered
  OBVIOUS
<1>1. CASE Backend = "memory"
  <2>1. DOMAIN accounts = 1..4
    BY <1>1 DEF Init, RepoInit, SeedAccounts
  <2>2. /\ DOMAIN journal = 1..4
        /\ journal[1] = SeedEntry(1, "momo_cash_in", 1, 3, 5)
        /\ journal[2] = SeedEntry(2, "momo_cash_in", 2, 3, 6)
        /\ journal[3] = SeedEntry(3, "p2p_transfer", 1, 2, 6)
        /\ journal[4] = SeedEntry(4, "marketplace_escrow", 4, 1, 2)
    <3> DEFINE e1 == SeedEntry(1, "momo_cash_in", 1, 3, 5)
               e2 == SeedEntry(2, "momo_cash_in", 2, 3, 6)
               e3 == SeedEntry(3, "p2p_transfer", 1, 2, 6)
               e4 == SeedEntry(4, "marketplace_escrow", 4, 1, 2)
    <3>1. journal = <<e1, e2, e3, e4>>
      BY <1>1 DEF Init, RepoInit, SeedJournal
    <3> HIDE DEF e1, e2, e3, e4
    <3>2. DOMAIN journal = 1..4 /\ journal[1] = e1 /\ journal[2] = e2 /\ journal[3] = e3 /\ journal[4] = e4
      BY <3>1
    <3> QED
      BY <3>2 DEF e1, e2, e3, e4
  <2>3. ASSUME NEW n, NEW kind, NEW debit \in 1..4, NEW credit \in 1..4, NEW amount \in Int,
               NEW e, e = SeedEntry(n, kind, debit, credit, amount)
        PROVE  Sound(e) /\ Undoes(e)
    <3>1. e.ref = <<"seed", n>> /\ e.postings = <<Debit(debit, amount), Credit(credit, amount)>>
      BY <2>3 DEF SeedEntry
    <3>2. Pair(e.postings, debit, credit, amount)
      BY <3>1 DEF Pair
    <3>3. SideTotal(e.postings, "DR") = SideTotal(e.postings, "CR")
      BY <3>2, PairSides
    <3>4. \A i \in DOMAIN e.postings : e.postings[i].account \in DOMAIN accounts
      <4>1. DOMAIN e.postings = 1..2 /\ e.postings[1].account = debit /\ e.postings[2].account = credit
        BY <3>1 DEF Debit, Credit
      <4>2. \A i \in DOMAIN e.postings : i = 1 \/ i = 2
        BY <4>1
      <4> QED
        BY <2>1, <4>1, <4>2
    <3> QED
      BY <3>1, <3>3, <3>4 DEF Sound, Undoes
  <2>4. \A n \in 1..4 : n = 1 \/ n = 2 \/ n = 3 \/ n = 4
    OBVIOUS
  <2>5. \A n \in DOMAIN journal : Sound(journal[n]) /\ Undoes(journal[n])
    <3>1. 1 \in 1..4 /\ 2 \in 1..4 /\ 3 \in 1..4 /\ 4 \in 1..4 /\ 5 \in Int /\ 6 \in Int /\ 2 \in Int
      OBVIOUS
    <3>2. /\ Sound(journal[1]) /\ Undoes(journal[1]) /\ Sound(journal[2]) /\ Undoes(journal[2])
          /\ Sound(journal[3]) /\ Undoes(journal[3]) /\ Sound(journal[4]) /\ Undoes(journal[4])
      BY <2>2, <2>3, <3>1
    <3> QED
      BY <2>2, <2>4, <3>2
  <2> QED
    BY <2>5 DEF Entered
<1>2. CASE Backend # "memory"
  <2>1. journal = <<>>
    BY <1>2 DEF Init, RepoInit, SeedJournal
  <2> QED
    BY <2>1 DEF Entered
<1> QED
  BY <1>1, <1>2

\* Every step keeps it: PostJournalEntry refuses what is not balanced.
LEMMA EnteredStep ==
    ASSUME IInv, Entered, [Next]_vars
    PROVE  Entered'
<1>1. /\ DOMAIN journal \subseteq DOMAIN journal'
      /\ \A n \in DOMAIN journal : journal'[n] = journal[n]
  BY JournalStep DEF IInv
<1>2. ASSUME NEW e, Sound(e), Undoes(e)
      PROVE  Sound(e)' /\ Undoes(e)'
  BY <1>1, <1>2, AccountsGrow DEF IInv, Sound, Undoes
<1>3. CASE journal' = journal
  BY <1>2, <1>3 DEF Entered
<1>4. ASSUME NEW c \in Calls, Posts(c)
      PROVE  Entered'
  <2> DEFINE e == EntryOf(c)
             k == Len(journal) + 1
  <2>1. /\ DOMAIN journal' = DOMAIN journal \cup {k}
        /\ journal'[k] = e
    <3>1. journal \in Seq(Entry) /\ journal' = Append(journal, e)
      BY <1>4 DEF IInv, TypeOK, RepoTypeOK, Posts
    <3> HIDE DEF e
    <3> QED
      BY <3>1
  <2>2. Sound(e)
    BY <1>4 DEF Posts, PostResult, WellFormed, Sound
  <2>3. Undoes(e)
    <3>1. e.ref = RefOf(req[c]) /\ e.postings = PostingsOf(c)
      BY DEF EntryOf
    <3>2. e.ref[1] = "reversal" => req[c].op = "reverse" /\ e.ref[2] = req[c].entry
      BY <3>1 DEF RefOf, NoRef
    <3>3. pc[c] = "post" /\ (req[c].op = "reverse" => req[c].entry \in DOMAIN journal)
      BY <1>4 DEF Posts, Post, IInv, Phases, PhaseOf
    <3>4. req[c].op = "reverse" => e.postings = Swapped(journal[req[c].entry].postings)
      BY <3>1 DEF PostingsOf, Spending
    <3> QED
      BY <3>2, <3>3, <3>4 DEF Undoes
  <2> HIDE DEF e, k
  <2>4. ASSUME NEW n \in DOMAIN journal'
        PROVE  (Sound(journal[n]) /\ Undoes(journal[n]))'
    BY <1>1, <1>2, <2>1, <2>2, <2>3 DEF Entered
  <2> QED
    BY <2>4 DEF Entered
<1> QED
  BY <1>3, <1>4, PostStep

\* So it always holds.
LEMMA AlwaysEntered == Spec => [](IInv /\ Entered)
<1> QED
  BY Inductive, InitEntered, EnteredStep, PTL DEF Spec

\* The wallets together hold what the pools owe, for any requests, raw entries
\* and races, on either repository.
THEOREM MoneyConserved == Spec => []TrialBalance
<1>1. IInv /\ Entered => TrialBalance
  BY MoneyKept DEF IInv, Entered
<1> QED
  BY AlwaysEntered, <1>1, PTL

\* Every reversal undoes its original on every account.
THEOREM Reversals == Spec => []ReversalCancels
<1>1. IInv /\ Entered => ReversalCancels
  <2> SUFFICES ASSUME IInv, Entered, NEW n \in DOMAIN journal, journal[n].ref[1] = "reversal",
                      NEW a \in DOMAIN accounts
               PROVE  NetDebit(journal[n].postings, a) = -NetDebit(journal[journal[n].ref[2]].postings, a)
    BY DEF ReversalCancels
  <2>1. /\ journal[n].ref[2] \in DOMAIN journal
        /\ journal[n].postings = Swapped(journal[journal[n].ref[2]].postings)
    BY DEF Entered, Undoes
  <2>2. journal[journal[n].ref[2]].postings \in Seq(Posting)
    BY <2>1, JournalEntryType DEF IInv
  <2> QED
    BY <2>1, <2>2, SwapNet
<1> QED
  BY AlwaysEntered, <1>1, PTL
-----------------------------------------------------------------------------
(* The amount of a payment. *)

Paying == Spending \cup {"cash_in"}

\* On Postgres no call looks its key up again, and what a payment holds moved its amount.
AmountHeld(c) ==
    /\ pc[c] # "recover"
    /\ receipt[c] # NoEntry /\ req[c].op \in Paying => TotalDebit(receipt[c]) = req[c].amount

AmountsHeld == \A c \in Calls : AmountHeld(c)

\* Every step on Postgres keeps it.
LEMMA AmountStep ==
    ASSUME IInv, AmountsHeld, Backend = "postgres", [Next]_vars
    PROVE  AmountsHeld'
<1> USE DEF NoEntry
<1> SUFFICES ASSUME NEW d \in Calls PROVE AmountHeld(d)'
  BY DEF AmountsHeld
<1>0. /\ TypeOK /\ PhaseOf(d) /\ AmountHeld(d)
      /\ \A n \in DOMAIN journal : journal'[n] = journal[n]
      /\ receipt[d] # 0 => receipt[d] \in DOMAIN journal
  BY JournalStep DEF IInv, Phases, AmountsHeld, ReceiptIsPosted
<1>1. ASSUME pc'[d] # "recover", receipt'[d] = receipt[d],
             req'[d] = req[d] \/ receipt[d] = 0
      PROVE  AmountHeld(d)'
  BY <1>0, <1>1 DEF AmountHeld, TotalDebit
<1>2. ASSUME pc'[d] # "recover", receipt'[d] = 0
      PROVE  AmountHeld(d)'
  BY <1>2 DEF AmountHeld
<1>3. ASSUME NEW c \in Calls, NEW r \in Requests, Begin(c, r)
      PROVE  AmountHeld(d)'
  BY <1>0, <1>1, <1>3 DEF Begin, Goto, Answer, PhaseOf, AmountHeld, TypeOK, FirstLabel
<1>4. ASSUME NEW c \in Calls, CheckIdempotency(c)
      PROVE  AmountHeld(d)'
  <2>1. CASE c # d
    BY <1>0, <1>1, <1>4, <2>1 DEF CheckIdempotency, AfterCheck, Goto, Answer, AmountHeld, TypeOK
  <2>2. CASE c = d /\ EntriesOf(RefOf(req[c]), journal) = {}
    BY <1>0, <1>1, <1>4, <2>2 DEF CheckIdempotency, AfterCheck, Goto, TypeOK
  <2>3. ASSUME c = d, NEW n \in EntriesOf(RefOf(req[c]), journal),
               IF req[c].op # "reverse" /\ TotalDebit(n) # req[c].amount
               THEN Answer(c, "conflict", NoEntry) ELSE Answer(c, "ok", n)
        PROVE  AmountHeld(d)'
    <3>1. journal' = journal /\ req' = req
      BY <1>4 DEF CheckIdempotency
    <3>2. pc'[d] = "done"
      BY <1>0, <2>3 DEF Answer, Goto, TypeOK
    <3>3. CASE req[c].op # "reverse" /\ TotalDebit(n) # req[c].amount
      BY <1>0, <1>2, <2>3, <3>2, <3>3 DEF Answer, TypeOK
    <3>4. CASE ~(req[c].op # "reverse" /\ TotalDebit(n) # req[c].amount)
      <4>1. receipt'[d] = n
        BY <1>0, <2>3, <3>4 DEF Answer, TypeOK
      <4> QED
        BY <2>3, <3>1, <3>2, <3>4, <4>1 DEF AmountHeld, TotalDebit, Paying, Spending
    <3> QED
      BY <3>3, <3>4
  <2> QED
    BY <1>4, <2>1, <2>2, <2>3 DEF CheckIdempotency
<1>5. ASSUME NEW c \in Calls, FindOwn(c)
      PROVE  AmountHeld(d)'
  BY <1>0, <1>1, <1>2, <1>5 DEF FindOwn, OwnFound, Goto, Answer, AmountHeld, TypeOK
<1>6. ASSUME NEW c \in Calls, CreateOwn(c)
      PROVE  AmountHeld(d)'
  BY <1>0, <1>1, <1>2, <1>6 DEF CreateOwn, OwnFound, Goto, Answer, AmountHeld, TypeOK
<1>7. ASSUME NEW c \in Calls, CheckFunds(c)
      PROVE  AmountHeld(d)'
  BY <1>0, <1>1, <1>2, <1>7 DEF CheckFunds, Goto, Answer, AmountHeld, TypeOK
<1>8. ASSUME NEW c \in Calls, FindOther(c)
      PROVE  AmountHeld(d)'
  BY <1>0, <1>1, <1>8 DEF FindOther, Goto, AmountHeld, TypeOK
<1>9. ASSUME NEW c \in Calls, CreateOther(c)
      PROVE  AmountHeld(d)'
  BY <1>0, <1>1, <1>2, <1>9 DEF CreateOther, Goto, Answer, AmountHeld, TypeOK
<1>10. ASSUME NEW c \in Calls, Post(c)
       PROVE  AmountHeld(d)'
  <2>1. CASE PostResult(EntryOf(c), journal) = "posted" /\ c = d
    <3> DEFINE e == EntryOf(c)
    <3>1. journal' = Append(journal, e) /\ journal \in Seq(Entry)
      BY <1>0, <1>10, <2>1, PostedCases DEF Post, TypeOK, RepoTypeOK
    <3>2. journal'[Len(journal) + 1] = e
      <4> HIDE DEF e
      <4> QED
        BY <3>1
    <3>3. pc'[d] = "reply" /\ receipt'[d] = Len(journal) + 1 /\ req' = req
      BY <1>0, <1>10, <2>1 DEF Post, Goto, TypeOK
    <3>4. ASSUME req[c].op \in Paying PROVE SideTotal(e.postings, "DR") = req[c].amount
      <4>1. e.postings = IF req[c].op \in Spending
                         THEN <<Credit(own[c], req[c].amount), Debit(other[c], req[c].amount)>>
                         ELSE <<Debit(own[c], req[c].amount), Credit(other[c], req[c].amount)>>
        BY <3>4 DEF EntryOf, PostingsOf, Paying, Spending
      <4>2. own[c] \in Nat /\ other[c] \in Nat /\ req[c].amount \in Int
        BY <1>0 DEF TypeOK, RequestType
      <4>3. \E p, q : Pair(e.postings, p, q, req[c].amount)
        BY <4>1, <4>2, Zenon DEF Pair
      <4> QED
        BY <4>3, PairSides
    <3> HIDE DEF e
    <3> QED
      BY <2>1, <3>2, <3>3, <3>4 DEF AmountHeld, TotalDebit
  <2>2. CASE PostResult(EntryOf(c), journal) = "posted" /\ c # d
    BY <1>0, <1>1, <1>10, <2>2 DEF Post, Goto, AmountHeld, TypeOK
  <2>3. CASE PostResult(EntryOf(c), journal) # "posted"
    BY <1>0, <1>1, <1>2, <1>10, <2>3 DEF Post, Goto, Answer, AmountHeld, TypeOK
  <2> QED
    BY <2>1, <2>2, <2>3
<1>11. ASSUME NEW c \in Calls, Recover(c)
       PROVE  AmountHeld(d)'
  <2>1. pc[c] # "recover"
    BY DEF AmountsHeld, AmountHeld
  <2> QED
    BY <1>11, <2>1 DEF Recover
<1>12. ASSUME NEW c \in Calls, Reply(c)
       PROVE  AmountHeld(d)'
  BY <1>0, <1>1, <1>12 DEF Reply, Goto, Answer, AmountHeld, TypeOK
<1>13. ASSUME NEW c \in Calls, Stop(c)
       PROVE  AmountHeld(d)'
  BY <1>0, <1>1, <1>13 DEF Stop, Goto, AmountHeld, TypeOK
<1>14. ASSUME NEW c \in Calls, LookupFails(c)
       PROVE  AmountHeld(d)'
  BY <1>0, <1>1, <1>14 DEF LookupFails, AfterCheck, Goto, AmountHeld, TypeOK
<1>15. CASE UNCHANGED vars
  BY <1>0, <1>1, <1>15 DEF vars, AmountHeld
<1> QED
  BY <1>3, <1>4, <1>5, <1>6, <1>7, <1>8, <1>9, <1>10, <1>11, <1>12, <1>13, <1>14, <1>15 DEF Next, Step

\* On Postgres a payment that is told "ok" moved the amount it asked for, whoever
\* posted first under its key.
THEOREM AmountsPaid == Backend = "postgres" /\ Spec => []ReceiptAmount
<1> SUFFICES ASSUME Backend = "postgres" PROVE Spec => []ReceiptAmount
  OBVIOUS
<1>1. Init => AmountsHeld
  BY DEF Init, AmountsHeld, AmountHeld, NoEntry
<1>2. IInv /\ AmountsHeld /\ [Next]_vars => AmountsHeld'
  BY AmountStep
<1>3. IInv /\ AmountsHeld => ReceiptAmount
  BY DEF IInv, ReceiptIsPosted, AmountsHeld, AmountHeld, ReceiptAmount, Paying
<1> QED
  BY Inductive, <1>1, <1>2, <1>3, PTL DEF Spec
-----------------------------------------------------------------------------
(* The funds check. *)

\* Balances are integers.
LEMMA BalanceType ==
    ASSUME TypeOK, NEW a
    PROVE  /\ GetBalance(a) \in Int /\ NetIn(journal, a) \in Int
           /\ IsFiniteSet(DOMAIN journal)
<1>1. journal \in Seq(Entry)
  BY DEF TypeOK, RepoTypeOK
<1>2. IsFiniteSet(DOMAIN journal)
  BY <1>1, SeqDomain
<1>3. NetIn(journal, a) \in Int
  <2> DEFINE f == [n \in DOMAIN journal |-> NetDebit(journal[n].postings, a)]
  <2>1. \A n \in DOMAIN journal : f[n] \in Int
    BY JournalEntryType, NetType
  <2>2. NetIn(journal, a) = Total(f, DOMAIN journal)
    BY DEF NetIn
  <2> HIDE DEF f
  <2> QED
    BY <1>2, <2>1, <2>2, TotalType
<1> QED
  BY <1>2, <1>3, BalanceIs

\* A spend that passed the check has read a balance that covers it.
FundsSeen(c) ==
    pc[c] \in {"find_other", "create_other", "post"} /\ req[c].op \in Spending
        => seen[c] \in Int /\ req[c].amount <= seen[c]

AllFundsSeen == \A c \in Calls : FundsSeen(c)

\* Only the check itself lets a spend go on.
LEMMA FundsStep ==
    ASSUME TypeOK, AllFundsSeen, [Next]_vars
    PROVE  AllFundsSeen'
<1> SUFFICES ASSUME NEW d \in Calls PROVE FundsSeen(d)'
  BY DEF AllFundsSeen
<1>0. FundsSeen(d) /\ pc \in [Calls -> Labels] /\ req \in [Calls -> RequestType] /\ DOMAIN seen = Calls
  BY DEF AllFundsSeen, TypeOK
<1>1. ASSUME req'[d] = req[d], seen'[d] = seen[d],
             pc'[d] \in {"find_other", "create_other", "post"} /\ req[d].op \in Spending
                 => pc[d] \in {"find_other", "create_other", "post"}
      PROVE  FundsSeen(d)'
  BY <1>0, <1>1 DEF FundsSeen
<1>3. ASSUME NEW c \in Calls, NEW r \in Requests, Begin(c, r)
      PROVE  FundsSeen(d)'
  BY <1>0, <1>1, <1>3 DEF Begin, Goto, Answer, FirstLabel, FundsSeen, Spending
<1>4. ASSUME NEW c \in Calls, CheckIdempotency(c)
      PROVE  FundsSeen(d)'
  BY <1>0, <1>1, <1>4 DEF CheckIdempotency, AfterCheck, Goto, Answer, Spending
<1>5. ASSUME NEW c \in Calls, FindOwn(c)
      PROVE  FundsSeen(d)'
  BY <1>0, <1>1, <1>5 DEF FindOwn, OwnFound, Goto, Answer
<1>6. ASSUME NEW c \in Calls, CreateOwn(c)
      PROVE  FundsSeen(d)'
  BY <1>0, <1>1, <1>6 DEF CreateOwn, OwnFound, Goto, Answer
<1>7. ASSUME NEW c \in Calls, CheckFunds(c)
      PROVE  FundsSeen(d)'
  <2>1. CASE c # d
    BY <1>0, <1>1, <1>7, <2>1 DEF CheckFunds, Goto, Answer
  <2>2. CASE c = d
    <3> DEFINE b == GetBalance(own[d])
    <3>1. b \in Int /\ req[d].amount \in Int
      BY <1>0, BalanceType DEF RequestType
    <3>2. seen'[d] = b /\ req' = req
      BY <1>0, <1>7, <2>2 DEF CheckFunds
    <3>3. b < req[d].amount => pc'[d] = "done"
      BY <1>0, <1>7, <2>2 DEF CheckFunds, Answer, Goto
    <3> HIDE DEF b
    <3> QED
      BY <3>1, <3>2, <3>3 DEF FundsSeen
  <2> QED
    BY <2>1, <2>2
<1>8. ASSUME NEW c \in Calls, FindOther(c)
      PROVE  FundsSeen(d)'
  BY <1>0, <1>1, <1>8 DEF FindOther, Goto
<1>9. ASSUME NEW c \in Calls, CreateOther(c)
      PROVE  FundsSeen(d)'
  BY <1>0, <1>1, <1>9 DEF CreateOther, Goto, Answer
<1>10. ASSUME NEW c \in Calls, Post(c)
       PROVE  FundsSeen(d)'
  BY <1>0, <1>1, <1>10 DEF Post, Goto, Answer
<1>11. ASSUME NEW c \in Calls, Recover(c) \/ Reply(c) \/ Stop(c)
       PROVE  FundsSeen(d)'
  BY <1>0, <1>1, <1>11 DEF Recover, Reply, Stop, Goto, Answer
<1>12. ASSUME NEW c \in Calls, LookupFails(c)
       PROVE  FundsSeen(d)'
  BY <1>0, <1>1, <1>12 DEF LookupFails, AfterCheck, Goto, Spending
<1>13. CASE UNCHANGED vars
  BY <1>1, <1>13 DEF vars
<1> QED
  BY <1>3, <1>4, <1>5, <1>6, <1>7, <1>8, <1>9, <1>10, <1>11, <1>12, <1>13 DEF Next, Step

\* A spend posted on the balance it has read takes its amount from the wallet and no more.
LEMMA SpendKeepsCover ==
    ASSUME TypeOK, TypeOK', AllFundsSeen, NEW c \in Calls, Posts(c), req[c].op \in Spending,
           seen[c] = GetBalance(own[c])
    PROVE  ~(GetBalance(own[c])' < 0 /\ GetBalance(own[c])' < GetBalance(own[c]))
<1> DEFINE o == own[c]
           n == req[c].amount
           e == EntryOf(c)
           before == NetIn(journal, o)
           after == NetIn(journal', o)
<1>1. /\ pc[c] = "post" /\ own' = own /\ accounts' = accounts
      /\ journal' = Append(journal, e) /\ WellFormed(e.postings)
  BY DEF Posts, Post, PostResult
<1>2. /\ own[c] \in Nat /\ other[c] \in Nat /\ n \in Int /\ journal \in Seq(Entry)
      /\ EntryOf(c) \in Entry
  <2>1. own[c] \in Nat /\ other[c] \in Nat /\ req[c] \in RequestType /\ journal \in Seq(Entry)
    BY DEF TypeOK, RepoTypeOK
  <2>2. req[c].op # "reverse"
    BY DEF Spending
  <2> QED
    BY <2>1, <2>2, EntryOfType DEF RequestType
<1>3. e.postings = <<Credit(own[c], n), Debit(other[c], n)>>
  BY DEF EntryOf, PostingsOf, Spending
<1>4. NetDebit(e.postings, o) = IF other[c] = o THEN 0 ELSE -n
  <2>1. Pair(e.postings, other[c], o, n)
    BY <1>2, <1>3, Zenon DEF Pair
  <2> QED
    BY <2>1, PairNet
<1>5. n > 0
  BY <1>1, <1>3 DEF WellFormed, Credit
<1>6. after = before + NetDebit(e.postings, o) /\ before \in Int
  BY <1>1, <1>2, NetAppend
<1>7. /\ GetBalance(own[c]) = IF accounts[o].type = "asset" THEN before ELSE -before
      /\ GetBalance(own[c])' = IF accounts[o].type = "asset" THEN after ELSE -after
  <2>1. IsFiniteSet(DOMAIN journal) /\ IsFiniteSet(DOMAIN journal')
    BY SeqDomain DEF TypeOK, RepoTypeOK
  <2>2. GetBalance(own[c]) = IF accounts[o].type = "asset" THEN before ELSE -before
    BY <2>1, BalanceIs
  <2>3. GetBalance(own[c])' = IF accounts'[o].type = "asset" THEN after ELSE -after
    BY <1>1, <2>1, OwnBalanceThen
  <2> QED
    BY <1>1, <2>2, <2>3
<1>8. n <= GetBalance(own[c])
  BY <1>1 DEF AllFundsSeen, FundsSeen
<1> HIDE DEF o, n, e, before, after
<1> QED
  BY <1>2, <1>4, <1>5, <1>6, <1>7, <1>8

\* A wallet is overdrawn only by a spend whose balance was read before another
\* call changed it, for any number of racing calls.
THEOREM OverdraftsAreStale == Spec => OverdraftNeedsStaleRead
<1>1. Init => AllFundsSeen
  BY DEF Init, AllFundsSeen, FundsSeen
<1>2. TypeOK /\ TypeOK' /\ AllFundsSeen /\ [Next]_vars =>
        [\A c \in Calls :
           (pc[c] = "post" /\ req[c].op \in Spending /\ journal' # journal /\ pc'[c] # "post"
              /\ GetBalance(own[c])' < 0 /\ GetBalance(own[c])' < GetBalance(own[c]))
           => seen[c] # GetBalance(own[c])]_vars
  <2> SUFFICES ASSUME TypeOK, TypeOK', AllFundsSeen, [Next]_vars, NEW c \in Calls,
                      pc[c] = "post", req[c].op \in Spending, journal' # journal, pc'[c] # "post",
                      GetBalance(own[c])' < 0, GetBalance(own[c])' < GetBalance(own[c])
               PROVE  seen[c] # GetBalance(own[c])
    OBVIOUS
  <2>1. PICK d \in Calls : Posts(d)
    BY PostStep
  <2>2. d = c
    BY <2>1 DEF Posts, Post, Goto, TypeOK
  <2> QED
    BY <2>1, <2>2, SpendKeepsCover
<1>3. TypeOK /\ AllFundsSeen /\ [Next]_vars => AllFundsSeen'
  BY FundsStep
<1> QED
  BY Typing, <1>1, <1>2, <1>3, PTL DEF Spec, OverdraftNeedsStaleRead
-----------------------------------------------------------------------------
(* The pool of mobile money on MemoryRepository. *)

\* The rows of the pools in MemoryRepository, which the demonstration data brings.
MoMoRow == 3
EscrowRow == 4

\* Mobile money goes to and from its pool, payments go from wallet to wallet.  A
\* settlement is booked between the account of a business and that pool, never on
\* the escrow, and the other raw entries, payments and refunds of the business
\* service, are between wallets and leave the pool alone.
PoolForCash ==
    \A r \in Requests :
        /\ r.op \in {"cash_in", "cash_out"} => r.to = MoMoPool
        /\ r.op \in {"transfer", "qr_pay"} => r.to \in Users
        /\ \A i \in DOMAIN r.raw :
              r.raw[i].account # IF r.op = "settle" THEN EscrowRow ELSE MoMoRow

\* The accounts of MemoryRepository.
Known ==
    /\ MoMoRow \in DOMAIN accounts /\ accounts[MoMoRow].owner = MoMoPool
    /\ EscrowRow \in DOMAIN accounts /\ accounts[EscrowRow].owner = EscrowPool
    /\ \A a \in DOMAIN accounts : accounts[a].type = TypeOfOwner(accounts[a].owner)

\* What a call has found is the account of the one it looked for.
FoundFor(c) ==
    /\ pc[c] # "idle" => req[c] \in Requests
    /\ pc[c] \in {"balance", "find_other", "create_other", "post"} /\ req[c].op \in Paying
          => own[c] \in DOMAIN accounts /\ accounts[own[c]].owner = req[c].user
    /\ pc[c] = "post" /\ req[c].op \in Paying
          => other[c] \in DOMAIN accounts /\ accounts[other[c]].owner = req[c].to

\* The kinds booked on the pool of mobile money.
Mobile == {"momo_cash_in", "momo_cash_out", "merchant_settlement"}

\* An entry of mobile money leaves the escrow alone, any other one the pool.
Apart(e) ==
    \A i \in DOMAIN e.postings :
        e.postings[i].account # IF e.kind \in Mobile THEN EscrowRow ELSE MoMoRow

Pooled ==
    /\ Known
    /\ \A c \in Calls : FoundFor(c)
    /\ \A n \in DOMAIN journal : Apart(journal[n])

\* The account that a look-up and insert returns is the owner's.
LEMMA CreatedFor ==
    ASSUME TypeOK, Backend = "memory", NEW o, NEW i, CreateAccount(o, i, accounts')
    PROVE  /\ i \in DOMAIN accounts' /\ accounts'[i].owner = o
           /\ \/ accounts' = accounts
              \/ accounts' = Append(accounts, [owner |-> o, type |-> TypeOfOwner(o)])
<1>1. accounts \in Seq(Account)
  BY DEF TypeOK, RepoTypeOK
<1>2. CASE i \in UserRows(o) /\ accounts' = accounts
  BY <1>2 DEF UserRows
<1>3. CASE i = Len(accounts) + 1 /\ accounts' = Append(accounts, [owner |-> o, type |-> TypeOfOwner(o)])
  <2>1. i \in DOMAIN accounts' /\ accounts'[i] = [owner |-> o, type |-> TypeOfOwner(o)]
    BY <1>1, <1>3
  <2> QED
    BY <1>3, <2>1
<1> QED
  BY <1>2, <1>3 DEF CreateAccount

\* No account is renamed, and every new one has the type of its owner.
LEMMA KnownStep ==
    ASSUME TypeOK, Known, Backend = "memory", [Next]_vars
    PROVE  Known'
<1>1. accounts \in Seq(Account)
  BY DEF TypeOK, RepoTypeOK
<1>2. accounts' = accounts \/ \E o : accounts' = Append(accounts, [owner |-> o, type |-> TypeOfOwner(o)])
  <2>1. ASSUME NEW c \in Calls, CreateOwn(c) \/ CreateOther(c)
        PROVE  \/ accounts' = accounts
               \/ \E o : accounts' = Append(accounts, [owner |-> o, type |-> TypeOfOwner(o)])
    BY <2>1, CreatedFor DEF CreateOwn, CreateOther
  <2>2. ASSUME NEW c \in Calls, Step(c), ~(CreateOwn(c) \/ CreateOther(c))
        PROVE  accounts' = accounts
    BY <2>2 DEF Step, CheckIdempotency, FindOwn, CheckFunds, FindOther, Post, Recover, Reply,
                LookupFails
  <2>3. ASSUME NEW c \in Calls, NEW r \in Requests, Begin(c, r)
        PROVE  accounts' = accounts
    BY <2>3 DEF Begin
  <2>4. (\E c \in Calls : Stop(c)) \/ UNCHANGED vars => accounts' = accounts
    BY DEF Stop, vars
  <2> QED
    BY <2>1, <2>2, <2>3, <2>4 DEF Next
<1>3. CASE accounts' = accounts
  BY <1>3 DEF Known
<1>4. ASSUME NEW o, accounts' = Append(accounts, [owner |-> o, type |-> TypeOfOwner(o)])
      PROVE  Known'
  <2>1. /\ \A a \in DOMAIN accounts : a \in DOMAIN accounts' /\ accounts'[a] = accounts[a]
        /\ \A a \in DOMAIN accounts' : \/ a \in DOMAIN accounts
                                       \/ accounts'[a] = [owner |-> o, type |-> TypeOfOwner(o)]
    BY <1>1, <1>4
  <2> QED
    BY <2>1 DEF Known
<1> QED
  BY <1>2, <1>3, <1>4

\* A call keeps what it has found.
LEMMA FoundStep ==
    ASSUME TypeOK, Backend = "memory", \A c \in Calls : FoundFor(c), [Next]_vars, NEW d \in Calls
    PROVE  FoundFor(d)'
<1>0. /\ pc \in [Calls -> Labels] /\ req \in [Calls -> RequestType]
      /\ own \in [Calls -> Nat] /\ other \in [Calls -> Nat]
      /\ \A a \in DOMAIN accounts : a \in DOMAIN accounts' /\ accounts'[a] = accounts[a]
      /\ FoundFor(d)
  BY AccountsGrow DEF TypeOK
<1>1. ASSUME own'[d] = own[d], other'[d] = other[d], req'[d] = req[d],
             pc[d] # "idle" \/ pc'[d] = "idle",
             \/ pc'[d] = pc[d] \/ pc'[d] \notin {"balance", "find_other", "create_other", "post"}
             \/ req[d].op \notin Paying
             \/ /\ pc[d] \in {"balance", "find_other", "create_other"}
                /\ pc'[d] \in {"balance", "find_other", "create_other"}
      PROVE  FoundFor(d)'
  BY <1>0, <1>1 DEF FoundFor
<1>2. \A o \in Users \cup {MoMoPool} : Rows(o) = UserRows(o)
  BY DEF Rows, SystemRows, UserRows
<1>3. ASSUME NEW c \in Calls, NEW r \in Requests, Begin(c, r)
      PROVE  FoundFor(d)'
  <2>1. CASE c # d
    BY <1>0, <1>1, <1>3, <2>1 DEF Begin, Goto, Answer
  <2>2. CASE c = d
    <3>1. req'[d] = r /\ (pc'[d] = "done" \/ pc'[d] = FirstLabel(r))
      BY <1>0, <1>3, <2>2 DEF Begin, Goto, Answer
    <3>2. pc'[d] \notin {"balance", "find_other", "create_other", "post"} \/ r.op \notin Paying
      BY <3>1 DEF FirstLabel, Paying, Spending
    <3> QED
      BY <3>1, <3>2 DEF FoundFor
  <2> QED
    BY <2>1, <2>2
<1>4. ASSUME NEW c \in Calls, CheckIdempotency(c)
      PROVE  FoundFor(d)'
  BY <1>0, <1>1, <1>4 DEF CheckIdempotency, AfterCheck, Goto, Answer, Paying, Spending
<1>5. ASSUME NEW c \in Calls, FindOwn(c)
      PROVE  FoundFor(d)'
  <2>1. CASE c # d
    BY <1>0, <1>1, <1>5, <2>1 DEF FindOwn, OwnFound, Goto, Answer
  <2>2. ASSUME c = d, NEW a \in UserRows(req[c].user), OwnFound(c, a)
        PROVE  FoundFor(d)'
    <3>1. own'[d] = a /\ a \in DOMAIN accounts' /\ accounts'[a].owner = req[d].user /\ req' = req
      BY <1>0, <1>5, <2>2 DEF FindOwn, OwnFound, UserRows
    <3>2. pc'[d] \in {"done", "balance", "find_other"} /\ pc[d] # "idle"
      BY <1>0, <1>5, <2>2 DEF FindOwn, OwnFound, Goto, Answer
    <3> QED
      BY <1>0, <3>1, <3>2 DEF FoundFor
  <2>3. CASE c = d /\ Goto(c, "create_own") /\ UNCHANGED <<own, outcome, receipt>>
    BY <1>0, <1>1, <1>5, <2>3 DEF FindOwn, Goto
  <2> QED
    BY <1>5, <2>1, <2>2, <2>3 DEF FindOwn
<1>6. ASSUME NEW c \in Calls, CreateOwn(c)
      PROVE  FoundFor(d)'
  <2>1. CASE c # d
    BY <1>0, <1>1, <1>6, <2>1 DEF CreateOwn, OwnFound, Goto, Answer
  <2>2. ASSUME c = d, NEW a, CreateAccount(req[c].user, a, accounts'), OwnFound(c, a)
        PROVE  FoundFor(d)'
    <3>1. own'[d] = a /\ a \in DOMAIN accounts' /\ accounts'[a].owner = req[d].user /\ req' = req
      BY <1>0, <1>6, <2>2, CreatedFor DEF CreateOwn, OwnFound
    <3>2. pc'[d] \in {"done", "balance", "find_other"} /\ pc[d] # "idle"
      BY <1>0, <1>6, <2>2 DEF CreateOwn, OwnFound, Goto, Answer
    <3> QED
      BY <1>0, <3>1, <3>2 DEF FoundFor
  <2> QED
    BY <1>6, <2>1, <2>2 DEF CreateOwn, CannotCreate
<1>7. ASSUME NEW c \in Calls, CheckFunds(c)
      PROVE  FoundFor(d)'
  BY <1>0, <1>1, <1>7 DEF CheckFunds, Goto, Answer
<1>8. ASSUME NEW c \in Calls, FindOther(c)
      PROVE  FoundFor(d)'
  <2>1. CASE c # d
    BY <1>0, <1>1, <1>8, <2>1 DEF FindOther, Goto
  <2>2. ASSUME c = d, NEW a \in Rows(req[c].to), other' = [other EXCEPT ![c] = a], Goto(c, "post")
        PROVE  FoundFor(d)'
    <3>1. req[c].to \in Users \cup {MoMoPool}
      BY <1>0 DEF RequestType
    <3>2. a \in UserRows(req[c].to)
      BY <1>2, <2>2, <3>1
    <3>3. /\ other'[d] = a /\ a \in DOMAIN accounts' /\ accounts'[a].owner = req[d].to
          /\ req' = req /\ own' = own
      BY <1>0, <1>8, <2>2, <3>2 DEF FindOther, UserRows
    <3>4. pc'[d] = "post" /\ pc[d] = "find_other"
      BY <1>0, <1>8, <2>2 DEF FindOther, Goto
    <3> QED
      BY <1>0, <3>3, <3>4 DEF FoundFor
  <2>3. CASE c = d /\ Goto(c, "create_other") /\ UNCHANGED other
    BY <1>0, <1>1, <1>8, <2>3 DEF FindOther, Goto
  <2> QED
    BY <1>8, <2>1, <2>2, <2>3 DEF FindOther
<1>9. ASSUME NEW c \in Calls, CreateOther(c)
      PROVE  FoundFor(d)'
  <2>1. CASE c # d
    BY <1>0, <1>1, <1>9, <2>1 DEF CreateOther, Goto, Answer
  <2>2. ASSUME c = d, NEW a, CreateAccount(req[c].to, a, accounts'),
               other' = [other EXCEPT ![c] = a], Goto(c, "post")
        PROVE  FoundFor(d)'
    <3>1. /\ other'[d] = a /\ a \in DOMAIN accounts' /\ accounts'[a].owner = req[d].to
          /\ req' = req /\ own' = own
      BY <1>0, <1>9, <2>2, CreatedFor DEF CreateOther
    <3>2. pc'[d] = "post" /\ pc[d] = "create_other"
      BY <1>0, <1>9, <2>2 DEF CreateOther, Goto
    <3> QED
      BY <1>0, <3>1, <3>2 DEF FoundFor
  <2> QED
    BY <1>9, <2>1, <2>2 DEF CreateOther, CannotCreate
<1>10. ASSUME NEW c \in Calls, Post(c)
       PROVE  FoundFor(d)'
  BY <1>0, <1>1, <1>10 DEF Post, Goto, Answer
<1>11. ASSUME NEW c \in Calls, Recover(c) \/ Reply(c) \/ Stop(c)
       PROVE  FoundFor(d)'
  BY <1>0, <1>1, <1>11 DEF Recover, Reply, Stop, Goto, Answer
<1>12. CASE UNCHANGED vars
  BY <1>0, <1>1, <1>12 DEF vars
<1>13. ~ \E c \in Calls : LookupFails(c)
  BY DEF LookupFails
<1> QED
  BY <1>3, <1>4, <1>5, <1>6, <1>7, <1>8, <1>9, <1>10, <1>11, <1>12, <1>13 DEF Next, Step

\* What is posted keeps the two pools apart.
LEMMA PostedApart ==
    ASSUME IInv, Pooled, PoolForCash, Backend = "memory", NEW c \in Calls, Posts(c)
    PROVE  Apart(EntryOf(c))
<1> DEFINE r == req[c]
           e == EntryOf(c)
<1> SUFFICES Apart(e)
  OBVIOUS
<1>1. /\ pc[c] = "post" /\ r \in Requests /\ r \in RequestType
      /\ r.op = "reverse" => r.entry \in DOMAIN journal
  <2>1. pc[c] = "post" /\ (r.op = "reverse" => r.entry \in DOMAIN journal)
    BY DEF Posts, Post, IInv, Phases, PhaseOf
  <2> QED
    BY <2>1, RequestAssumption DEF Pooled, FoundFor
<1>2. e.kind = KindOf(r) /\ e.postings = PostingsOf(c)
  BY DEF EntryOf
<1>3. MoMoPool \notin Users /\ EscrowPool \notin Users /\ MoMoPool # EscrowPool
  BY PoolAssumption
<1>4. r.op \in Paying => /\ accounts[own[c]].owner = r.user /\ r.user \in Users
                         /\ accounts[other[c]].owner = r.to
  BY <1>1 DEF Pooled, FoundFor, RequestType
<1>5. accounts[MoMoRow].owner = MoMoPool /\ accounts[EscrowRow].owner = EscrowPool
  BY DEF Pooled, Known
<1>6. ASSUME r.op \in Paying
      PROVE  \A i \in DOMAIN e.postings : e.postings[i].account \in {own[c], other[c]}
  <2>1. PICK p \in {own[c], other[c]}, q \in {own[c], other[c]} :
           \E n : \/ e.postings = <<Credit(p, n), Debit(q, n)>>
                  \/ e.postings = <<Debit(p, n), Credit(q, n)>>
    BY <1>2, <1>6 DEF PostingsOf, Paying, Spending
  <2> HIDE DEF e
  <2>2. \A i \in DOMAIN e.postings : e.postings[i].account \in {p, q}
    BY <2>1 DEF Credit, Debit
  <2> QED
    BY <2>2
<1>7. CASE r.op \in {"cash_in", "cash_out"}
  <2>1. e.kind \in Mobile
    BY <1>2, <1>7 DEF KindOf, StoredKind, Mobile
  <2>2. own[c] # EscrowRow /\ other[c] # EscrowRow
    BY <1>1, <1>3, <1>4, <1>5, <1>7 DEF Paying, Spending, PoolForCash
  <2> HIDE DEF e
  <2> QED
    BY <1>6, <1>7, <2>1, <2>2 DEF Apart, Paying, Spending
<1>8. CASE r.op \in {"transfer", "qr_pay"}
  <2>1. e.kind \notin Mobile
    BY <1>2, <1>8 DEF KindOf, Mobile
  <2>2. own[c] # MoMoRow /\ other[c] # MoMoRow
    BY <1>1, <1>3, <1>4, <1>5, <1>8 DEF Paying, Spending, PoolForCash
  <2> HIDE DEF e
  <2> QED
    BY <1>6, <1>8, <2>1, <2>2 DEF Apart, Paying, Spending
<1>9. CASE r.op = "reverse"
  <2>1. e.kind = journal[r.entry].kind /\ e.postings = Swapped(journal[r.entry].postings)
    BY <1>2, <1>9 DEF KindOf, PostingsOf, Spending
  <2>2. Apart(journal[r.entry]) /\ journal[r.entry].postings \in Seq(Posting)
    BY <1>1, <1>9, JournalEntryType DEF Pooled, IInv
  <2>3. \A i \in DOMAIN journal[r.entry].postings : journal[r.entry].postings[i] \in Posting
    BY <2>2, SeqDomain
  <2>4. /\ DOMAIN e.postings = DOMAIN journal[r.entry].postings
        /\ \A i \in DOMAIN e.postings : e.postings[i].account = journal[r.entry].postings[i].account
    BY <2>1, <2>3 DEF Swapped, Posting
  <2> HIDE DEF e
  <2> QED
    BY <2>1, <2>2, <2>4 DEF Apart
<1>10. CASE r.op \in {"wallet", "post_entry"}
  <2>1. e.kind \notin Mobile /\ e.postings = r.raw
    BY <1>2, <1>10 DEF KindOf, Mobile, PostingsOf, Spending
  <2> HIDE DEF e
  <2> QED
    BY <1>1, <1>10, <2>1 DEF Apart, PoolForCash
<1>11. CASE r.op = "settle"
  <2>1. e.kind \in Mobile /\ e.postings = r.raw
    BY <1>2, <1>11 DEF KindOf, StoredKind, Mobile, PostingsOf, Spending
  <2> HIDE DEF e
  <2> QED
    BY <1>1, <1>11, <2>1 DEF Apart, PoolForCash
<1> QED
  BY <1>1, <1>7, <1>8, <1>9, <1>10, <1>11 DEF RequestType, Ops

\* Every step keeps the pools apart.
LEMMA PooledStep ==
    ASSUME IInv, Pooled, PoolForCash, Backend = "memory", [Next]_vars
    PROVE  Pooled'
<1>1. Known'
  BY KnownStep DEF IInv, Pooled
<1>2. (\A c \in Calls : FoundFor(c))'
  BY FoundStep DEF IInv, Pooled
<1>3. (\A n \in DOMAIN journal : Apart(journal[n]))'
  <2>1. CASE journal' = journal
    BY <2>1 DEF Pooled, Apart, MoMoRow, EscrowRow
  <2>2. ASSUME NEW c \in Calls, Posts(c)
        PROVE  (\A n \in DOMAIN journal : Apart(journal[n]))'
    <3> DEFINE e == EntryOf(c)
    <3>1. Apart(e)
      BY <2>2, PostedApart
    <3>2. journal' = Append(journal, e) /\ journal \in Seq(Entry)
      BY <2>2 DEF Posts, IInv, TypeOK, RepoTypeOK
    <3> HIDE DEF e
    <3>3. \A n \in DOMAIN journal' : (n \in DOMAIN journal /\ journal'[n] = journal[n]) \/ journal'[n] = e
      BY <3>2
    <3>4. \A n \in DOMAIN journal' : Apart(journal'[n])
      BY <3>1, <3>3 DEF Pooled
    <3> QED
      BY <3>4 DEF Apart, MoMoRow, EscrowRow
  <2> QED
    BY <2>1, <2>2, PostStep
<1> QED
  BY <1>1, <1>2, <1>3 DEF Pooled

\* The demonstration data does.
LEMMA InitPooled == ASSUME Init, Backend = "memory" PROVE Pooled
<1>1. Known
  <2>1. accounts = <<[owner |-> DemoUser, type |-> TypeOfOwner(DemoUser)],
                     [owner |-> Amina, type |-> TypeOfOwner(Amina)],
                     [owner |-> MoMoPool, type |-> TypeOfOwner(MoMoPool)],
                     [owner |-> EscrowPool, type |-> TypeOfOwner(EscrowPool)]>>
    BY DEF Init, RepoInit, SeedAccounts
  <2>2. /\ DOMAIN accounts = 1..4
        /\ accounts[1] = [owner |-> DemoUser, type |-> TypeOfOwner(DemoUser)]
        /\ accounts[2] = [owner |-> Amina, type |-> TypeOfOwner(Amina)]
        /\ accounts[3] = [owner |-> MoMoPool, type |-> TypeOfOwner(MoMoPool)]
        /\ accounts[4] = [owner |-> EscrowPool, type |-> TypeOfOwner(EscrowPool)]
    BY <2>1
  <2>3. \A a \in DOMAIN accounts : a = 1 \/ a = 2 \/ a = 3 \/ a = 4
    BY <2>2
  <2> QED
    BY <2>2, <2>3 DEF Known, MoMoRow, EscrowRow
<1>2. \A c \in Calls : FoundFor(c)
  BY DEF Init, FoundFor
<1>3. \A n \in DOMAIN journal : Apart(journal[n])
  <2> DEFINE e1 == SeedEntry(1, "momo_cash_in", 1, 3, 5)
             e2 == SeedEntry(2, "momo_cash_in", 2, 3, 6)
             e3 == SeedEntry(3, "p2p_transfer", 1, 2, 6)
             e4 == SeedEntry(4, "marketplace_escrow", 4, 1, 2)
  <2>1. journal = <<e1, e2, e3, e4>>
    BY DEF Init, RepoInit, SeedJournal
  <2>2. ASSUME NEW n, NEW kind, NEW debit, NEW credit, NEW amount, NEW e,
               e = SeedEntry(n, kind, debit, credit, amount),
               \A a \in {debit, credit} : a # IF kind \in Mobile THEN EscrowRow ELSE MoMoRow
        PROVE  Apart(e)
    <3>1. e.kind = kind /\ e.postings = <<Debit(debit, amount), Credit(credit, amount)>>
      BY <2>2 DEF SeedEntry
    <3>2. \A i \in DOMAIN e.postings : e.postings[i].account \in {debit, credit}
      BY <3>1 DEF Debit, Credit
    <3> QED
      BY <2>2, <3>1, <3>2 DEF Apart
  <2>3. Apart(e1) /\ Apart(e2)
    BY <2>2 DEF Mobile, EscrowRow
  <2>4. Apart(e3) /\ Apart(e4)
    BY <2>2 DEF Mobile, MoMoRow
  <2> HIDE DEF e1, e2, e3, e4
  <2>5. \A n \in DOMAIN journal : journal[n] = e1 \/ journal[n] = e2 \/ journal[n] = e3 \/ journal[n] = e4
    BY <2>1
  <2> QED
    BY <2>3, <2>4, <2>5
<1> QED
  BY <1>1, <1>2, <1>3 DEF Pooled

\* The entries of mobile money.
MobileEntries == {n \in DOMAIN journal : journal[n].kind \in Mobile}

\* What the postings ps add to the wallets, and the sum over the wallets computes it.
IntoWallets(ps) ==
    Total([a \in AccountsOf("asset") |-> NetDebit(ps, a)], AccountsOf("asset"))

LEMMA WalletsSum ==
    ASSUME NEW ps, NEW A, IsFiniteSet(A)
    PROVE  (CHOOSE g : g = [s \in SUBSET A |->
                IF s = {} THEN 0 ELSE NetDebit(ps, Pick(s)) + g[s \ {Pick(s)}]])[A]
             = Total([a \in A |-> NetDebit(ps, a)], A)
<1> DEFINE f == [a \in A |-> NetDebit(ps, a)]
           Q(g) == g = [s \in SUBSET A |-> IF s = {} THEN 0 ELSE NetDebit(ps, Pick(s)) + g[s \ {Pick(s)}]]
<1>1. \A s \in SUBSET A : s # {} => f[Pick(s)] = NetDebit(ps, Pick(s))
  BY PickIn
<1> HIDE DEF f
<1>2. ASSUME NEW g PROVE Q(g) <=> IsSum(g, f, A)
  BY <1>1 DEF IsSum
<1> DEFINE G == CHOOSE g : Q(g)
<1>3. Q(G)
  BY <1>2, SumExists
<1> HIDE DEF G
<1>4. G[A] = Total(f, A)
  BY <1>2, <1>3, TotalIsSum
<1> QED
  BY <1>4 DEF G, f

\* The property, with its sums as totals.
LEMMA MobileSum ==
    ASSUME IsFiniteSet(DOMAIN journal), IsFiniteSet(DOMAIN accounts),
           \A pool \in SystemRows(MoMoPool) :
               GetBalance(pool) = Total([n \in MobileEntries |-> IntoWallets(journal[n].postings)],
                                        MobileEntries)
    PROVE  MobileMoneyReconciles
<1> DEFINE A == AccountsOf("asset")
           M == MobileEntries
           inner(n) == (CHOOSE g : g = [s \in SUBSET A |->
                           IF s = {} THEN 0
                           ELSE NetDebit(journal[n].postings, Pick(s)) + g[s \ {Pick(s)}]])[A]
           f == [n \in M |-> IntoWallets(journal[n].postings)]
           Q(g) == g = [s \in SUBSET M |-> IF s = {} THEN 0 ELSE inner(Pick(s)) + g[s \ {Pick(s)}]]
<1>1. SumOver(M, LAMBDA n : SumOver(A, LAMBDA a : NetDebit(journal[n].postings, a)))
        = (CHOOSE g : Q(g))[M]
  BY DEF SumOver, MapThenSumSet, MapThenFoldSet, Pick
<1>2. IsFiniteSet(A) /\ IsFiniteSet(M)
  <2>1. A \in SUBSET (DOMAIN accounts) /\ M \in SUBSET (DOMAIN journal)
    BY DEF AccountsOf, MobileEntries
  <2> QED
    BY <2>1, FS_Subset
<1>3. ASSUME NEW n PROVE inner(n) = IntoWallets(journal[n].postings)
  BY <1>2, WalletsSum DEF IntoWallets
<1>4. \A s \in SUBSET M : s # {} => f[Pick(s)] = inner(Pick(s))
  <2> HIDE DEF inner, M
  <2> QED
    BY <1>3, PickIn
<1> HIDE DEF inner, f, M
<1>5. ASSUME NEW g PROVE Q(g) <=> IsSum(g, f, M)
  BY <1>4 DEF IsSum
<1> DEFINE G == CHOOSE g : Q(g)
<1>6. Q(G)
  BY <1>2, <1>5, SumExists
<1> HIDE DEF G
<1>7. G[M] = Total(f, M)
  BY <1>2, <1>5, <1>6, TotalIsSum
<1>8. \A pool \in SystemRows(MoMoPool) :
        GetBalance(pool) = SumOver(M, LAMBDA n : SumOver(A, LAMBDA a : NetDebit(journal[n].postings, a)))
  BY <1>1, <1>7 DEF G, f, M
<1> QED
  BY <1>8 DEF MobileMoneyReconciles, M, MobileEntries, Mobile

\* An account that no posting names is left alone.
LEMMA NetNone ==
    ASSUME NEW ps \in Seq(Posting), NEW a, \A i \in DOMAIN ps : ps[i].account # a
    PROVE  NetDebit(ps, a) = 0
<1> DEFINE f == [i \in DOMAIN ps |-> IF ps[i].account # a THEN 0
                                     ELSE IF ps[i].direction = "DR" THEN ps[i].amount
                                     ELSE -ps[i].amount]
<1>1. IsFiniteSet(DOMAIN ps)
  BY SeqDomain
<1>2. NetDebit(ps, a) = Total(f, DOMAIN ps)
  BY <1>1, NetIs
<1>3. \A i \in DOMAIN ps : f[i] = 0
  OBVIOUS
<1> HIDE DEF f
<1> QED
  BY <1>1, <1>2, <1>3, TotalZero

\* Besides the wallets there are only the two pools.
LEMMA TwoPools ==
    ASSUME TypeOK, Known, OneAccountPerUser
    PROVE  /\ accounts[MoMoRow].type = "liability"
           /\ \A a \in DOMAIN accounts :
                a \in AccountsOf("asset") \/ a = MoMoRow \/ a = EscrowRow
<1>1. \A a \in DOMAIN accounts : accounts[a] \in Account
  BY SeqDomain DEF TypeOK, RepoTypeOK
<1>2. MoMoRow \in DOMAIN accounts /\ accounts[MoMoRow].type = "liability" /\ accounts[MoMoRow].owner \in Pools
  BY DEF Known, TypeOfOwner, Pools
<1>3. ASSUME NEW a \in DOMAIN accounts, accounts[a].type # "asset"
      PROVE  a = MoMoRow \/ a = EscrowRow
  <2>1. accounts[a].owner \in Pools
    BY <1>3 DEF Known, TypeOfOwner
  <2> QED
    BY <2>1 DEF Known, Pools, OneAccountPerUser
<1> QED
  BY <1>2, <1>3 DEF AccountsOf

\* What an entry of mobile money adds to the wallets it takes from the pool.
LEMMA MobileNet ==
    ASSUME TypeOK, Known, OneAccountPerUser, NEW e, e.postings \in Seq(Posting),
           Sound(e), Apart(e), e.kind \in Mobile
    PROVE  IntoWallets(e.postings) = -NetDebit(e.postings, MoMoRow)
<1> DEFINE D == DOMAIN accounts
           A == AccountsOf("asset")
           net == [a \in D |-> NetDebit(e.postings, a)]
           has == [a \in D |-> IF a \in A THEN net[a] ELSE 0]
           owes == [a \in D |-> IF a \in A THEN 0 ELSE net[a]]
           wallets == [a \in A |-> NetDebit(e.postings, a)]
<1>1. IsFiniteSet(D) /\ A \in SUBSET D /\ MoMoRow \in D /\ MoMoRow \notin A
  BY SeqDomain, TwoPools DEF TypeOK, RepoTypeOK, Known, AccountsOf
<1>2. \A a \in D : net[a] \in Int
  BY NetType
<1>3. Total(net, D) = 0
  BY <1>1, EntryCancels DEF Sound
<1>4. NetDebit(e.postings, EscrowRow) = 0
  BY NetNone DEF Apart
<1>5. \A a \in D : /\ has[a] \in Int /\ owes[a] \in Int /\ net[a] = has[a] + owes[a]
                   /\ a \in A => wallets[a] = has[a]
                   /\ a \notin A => has[a] = 0
  BY <1>1, <1>2
<1>6. owes[MoMoRow] = NetDebit(e.postings, MoMoRow) /\ \A a \in D \ {MoMoRow} : owes[a] = 0
  BY <1>1, <1>4, TwoPools
<1>7. IntoWallets(e.postings) = Total(wallets, A)
  BY DEF IntoWallets
<1>8. IsFiniteSet(A)
  BY <1>1, FS_Subset
<1> HIDE DEF net, has, owes, wallets, A, D
<1>9. Total(net, D) = Total(has, D) + Total(owes, D)
  BY <1>1, <1>5, TotalPlus
<1>10. Total(has, D) = Total(has, A)
  BY <1>1, <1>5, TotalPart
<1>11. Total(wallets, A) = Total(has, A)
  BY <1>1, <1>5, <1>8, TotalSame
<1>12. Total(owes, D) = owes[MoMoRow]
  BY <1>1, <1>5, <1>6, TotalOne
<1>13. Total(has, D) \in Int /\ owes[MoMoRow] \in Int
  BY <1>1, <1>5, TotalType
<1> QED
  BY <1>3, <1>6, <1>7, <1>9, <1>10, <1>11, <1>12, <1>13

\* What the pool owes is what the entries of mobile money brought.
LEMMA PoolReconciles ==
    ASSUME TypeOK, Entered, Pooled, OneAccountPerUser, Backend = "memory"
    PROVE  MobileMoneyReconciles
<1> DEFINE J == DOMAIN journal
           M == MobileEntries
           pool == [n \in J |-> NetDebit(journal[n].postings, MoMoRow)]
           into == [n \in M |-> IntoWallets(journal[n].postings)]
<1>1. IsFiniteSet(J) /\ IsFiniteSet(DOMAIN accounts) /\ M \in SUBSET J
  BY SeqDomain DEF TypeOK, RepoTypeOK, MobileEntries
<1>2. IsFiniteSet(M)
  BY <1>1, FS_Subset
<1>3. \A n \in J : journal[n].postings \in Seq(Posting)
  BY JournalEntryType
<1>4. \A n \in J : pool[n] \in Int
  BY <1>3, NetType
<1>5. ASSUME NEW n \in J \ M PROVE pool[n] = 0
  <2>1. Apart(journal[n]) /\ journal[n].kind \notin Mobile
    BY <1>5 DEF Pooled, MobileEntries
  <2>2. \A i \in DOMAIN journal[n].postings : journal[n].postings[i].account # MoMoRow
    BY <2>1 DEF Apart
  <2> QED
    BY <1>3, <2>2, NetNone
<1>6. ASSUME NEW n \in M PROVE into[n] = -pool[n]
  <2>1. n \in J /\ Sound(journal[n]) /\ Apart(journal[n]) /\ journal[n].kind \in Mobile /\ Known
    BY <1>6 DEF Entered, Pooled, MobileEntries
  <2>2. IntoWallets(journal[n].postings) = -NetDebit(journal[n].postings, MoMoRow)
    BY <1>3, <2>1, MobileNet
  <2> QED
    BY <2>1, <2>2
<1>7. NetIn(journal, MoMoRow) = Total(pool, J)
  BY DEF NetIn
<1> HIDE DEF pool, into, M, J
<1>8. Total(pool, J) = Total(pool, M)
  BY <1>1, <1>4, <1>5, TotalPart
<1>9. Total(into, M) = -Total(pool, M)
  <2>1. \A n \in M : pool[n] \in Int /\ into[n] = -pool[n]
    BY <1>1, <1>4, <1>6
  <2> QED
    BY <1>2, <2>1, TotalMinus
<1>10. \A row \in SystemRows(MoMoPool) : GetBalance(row) = Total(into, M)
  <2> SUFFICES ASSUME NEW row \in SystemRows(MoMoPool) PROVE GetBalance(row) = Total(into, M)
    OBVIOUS
  <2>1. row = MoMoRow /\ accounts[row].type = "liability"
    BY TwoPools DEF SystemRows, Pooled, Known, OneAccountPerUser
  <2>2. GetBalance(row) = -NetIn(journal, row)
    BY <1>1, <2>1, BalanceIs DEF J
  <2> QED
    BY <1>7, <1>8, <1>9, <2>1, <2>2
<1> QED
  BY <1>1, <1>10, MobileSum DEF into, M, J

\* What the pool of mobile money owes is what mobile money has put into the
\* wallets, of users and of businesses, and cash-outs and settlements have not taken
\* out again, for any number of racing calls on MemoryRepository.
THEOREM MobileMoney == Backend = "memory" /\ PoolForCash /\ Spec => []MobileMoneyReconciles
<1> SUFFICES ASSUME Backend = "memory", PoolForCash PROVE Spec => []MobileMoneyReconciles
  OBVIOUS
<1>1. Init => Pooled
  BY InitPooled
<1>2. IInv /\ Pooled /\ [Next]_vars => Pooled'
  BY PooledStep
<1>3. Spec => []OneAccountPerUser
  BY OneWallet
<1>4. IInv /\ Entered /\ Pooled /\ OneAccountPerUser => MobileMoneyReconciles
  BY PoolReconciles DEF IInv
<1> QED
  BY AlwaysEntered, <1>1, <1>2, <1>3, <1>4, PTL DEF Spec
=============================================================================
