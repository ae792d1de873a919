------------------------------- MODULE Payouts -------------------------------
(***************************************************************************)
(* The way back of the money of merchant payments: the shop refunds a      *)
(* payment to its payer, or settles payments and has the settlement paid   *)
(* out.  Settlements are created under the mutex settlementMu; refunds     *)
(* and the processing of a settlement hold no lock, so every repository    *)
(* call is a step of its own.  The payments have succeeded before.  Each   *)
(* payment stands for the wallet of its payer as well.  On Postgres a call *)
(* stops where it is when its client disconnects or the server dies.       *)
(***************************************************************************)
EXTENDS MoneyBook

CONSTANTS
    Payments,           \* the payment intents of the shop that have succeeded
    Amount,             \* what each of them paid
    Shop,               \* the shop's account
    Pool,               \* the MoMo Settlement Pool, all the rows of that name together
    Keys,               \* the idempotency keys clients choose
    Calls,              \* identities of the calls in a behaviour; each runs once
    Requests,           \* the requests clients may send
    ProviderMayFail     \* the settlement provider may refuse

NoKey == "no key"
Free == "free"
RequestType == [op : {"refund", "settle", "process"}, payment : Payments,
                amount : Int, key : Keys \cup {NoKey}, settlement : Nat]

ASSUME PaymentAssumption == IsFiniteSet(Payments) /\ Amount \in [Payments -> Nat \ {0}]
ASSUME AccountAssumption == /\ Payments \cup {Shop, Pool} \subseteq Owners
                            /\ Shop # Pool /\ Shop \notin Payments /\ Pool \notin Payments
ASSUME RequestAssumption == Requests \subseteq RequestType /\ Requests # {}
ASSUME FreshAssumption == NoKey \notin Keys /\ Free \notin Calls
ASSUME FlagAssumption == ProviderMayFail \in BOOLEAN

VARIABLES
    refunds,      \* the refunds, in the order of their creation
    settlements,  \* the settlements with what each takes of every payment
    settlementMu, \* the call that holds the mutex, or Free
    pc,           \* the repository call each call makes next
    req,          \* its request
    mine,         \* the refund or settlement it created or works on
    scan,         \* what it has found settleable, payment by payment
    outcome,      \* its answer
    doubtful      \* history: the settlements that two calls processed at once, whose
                  \* mark was lost, or of whose payments the settled part was not read

vars == <<moves, refunds, settlements, settlementMu, pc, req, mine, scan, outcome, doubtful>>
stored == <<moves, refunds, settlements, doubtful>>

Refund == [payment : Payments, amount : Nat, key : Keys \cup {NoKey},
           status : {"REQUESTED", "SUCCEEDED", "FAILED"}]
Settlement == [items : [Payments -> Nat], key : Keys \cup {NoKey},
               status : {"PENDING", "PROCESSING", "SUCCEEDED", "FAILED"}]
Nothing == 0

\* REFUND-IDEMP-<key> or CONFIRM-REFUND-<id>, and CONFIRM-SETTLEMENT-<id>.
RefundRef(r) ==
    IF refunds[r].key = NoKey THEN <<"refund", r>> ELSE <<"refund key", refunds[r].key>>
SettlementRef(s) == <<"settlement", s>>
Refs == ({"refund", "settlement"} \X Nat) \cup ({"refund key"} \X Keys)
-----------------------------------------------------------------------------
(* What the repository derives from its tables. *)

Sum(S, f(_)) == MapThenSumSet(f, S)

\* GetTotalRefundedAmount
Refunded(p) ==
    Sum({r \in DOMAIN refunds : /\ refunds[r].payment = p
                                /\ refunds[r].status \in {"REQUESTED", "SUCCEEDED"}},
        LAMBDA r : refunds[r].amount)

\* GetTotalSettledAmount counting only the settlements that are done.
SettledDone(p) ==
    Sum({s \in DOMAIN settlements : settlements[s].status = "SUCCEEDED"},
        LAMBDA s : settlements[s].items[p])

\* GetTotalSettledAmount
Settled(p) ==
    Sum({s \in DOMAIN settlements :
            settlements[s].status \in {"PENDING", "PROCESSING", "SUCCEEDED"}},
        LAMBDA s : settlements[s].items[p])

\* Settlement.TotalAmount
TotalOf(s) == Sum(Payments, LAMBDA p : settlements[s].items[p])

\* The rows a look-up by key may return: MemoryBusinessRepository refuses a
\* second row with a key, Postgres returns any of them.
RowsOfKey(rows, key) == {i \in DOMAIN rows : key # NoKey /\ rows[i].key = key}
-----------------------------------------------------------------------------
Goto(c, label) == pc' = [pc EXCEPT ![c] = label] /\ UNCHANGED outcome

Answer(c, what) ==
    /\ pc' = [pc EXCEPT ![c] = "done"]
    /\ outcome' = [outcome EXCEPT ![c] = what]

SetRefund(r, status) == refunds' = [refunds EXCEPT ![r].status = status]
SetSettlement(s, status) == settlements' = [settlements EXCEPT ![s].status = status]

\* On Postgres any query or update may fail.  Mostly that ends the call; the
\* errors of some are discarded, and the call goes on.
ErrorsIgnored == Backend = "postgres"

\* The updates that record a failure: their errors are discarded.
TryRefund(r, status) == SetRefund(r, status) \/ (ErrorsIgnored /\ UNCHANGED refunds)
TrySettlement(s, status) == SetSettlement(s, status) \/ (ErrorsIgnored /\ UNCHANGED settlements)

\* A request arrives.  It is refused when the shop is not active or the caller
\* is neither its owner nor an administrator.
Begin(c, r) ==
    /\ pc[c] = "idle"
    /\ req' = [req EXCEPT ![c] = r]
    /\ \/ Answer(c, "refused")
       \/ /\ r.op = "refund" => r.amount > 0
          /\ Goto(c, CASE r.op = "refund" -> IF r.key = NoKey THEN "r_total" ELSE "r_key"
                       [] r.op = "settle" -> "s_lock"
                       [] r.op = "process" -> "p_read")
    /\ UNCHANGED <<stored, settlementMu, mine, scan>>
-----------------------------------------------------------------------------
(* RefundPayment *)

\* A refund that is found under the key and has not succeeded is not an answer.
RefundKey(c) ==
    /\ pc[c] = "r_key"
    /\ LET found == RowsOfKey(refunds, req[c].key)
       IN  \/ \E r \in found :
                IF refunds[r].amount # req[c].amount THEN Answer(c, "refused")
                ELSE IF refunds[r].status = "SUCCEEDED" THEN Answer(c, "ok")
                ELSE Goto(c, "r_total")
           \/ (found = {} \/ ErrorsIgnored) /\ Goto(c, "r_total")
    /\ UNCHANGED <<stored, settlementMu, req, mine, scan>>

\* What remains refundable.
RefundTotal(c) ==
    /\ pc[c] = "r_total"
    /\ IF req[c].amount > Amount[req[c].payment] - Refunded(req[c].payment)
       THEN Answer(c, "refused") ELSE Goto(c, "r_funds")
    /\ UNCHANGED <<stored, settlementMu, req, mine, scan>>

RefundFunds(c) ==
    /\ pc[c] = "r_funds"
    /\ IF Balance(Shop) < req[c].amount THEN Answer(c, "refused") ELSE Goto(c, "r_create")
    /\ UNCHANGED <<stored, settlementMu, req, mine, scan>>

NewRefund(c) == [payment |-> req[c].payment, amount |-> req[c].amount, key |-> req[c].key,
                 status |-> "REQUESTED"]

\* CreateRefund as Postgres has it, which only inserts.
RefundInsert(c) ==
    /\ pc[c] = "r_create"
    /\ refunds' = Append(refunds, NewRefund(c))
    /\ mine' = [mine EXCEPT ![c] = Len(refunds) + 1]
    /\ Goto(c, "r_post")
    /\ UNCHANGED <<moves, settlements, doubtful, settlementMu, req, scan>>

\* CreateRefund.  MemoryBusinessRepository checks the key and the remaining
\* amount again under its lock, and a duplicate key is answered as a success.
RefundCreate(c) ==
    \/ /\ pc[c] = "r_create" /\ Backend = "memory"
       /\ LET found == RowsOfKey(refunds, req[c].key)
          IN  \/ \E r \in found :
                   Answer(c, IF refunds[r].amount = req[c].amount THEN "ok" ELSE "refused")
              \/ /\ found = {}
                 /\ Refunded(req[c].payment) + req[c].amount > Amount[req[c].payment]
                 /\ Answer(c, "refused")
       /\ UNCHANGED <<stored, settlementMu, req, mine, scan>>
    \/ /\ Backend = "memory" =>
             /\ RowsOfKey(refunds, req[c].key) = {}
             /\ Refunded(req[c].payment) + req[c].amount <= Amount[req[c].payment]
       /\ RefundInsert(c)

\* PostJournalEntry, the refund marked failed when it reports an error, which
\* on Postgres it may for any reason.
RefundPost(c) ==
    /\ pc[c] = "r_post"
    /\ LET m == Move(RefundRef(mine[c]), Shop, req[c].payment, req[c].amount)
           fails == TryRefund(mine[c], "FAILED") /\ Answer(c, "refused")
       IN  \/ /\ PostMove(m)
              /\ IF PostResult(m) = "error" THEN fails
                 ELSE UNCHANGED refunds /\ Goto(c, "r_done")
           \/ Backend = "postgres" /\ UNCHANGED moves /\ fails
    /\ UNCHANGED <<settlements, doubtful, settlementMu, req, mine, scan>>

\* The refund is completed before its entry is posted.
RefundDoneEarly(c) ==
    /\ pc[c] \in {"r_post", "r_done"}
    /\ SetRefund(mine[c], "SUCCEEDED")
    /\ Answer(c, "ok")
    /\ UNCHANGED <<moves, settlements, doubtful, settlementMu, req, mine, scan>>

RefundDone(c) ==
    /\ pc[c] = "r_done"
    /\ SetRefund(mine[c], "SUCCEEDED")
    /\ Answer(c, "ok")
    /\ UNCHANGED <<moves, settlements, doubtful, settlementMu, req, mine, scan>>
-----------------------------------------------------------------------------
(* CreateSettlement *)

\* CreateSettlement without the mutex.
SettleLockNever(c) ==
    /\ pc[c] = "s_lock"
    /\ settlementMu' = c
    /\ Goto(c, "s_key")
    /\ UNCHANGED <<stored, req, mine, scan>>

SettleLock(c) ==
    /\ pc[c] = "s_lock" /\ settlementMu = Free
    /\ settlementMu' = c
    /\ Goto(c, "s_key")
    /\ UNCHANGED <<stored, req, mine, scan>>

\* An answer that forgets to release the mutex.
ReturnLocked(c, what) == Answer(c, what) /\ UNCHANGED settlementMu

\* An answer under the mutex, which is released on return.
Return(c, what) == Answer(c, what) /\ settlementMu' = Free

SettleKey(c) ==
    /\ pc[c] = "s_key"
    /\ LET found == RowsOfKey(settlements, req[c].key)
       IN  \/ \E s \in found :
                Return(c, IF req[c].amount > 0 /\ TotalOf(s) # req[c].amount
                          THEN "refused" ELSE "ok")
           \/ /\ found = {} \/ ErrorsIgnored
              /\ IF req[c].amount < 0 THEN Return(c, "refused")
                 ELSE Goto(c, "s_refunded") /\ UNCHANGED settlementMu
    /\ UNCHANGED <<stored, req, mine, scan>>

\* What a query whose error is ignored returns: zero, when it fails.
Read(total) == {total} \cup (IF ErrorsIgnored THEN {0} ELSE {})

\* The next payment and what was refunded of it.  The payments are listed in
\* any order.
ScanRefunded(c) ==
    /\ pc[c] = "s_refunded"
    /\ \E p \in Payments \ {scan[c][k].payment : k \in DOMAIN scan[c]} :
         \E refunded \in Read(Refunded(p)) :
           scan' = [scan EXCEPT ![c] =
                      Append(@, [payment |-> p, net |-> Amount[p] - refunded, read |-> "no"])]
    /\ Goto(c, "s_settled")
    /\ UNCHANGED <<stored, settlementMu, req, mine>>

\* What is settled of it.
ScanSettled(c) ==
    /\ pc[c] = "s_settled"
    /\ LET last == Len(scan[c])
           total == Settled(scan[c][last].payment)
       IN  \E settled \in Read(total) :
             scan' = [scan EXCEPT ![c][last].net = @ - settled,
                                  ![c][last].read = IF settled = total THEN "yes" ELSE "no"]
    /\ Goto(c, IF Len(scan[c]) = Cardinality(Payments) THEN "s_create" ELSE "s_refunded")
    /\ UNCHANGED <<stored, settlementMu, req, mine>>

\* The settleable part of the k-th payment scanned, and of those before it.
Net(c, k) == IF scan[c][k].net > 0 THEN scan[c][k].net ELSE 0
NetBefore(c, k) == Sum(1..(k - 1), LAMBDA j : Net(c, j))
Available(c) == NetBefore(c, Len(scan[c]) + 1)
Target(c) == IF req[c].amount > 0 THEN req[c].amount ELSE Available(c)

\* The batch: payments are taken in the order they were listed until the
\* target is reached, the last one in part.
Take(c, k) ==
    LET left == Target(c) - NetBefore(c, k)
    IN  IF left <= 0 THEN 0 ELSE IF left < Net(c, k) THEN left ELSE Net(c, k)

Batch(c) ==
    [p \in Payments |-> Sum({k \in DOMAIN scan[c] : scan[c][k].payment = p}, LAMBDA k : Take(c, k))]

SettleCreate(c) ==
    /\ pc[c] = "s_create"
    /\ IF Available(c) = 0 \/ Target(c) > Available(c)
       THEN Return(c, "refused") /\ UNCHANGED <<settlements, mine, doubtful>>
       ELSE /\ settlements' = Append(settlements, [items |-> Batch(c), key |-> req[c].key,
                                                   status |-> "PENDING"])
            /\ mine' = [mine EXCEPT ![c] = Len(settlements) + 1]
            /\ doubtful' = doubtful \cup
                  (IF \A k \in DOMAIN scan[c] : scan[c][k].read = "yes" THEN {} ELSE {Len(settlements) + 1})
            /\ Return(c, "ok")
    /\ UNCHANGED <<moves, refunds, req, scan>>
-----------------------------------------------------------------------------
(* ProcessSettlement *)

\* Call c has found settlement s pending and has not finished with it.
AtWork(c, s) ==
    pc[c] \in {"p_funds", "p_mark", "p_pay", "p_post", "p_done"} /\ mine[c] = s

\* Call c goes on with settlement s.
TakeUp(c, s) ==
    /\ Goto(c, "p_funds")
    /\ doubtful' = doubtful \cup (IF \E d \in Calls : AtWork(d, s) THEN {s} ELSE {})

\* The status check that lets a settlement be processed again.
ProcessReadAny(c) ==
    /\ pc[c] = "p_read"
    /\ LET s == req[c].settlement
       IN  \/ s \notin DOMAIN settlements /\ Answer(c, "refused") /\ UNCHANGED <<mine, doubtful>>
           \/ s \in DOMAIN settlements /\ mine' = [mine EXCEPT ![c] = s] /\ TakeUp(c, s)
    /\ UNCHANGED <<moves, refunds, settlements, settlementMu, req, scan>>

ProcessRead(c) ==
    /\ pc[c] = "p_read"
    /\ LET s == req[c].settlement
       IN  \/ s \notin DOMAIN settlements /\ Answer(c, "refused") /\ UNCHANGED <<mine, doubtful>>
           \/ /\ s \in DOMAIN settlements
              /\ mine' = [mine EXCEPT ![c] = s]
              /\ CASE settlements[s].status = "SUCCEEDED" -> Answer(c, "ok") /\ UNCHANGED doubtful
                   [] settlements[s].status = "PENDING" -> TakeUp(c, s)
                   [] OTHER -> Answer(c, "refused") /\ UNCHANGED doubtful
    /\ UNCHANGED <<moves, refunds, settlements, settlementMu, req, scan>>

ProcessFunds(c) ==
    /\ pc[c] = "p_funds"
    /\ IF Balance(Shop) < TotalOf(mine[c])
       THEN TrySettlement(mine[c], "FAILED") /\ Answer(c, "refused")
       ELSE UNCHANGED settlements /\ Goto(c, "p_mark")
    /\ UNCHANGED <<moves, refunds, doubtful, settlementMu, req, mine, scan>>

\* The error of the update is discarded: without it the settlement is still
\* pending while it is paid.
ProcessMark(c) ==
    /\ pc[c] = "p_mark"
    /\ \/ SetSettlement(mine[c], "PROCESSING") /\ UNCHANGED doubtful
       \/ ErrorsIgnored /\ UNCHANGED settlements /\ doubtful' = doubtful \cup {mine[c]}
    /\ Goto(c, "p_pay")
    /\ UNCHANGED <<moves, refunds, settlementMu, req, mine, scan>>

\* The provider refuses and the settlement is left as it is.
ProviderFailsSilently(c) ==
    /\ pc[c] = "p_pay" /\ ProviderMayFail
    /\ Answer(c, "refused")
    /\ UNCHANGED <<stored, settlementMu, req, mine, scan>>

\* The provider refuses.
ProviderFails(c) ==
    /\ pc[c] = "p_pay" /\ ProviderMayFail
    /\ TrySettlement(mine[c], "FAILED")
    /\ Answer(c, "refused")
    /\ UNCHANGED <<moves, refunds, doubtful, settlementMu, req, mine, scan>>

\* The provider pays.
ProviderPays(c) ==
    /\ pc[c] = "p_pay"
    /\ Goto(c, "p_post")
    /\ UNCHANGED <<stored, settlementMu, req, mine, scan>>

\* GetSystemAccount and PostJournalEntry: a duplicate that is recognised is
\* ignored, any other error marks the settlement failed.
ProcessPost(c) ==
    /\ pc[c] = "p_post"
    /\ LET m == Move(SettlementRef(mine[c]), Shop, Pool, TotalOf(mine[c]))
           fails == TrySettlement(mine[c], "FAILED") /\ Answer(c, "refused")
       IN  \/ /\ PostMove(m)
              /\ IF PostResult(m) = "error" THEN fails
                 ELSE UNCHANGED settlements /\ Goto(c, "p_done")
           \/ Backend = "postgres" /\ UNCHANGED moves /\ fails
    /\ UNCHANGED <<refunds, doubtful, settlementMu, req, mine, scan>>

ProcessDone(c) ==
    /\ pc[c] = "p_done"
    /\ SetSettlement(mine[c], "SUCCEEDED")
    /\ Answer(c, "ok")
    /\ UNCHANGED <<moves, refunds, doubtful, settlementMu, req, mine, scan>>
-----------------------------------------------------------------------------
Stop(c) ==
    /\ Backend = "postgres"
    /\ pc[c] \notin {"idle", "done"}
    /\ Answer(c, "lost")
    /\ settlementMu' = IF settlementMu = c THEN Free ELSE settlementMu
    /\ UNCHANGED <<stored, req, mine, scan>>

Init ==
    /\ moves = <<>>
    /\ refunds = <<>>
    /\ settlements = <<>>
    /\ settlementMu = Free
    /\ pc = [c \in Calls |-> "idle"]
    /\ req \in [Calls -> {CHOOSE r \in Requests : TRUE}]
    /\ mine = [c \in Calls |-> Nothing]
    /\ scan = [c \in Calls |-> <<>>]
    /\ outcome = [c \in Calls |-> "none"]
    /\ doubtful = {}

RefundStep(c) ==
    \/ RefundKey(c)
    \/ RefundTotal(c)
    \/ RefundFunds(c)
    \/ RefundCreate(c)
    \/ RefundPost(c)
    \/ RefundDone(c)

SettleStep(c) ==
    \/ SettleLock(c)
    \/ SettleKey(c)
    \/ ScanRefunded(c)
    \/ ScanSettled(c)
    \/ SettleCreate(c)

ProcessStep(c) ==
    \/ ProcessRead(c)
    \/ ProcessFunds(c)
    \/ ProcessMark(c)
    \/ ProviderFails(c)
    \/ ProviderPays(c)
    \/ ProcessPost(c)
    \/ ProcessDone(c)

Step(c) == RefundStep(c) \/ SettleStep(c) \/ ProcessStep(c)

Next == \E c \in Calls : (\E r \in Requests : Begin(c, r)) \/ Step(c) \/ Stop(c)

Spec == Init /\ [][Next]_vars

\* A goroutine that can run is run.
FairSpec == Spec /\ \A c \in Calls : WF_vars(Step(c))
-----------------------------------------------------------------------------
Labels == {"idle", "r_key", "r_total", "r_funds", "r_create", "r_post", "r_done",
           "s_lock", "s_key", "s_refunded", "s_settled", "s_create",
           "p_read", "p_funds", "p_mark", "p_pay", "p_post", "p_done", "done"}
UnderMutex == {"s_key", "s_refunded", "s_settled", "s_create"}

\* The variables hold what the code keeps in them, and settlementMu is held
\* exactly between its acquisition and the deferred release of CreateSettlement.
TypeOK ==
    /\ moves \in Seq(MoveType(Refs))
    /\ refunds \in Seq(Refund)
    /\ settlements \in Seq(Settlement)
    /\ pc \in [Calls -> Labels]
    /\ req \in [Calls -> RequestType]
    /\ mine \in [Calls -> Nat]
    /\ scan \in [Calls -> Seq([payment : Payments, net : Int, read : {"no", "yes"}])]
    /\ outcome \in [Calls -> {"none", "ok", "refused", "lost"}]
    /\ \A c \in Calls : pc[c] \in UnderMutex <=> settlementMu = c
    /\ settlementMu \in Calls \cup {Free}
    /\ doubtful \subseteq DOMAIN settlements

\* However the refunds of a payment race, and whatever keys they carry, its
\* payer never gets back more than was paid.
NoOverRefund ==
    \A p \in Payments : AmountOf({n \in DOMAIN moves : moves[n].to = p}) <= Amount[p]

\* A refund that has succeeded was posted for its payment and its amount.
RefundBooked ==
    \A r \in DOMAIN refunds : refunds[r].status = "SUCCEEDED" =>
        \E n \in MovesOf(RefundRef(r)) :
            moves[n] = Move(RefundRef(r), Shop, refunds[r].payment, refunds[r].amount)

\* Of no payment more is paid out than was paid, over all the settlements it is
\* a part of, except by a settlement that was processed by two calls at once,
\* whose mark was lost, or which was created while the query of what is settled
\* failed.  Others stay sound while that happens to some.
PaidOutOnce ==
    \A p \in Payments :
        Sum({s \in DOMAIN settlements \ doubtful : MovesOf(SettlementRef(s)) # {}},
            LAMBDA s : settlements[s].items[p]) <= Amount[p]

\* However many calls process a settlement, and whatever fails or is not stored,
\* it is booked at most once, and is said to have succeeded only if it was booked.
\* What is pending or has failed was not booked, unless the settlement is one that
\* two calls processed at once or whose mark was lost.
SettlementBooked ==
    \A s \in DOMAIN settlements :
        /\ \A m, n \in MovesOf(SettlementRef(s)) : m = n
        /\ settlements[s].status = "SUCCEEDED" => MovesOf(SettlementRef(s)) # {}
        /\ settlements[s].status \in {"PENDING", "FAILED"} /\ s \notin doubtful
               => MovesOf(SettlementRef(s)) = {}

\* Every call is answered: no return path of CreateSettlement keeps the mutex
\* from the calls that wait for it.
EveryCallAnswered == \A c \in Calls : pc[c] # "idle" ~> pc[c] = "done"

\* No refund stays requested, where it would reduce what remains refundable for
\* ever, and no settlement stays in processing.
NothingLeftOpen ==
    \A i \in 1..Cardinality(Calls) :
        /\ (i \in DOMAIN refunds /\ refunds[i].status = "REQUESTED")
               ~> (i \in DOMAIN refunds /\ refunds[i].status # "REQUESTED")
        /\ (i \in DOMAIN settlements /\ settlements[i].status = "PROCESSING")
               ~> (i \in DOMAIN settlements /\ settlements[i].status # "PROCESSING")
=============================================================================
