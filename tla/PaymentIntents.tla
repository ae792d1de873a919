--------------------------- MODULE PaymentIntents ---------------------------
(***************************************************************************)
(* The merchant payments of the business service: a payer creates a        *)
(* payment intent from the shop's QR code and confirms it.  Confirmations  *)
(* hold the service's mutex paymentMu, creations do not, and the payer's   *)
(* wallet is also spent by the ledger service, which knows nothing of that *)
(* mutex.  On Postgres a call stops where it is when its client            *)
(* disconnects (the request's context is cancelled and every further       *)
(* statement fails) or when the server dies; the mutex is released.        *)
(***************************************************************************)
EXTENDS MoneyBook

CONSTANTS
    Payers,       \* users with a wallet
    ShopOwner,    \* the user who owns the shop
    Shop,         \* the shop's account
    Keys,         \* the idempotency keys clients choose
    Calls,        \* identities of the calls in a behaviour; each runs once
    Requests,     \* the requests clients may send
    MaxSpends     \* bound on the movements of other services

NoKey == "no key"
Free == "free"
RequestType == [op : {"create", "confirm"}, payer : Payers, amount : Int,
                key : Keys \cup {NoKey}, intent : Nat]

ASSUME PayerAssumption == Payers \cup {Shop} \subseteq Owners /\ Shop \notin Payers
                           /\ ShopOwner \in Payers
ASSUME RequestAssumption == Requests \subseteq RequestType
ASSUME FreshAssumption == NoKey \notin Keys /\ Free \notin Calls
ASSUME SpendsAssumption == MaxSpends \in Nat

VARIABLES
    intents,      \* the payment intents, in the order of their creation
    business,     \* the status of the shop
    paymentMu,    \* the call that holds the mutex, or Free
    pc,           \* the repository call each call makes next
    req,          \* its request
    outcome,      \* its answer
    receipt       \* the intent it created, found or confirmed

vars == <<moves, intents, business, paymentMu, pc, req, outcome, receipt>>
calls == <<pc, req, outcome, receipt>>

Intent == [payer : Payers, amount : Nat, key : Keys \cup {NoKey}, late : BOOLEAN,
           status : {"CREATED", "SUCCEEDED", "FAILED", "EXPIRED"}]
NoRequest == [op |-> "create", payer |-> ShopOwner, amount |-> 0, key |-> NoKey, intent |-> 0]
NoIntent == 0
Unnamed == <<"unnamed", 0>>

\* CONFIRM-INTENT-<id>, the idempotency key of the ledger entry.
RefOf(i) == <<"intent", i>>
Refs == {Unnamed} \cup ({"intent"} \X Nat)
IsPaid(i) == MovesOf(RefOf(i)) # {}

Critical == {"business", "funds", "post", "finish"}
-----------------------------------------------------------------------------
Goto(c, label) == pc' = [pc EXCEPT ![c] = label]

Answer(c, what, i) ==
    /\ Goto(c, "done")
    /\ outcome' = [outcome EXCEPT ![c] = what]
    /\ receipt' = [receipt EXCEPT ![c] = i]

Continue(c, label) == Goto(c, label) /\ UNCHANGED <<outcome, receipt>>

SetStatus(i, status) == intents' = [intents EXCEPT ![i].status = status]

\* The intents GetPaymentIntentByIdempotencyKey may return: the index of
\* MemoryBusinessRepository holds the newest, Postgres returns any row.
IntentsOfKey(key) ==
    LET all == {i \in DOMAIN intents : intents[i].key = key}
    IN  IF Backend = "memory" THEN {i \in all : \A j \in all : j <= i} ELSE all
-----------------------------------------------------------------------------
(* CreatePaymentIntent *)

Begin(c, r) ==
    /\ pc[c] = "idle"
    /\ req' = [req EXCEPT ![c] = r]
    /\ IF r.op = "create" /\ r.amount <= 0 THEN Answer(c, "refused", NoIntent)
       ELSE Continue(c, IF r.op = "confirm" THEN "lock"
                        ELSE IF r.key = NoKey THEN "validate" ELSE "check_key")
    /\ UNCHANGED <<moves, intents, business, paymentMu>>

\* On Postgres the look-up may fail; its error is taken for an unused key.
CheckKey(c) ==
    /\ pc[c] = "check_key"
    /\ \/ \E i \in IntentsOfKey(req[c].key) :
            IF intents[i].amount = req[c].amount
            THEN Answer(c, "ok", i) ELSE Answer(c, "refused", NoIntent)
       \/ (IntentsOfKey(req[c].key) = {} \/ Backend = "postgres") /\ Continue(c, "validate")
    /\ UNCHANGED <<moves, intents, business, paymentMu, req>>

\* The QR code may be revoked or unknown, the shop not active, the payer its owner.
Validate(c) ==
    /\ pc[c] = "validate"
    /\ \/ Answer(c, "refused", NoIntent)
       \/ /\ business = "ACTIVE"
          /\ req[c].payer # ShopOwner
          /\ Continue(c, "insert")
    /\ UNCHANGED <<moves, intents, business, paymentMu, req>>

Insert(c) ==
    /\ pc[c] = "insert"
    /\ intents' = Append(intents, [payer |-> req[c].payer, amount |-> req[c].amount,
                                   key |-> req[c].key, late |-> FALSE, status |-> "CREATED"])
    /\ Answer(c, "ok", Len(intents) + 1)
    /\ UNCHANGED <<moves, business, paymentMu, req>>
-----------------------------------------------------------------------------
(* ConfirmPaymentIntent *)

\* The intent as GetPaymentIntent finds it: refused, confirmed before, expired,
\* or to be paid.
Confirmable(c) ==
    LET i == req[c].intent
    IN  /\ i \in DOMAIN intents
        /\ intents[i].payer = req[c].payer
        /\ intents[i].status = "CREATED"

ReadIntent(c) ==
    LET i == req[c].intent
    IN  \/ /\ ~Confirmable(c)
           /\ IF /\ i \in DOMAIN intents
                 /\ intents[i].payer = req[c].payer
                 /\ intents[i].status = "SUCCEEDED"
              THEN Answer(c, "ok", i) ELSE Answer(c, "refused", NoIntent)
           /\ UNCHANGED <<intents, paymentMu>>
        \/ /\ Confirmable(c) /\ intents[i].late
           /\ SetStatus(i, "EXPIRED")
           /\ Answer(c, "refused", NoIntent)
           /\ UNCHANGED paymentMu
        \/ /\ Confirmable(c) /\ ~intents[i].late
           /\ paymentMu' = c
           /\ Continue(c, "business")
           /\ UNCHANGED intents

\* ConfirmPaymentIntent without the mutex.
LockNever(c) ==
    /\ pc[c] = "lock"
    /\ ReadIntent(c)
    /\ UNCHANGED <<moves, business, req>>

\* paymentMu is taken and the intent read.
Lock(c) ==
    /\ pc[c] = "lock"
    /\ paymentMu = Free
    /\ ReadIntent(c)
    /\ UNCHANGED <<moves, business, req>>

\* An error return that forgets the mutex.
FailLocked(c) ==
    /\ SetStatus(req[c].intent, "FAILED")
    /\ Answer(c, "refused", NoIntent)
    /\ UNCHANGED paymentMu

\* The intent is marked failed, the caller told, the mutex released.
Fail(c) ==
    /\ SetStatus(req[c].intent, "FAILED")
    /\ Answer(c, "refused", NoIntent)
    /\ paymentMu' = Free

\* A statement of Postgres may fail, which fails the payment too.
CheckBusiness(c) ==
    /\ pc[c] = "business"
    /\ \/ business = "ACTIVE" /\ Continue(c, "funds") /\ UNCHANGED <<intents, paymentMu>>
       \/ (business # "ACTIVE" \/ Backend = "postgres") /\ Fail(c)
    /\ UNCHANGED <<moves, business, req>>

CheckFunds(c) ==
    /\ pc[c] = "funds"
    /\ LET covered == Balance(req[c].payer) >= intents[req[c].intent].amount
       IN  \/ covered /\ Continue(c, "post") /\ UNCHANGED <<intents, paymentMu>>
           \/ (~covered \/ Backend = "postgres") /\ Fail(c)
    /\ UNCHANGED <<moves, business, req>>

\* PostJournalEntry; a duplicate that is recognised is a success, any other error
\* marks the intent failed.
Post(c) ==
    /\ pc[c] = "post"
    /\ LET i == req[c].intent
           m == Move(RefOf(i), req[c].payer, Shop, intents[i].amount)
       IN  \/ /\ PostMove(m)
              /\ IF PostResult(m) = "error" THEN Fail(c)
                 ELSE Continue(c, "finish") /\ UNCHANGED <<intents, paymentMu>>
           \/ Backend = "postgres" /\ UNCHANGED moves /\ Fail(c)
    /\ UNCHANGED <<business, req>>

\* The intent marked succeeded before its entry is posted.
FinishEarly(c) ==
    /\ pc[c] \in {"post", "finish"}
    /\ SetStatus(req[c].intent, "SUCCEEDED")
    /\ Answer(c, "ok", req[c].intent)
    /\ paymentMu' = Free
    /\ UNCHANGED <<moves, business, req>>

Finish(c) ==
    /\ pc[c] = "finish"
    /\ SetStatus(req[c].intent, "SUCCEEDED")
    /\ Answer(c, "ok", req[c].intent)
    /\ paymentMu' = Free
    /\ UNCHANGED <<moves, business, req>>
-----------------------------------------------------------------------------
(* What happens around the calls. *)

Stop(c) ==
    /\ Backend = "postgres"
    /\ pc[c] \notin {"idle", "done"}
    /\ Goto(c, "done")
    /\ outcome' = [outcome EXCEPT ![c] = "lost"]
    /\ paymentMu' = IF paymentMu = c THEN Free ELSE paymentMu
    /\ UNCHANGED <<moves, intents, business, req, receipt>>

\* Fifteen minutes pass.
Expire(i) ==
    /\ i \in DOMAIN intents /\ ~intents[i].late
    /\ intents' = [intents EXCEPT ![i].late = TRUE]
    /\ UNCHANGED <<moves, business, paymentMu, calls>>

\* UpdateBusiness with a new status.  It reads the business, checks that it is
\* not closed and writes all of it back, so a racing update may reopen it.
UpdateBusiness(status) ==
    /\ status # business
    /\ business' = status
    /\ UNCHANGED <<moves, intents, paymentMu, calls>>

\* The ledger service moves money out of the payer's wallet.
WalletSpend(p) ==
    /\ Cardinality({n \in DOMAIN moves : moves[n].ref = Unnamed}) < MaxSpends
    /\ Balance(p) > 0
    /\ moves' = Append(moves, Move(Unnamed, p, ShopOwner, 1))
    /\ UNCHANGED <<intents, business, paymentMu, calls>>
-----------------------------------------------------------------------------
Init ==
    /\ moves = <<>>
    /\ intents = <<>>
    /\ business = "ACTIVE"
    /\ paymentMu = Free
    /\ pc = [c \in Calls |-> "idle"]
    /\ req = [c \in Calls |-> NoRequest]
    /\ outcome = [c \in Calls |-> "none"]
    /\ receipt = [c \in Calls |-> NoIntent]

Step(c) ==
    \/ CheckKey(c)
    \/ Validate(c)
    \/ Insert(c)
    \/ Lock(c)
    \/ CheckBusiness(c)
    \/ CheckFunds(c)
    \/ Post(c)
    \/ Finish(c)
    \/ Stop(c)

Around ==
    \/ \E i \in DOMAIN intents : Expire(i)
    \/ \E status \in {"ACTIVE", "SUSPENDED", "CLOSED"} : UpdateBusiness(status)
    \/ \E p \in Payers : WalletSpend(p)

Next ==
    \/ \E c \in Calls : (\E r \in Requests : Begin(c, r)) \/ Step(c)
    \/ Around

Spec == Init /\ [][Next]_vars
-----------------------------------------------------------------------------
\* The variables hold what the code keeps in them, and the mutex is held exactly
\* by the call that is between its acquisition and its deferred release.
TypeOK ==
    /\ moves \in Seq(MoveType(Refs))
    /\ intents \in Seq(Intent)
    /\ business \in {"ACTIVE", "SUSPENDED", "CLOSED"}
    /\ req \in [Calls -> RequestType]
    /\ pc \in [Calls -> {"idle", "check_key", "validate", "insert", "lock", "done"} \cup Critical]
    /\ outcome \in [Calls -> {"none", "ok", "refused", "lost"}]
    /\ receipt \in [Calls -> Nat]
    /\ \A c \in Calls : pc[c] \in Critical <=> paymentMu = c
    /\ paymentMu \in Calls \cup {Free}

\* However many confirmations race, and however often one is retried after its
\* answer was lost, the payer pays an intent once, its amount and to the shop.
CapturedOnce ==
    \A i \in DOMAIN intents : \A m, n \in MovesOf(RefOf(i)) :
        /\ m = n
        /\ moves[n] = Move(RefOf(i), intents[i].payer, Shop, intents[i].amount)

\* An intent that has succeeded, or that a caller was told is confirmed, is paid.
SucceededIsPaid ==
    /\ \A i \in DOMAIN intents : intents[i].status = "SUCCEEDED" => IsPaid(i)
    /\ \A c \in Calls : req[c].op = "confirm" /\ outcome[c] = "ok" => IsPaid(receipt[c])

\* An intent whose money has moved is not recorded as failed or expired.
PaidIsNotRefused ==
    \A i \in DOMAIN intents : IsPaid(i) => intents[i].status \in {"CREATED", "SUCCEEDED"}

\* A status that ends an intent is never changed again.
FinalStatus ==
    [][\A i \in DOMAIN intents : intents[i].status # "CREATED"
         => intents'[i].status = intents[i].status]_vars

\* Merchant payments alone never overdraw a wallet: confirmations of different
\* intents wait for each other, so each finds the balance the last one left.
PaymentsCovered ==
    \A p \in Payers :
        AmountOf({n \in DOMAIN moves : moves[n].from = p /\ moves[n].to = Shop})
            <= Opening[p] + AmountOf({n \in DOMAIN moves : moves[n].to = p})
-----------------------------------------------------------------------------
(* The refinement: an intent is paid, and succeeds, when its entry is posted. *)

Life == INSTANCE PaymentLife WITH
            paid <- {i \in DOMAIN intents : IsPaid(i)},
            bills <- [i \in DOMAIN intents |->
                        IF intents[i].status = "CREATED" /\ IsPaid(i) THEN "SUCCEEDED"
                        ELSE intents[i].status]

\* Seen from its payer an intent is paid and succeeds in one step, or ends unpaid.
LifeSpec == Life!LifeSpec
=============================================================================
