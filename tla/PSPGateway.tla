----------------------------- MODULE PSPGateway -----------------------------
(***************************************************************************)
(* The PSP gateway over PostgresRepository and the sandbox provider, which *)
(* keeps its transactions in the memory of the server.  A call is a        *)
(* request in a goroutine: a payment, refund or payout on the rail, a poll *)
(* of a payment's status, or the delivery of a webhook event.  No lock is  *)
(* held across its calls of the repository and of the provider, and each   *)
(* of them is a step.  A transaction of the provider is its position in    *)
(* rail.  The provider may deliver an event about a transaction as soon as *)
(* it has executed it, any number of times and in any order.  A query that *)
(* fails stops the call, but for the errors the code ignores: LookupFails  *)
(* and StorageFails below.                                                 *)
(***************************************************************************)
EXTENDS Naturals, Sequences, FiniteSets

CONSTANTS
    Keys,       \* the idempotency keys clients choose
    EventIds,   \* the identities of webhook events
    Calls,      \* identities of the calls in a behaviour; each runs once
    Requests    \* what the clients and the provider may send

NoKey == "no key"
NoId == "no id"
NoTx == 0
NoStatus == "NONE"
Operations == {"payment", "refund", "payout"}
Statuses == {"PENDING", "PROCESSING", "SUCCEEDED", "FAILED", "CANCELLED", "EXPIRED", "UNKNOWN"}

\* What providers send, one raw status for each case of ProcessWebhook.
RawStatuses == {"SUCCESS", "DECLINED", "IN_PROGRESS", "TIMEOUT", "CANCELLED", NoStatus, "ON_HOLD"}

\* ProcessWebhook passes a status it does not know on as it is.
Normalised(raw) ==
    CASE raw = "SUCCESS" -> "SUCCEEDED"
      [] raw = "DECLINED" -> "FAILED"
      [] raw = "IN_PROGRESS" -> "PROCESSING"
      [] raw = "TIMEOUT" -> "EXPIRED"
      [] raw = NoStatus -> "UNKNOWN"
      [] OTHER -> raw

\* A request to execute has a key; a poll and an event name a transaction.
RequestType ==
    [op : Operations, key : Keys \cup {NoKey}]
        \cup [op : {"poll"}, tx : Nat]
        \cup [op : {"event"}, id : EventIds \cup {NoId}, tx : Nat, raw : RawStatuses]

ASSUME RequestAssumption == Requests \subseteq RequestType /\ Requests # {}
ASSUME FreshAssumption == NoKey \notin Keys /\ NoId \notin EventIds

VARIABLES
    rail,      \* the provider's transactions
    rows,      \* the table psp_transactions
    events,    \* the identities in the table psp_webhook_events
    pc,        \* the step each call takes next
    req,       \* its request
    mine,      \* the rail transaction it executed, or the row it found
    seen,      \* the status a poll has read
    outcome    \* its answer

vars == <<rail, rows, events, pc, req, mine, seen, outcome>>
stored == <<rail, rows, events>>
locals == <<req, mine, seen>>

RailStatuses(op) == {"SUCCEEDED", "FAILED"} \cup IF op = "payment" THEN {"PENDING", "EXPIRED"} ELSE {}
RailTx == [op : Operations, status : Statuses]
Row == [tx : Nat, key : Keys \cup {NoKey}, status : Statuses \cup RawStatuses]

RowsOfKey(key) == {i \in DOMAIN rows : rows[i].key = key}
RowsOfTx(n) == {i \in DOMAIN rows : rows[i].tx = n}
-----------------------------------------------------------------------------
Goto(c, label) == pc' = [pc EXCEPT ![c] = label] /\ UNCHANGED outcome

Answer(c, what) ==
    /\ pc' = [pc EXCEPT ![c] = "done"]
    /\ outcome' = [outcome EXCEPT ![c] = what]

FirstLabel(r) ==
    CASE r.op \in Operations -> IF r.key = NoKey THEN "rail" ELSE "key"
      [] r.op = "poll" -> "read"
      [] r.op = "event" -> "known"

\* A request arrives, unless it names a transaction that does not exist yet.
Begin(c, r) ==
    /\ pc[c] = "idle"
    /\ r.op = "event" => r.tx <= Len(rail)
    /\ req' = [req EXCEPT ![c] = r]
    /\ Goto(c, FirstLabel(r))
    /\ UNCHANGED <<stored, mine, seen>>
-----------------------------------------------------------------------------
(* ExecutePayment, ExecuteRefund and ExecutePayout *)

\* The look-up of the key by the name of the operation as well.
CheckKeyNever(c) ==
    /\ pc[c] = "key"
    /\ Goto(c, "rail")
    /\ UNCHANGED <<stored, locals>>

\* Any row with the key is the answer, of whatever operation and amount.
CheckKey(c) ==
    /\ pc[c] = "key"
    /\ IF RowsOfKey(req[c].key) # {} THEN Answer(c, "existing") ELSE Goto(c, "rail")
    /\ UNCHANGED <<stored, locals>>

\* Any error of a look-up counts as "not found".
LookupFails(c) ==
    /\ \/ pc[c] = "key" /\ Goto(c, "blind")
       \/ pc[c] = "known" /\ Goto(c, "record")
       \/ pc[c] = "find" /\ Answer(c, "ok")
    /\ UNCHANGED <<stored, locals>>

\* The provider refuses, or executes under a new identity whatever the key.
CallProvider(c) ==
    /\ pc[c] \in {"rail", "blind"}
    /\ \/ Answer(c, "refused") /\ UNCHANGED <<rail, mine>>
       \/ /\ \E status \in RailStatuses(req[c].op) :
                rail' = Append(rail, [op |-> req[c].op, status |-> status])
          /\ mine' = [mine EXCEPT ![c] = Len(rail) + 1]
          /\ Goto(c, "store")
    /\ UNCHANGED <<rows, events, req, seen>>

NewRow(c) == [tx |-> mine[c], key |-> req[c].key, status |-> rail[mine[c]].status]

\* The insert as MemoryRepository has it: a second row with a key is refused
\* and the first one is the answer.
StoreUnlessKey(c) ==
    /\ pc[c] = "store"
    /\ IF req[c].key # NoKey /\ RowsOfKey(req[c].key) # {}
       THEN Answer(c, "existing") /\ UNCHANGED rows
       ELSE rows' = Append(rows, NewRow(c)) /\ Answer(c, "ok")
    /\ UNCHANGED <<rail, events, locals>>

\* CreatePSPTransaction: the index on the key is not unique.
Store(c) ==
    /\ pc[c] = "store"
    /\ rows' = Append(rows, NewRow(c))
    /\ Answer(c, "ok")
    /\ UNCHANGED <<rail, events, locals>>
-----------------------------------------------------------------------------
(* GetPaymentStatus *)

ReadRow(c) ==
    /\ pc[c] = "read"
    /\ \/ \E i \in RowsOfTx(req[c].tx) :
            /\ mine' = [mine EXCEPT ![c] = i]
            /\ seen' = [seen EXCEPT ![c] = rows[i].status]
            /\ Goto(c, "ask")
       \/ RowsOfTx(req[c].tx) = {} /\ Answer(c, "refused") /\ UNCHANGED <<mine, seen>>
    /\ UNCHANGED <<stored, req>>

\* The sandbox knows the status of payments only.
AskProvider(c) ==
    /\ pc[c] = "ask"
    /\ IF rail[req[c].tx].op # "payment" THEN Answer(c, "refused")
       ELSE IF rail[req[c].tx].status = seen[c] THEN Answer(c, "ok")
       ELSE Goto(c, "update")
    /\ UNCHANGED <<stored, locals>>

\* UpdatePSPTransactionStatus, whatever has become of the row since.
Update(c) ==
    /\ pc[c] = "update"
    /\ rows' = [rows EXCEPT ![mine[c]].status = rail[req[c].tx].status]
    /\ Answer(c, "ok")
    /\ UNCHANGED <<rail, events, locals>>
-----------------------------------------------------------------------------
(* IngestWebhook *)

CheckEvent(c) ==
    /\ pc[c] = "known"
    /\ IF req[c].id \in events THEN Answer(c, "existing") ELSE Goto(c, "record")
    /\ UNCHANGED <<stored, locals>>

\* RecordWebhookEvent as an insert that a conflict does not stop.
RecordAgain(c) ==
    /\ pc[c] = "record"
    /\ events' = IF req[c].id = NoId THEN events ELSE events \cup {req[c].id}
    /\ Goto(c, "find")
    /\ UNCHANGED <<rail, rows, locals>>

\* RecordWebhookEvent.  The unique violation is returned as it is, and not as
\* ErrWebhookAlreadyProcessed.  An event without an identity gets a new one.
Record(c) ==
    /\ pc[c] = "record"
    /\ IF req[c].id \in events THEN Answer(c, "refused") /\ UNCHANGED events
       ELSE /\ events' = IF req[c].id = NoId THEN events ELSE events \cup {req[c].id}
            /\ IF req[c].tx = NoTx THEN Answer(c, "ok") ELSE Goto(c, "find")
    /\ UNCHANGED <<rail, rows, locals>>

\* The look-up by something else than the transaction: the last row is taken.
FindRowLast(c) ==
    /\ pc[c] = "find"
    /\ IF rows = <<>> THEN Answer(c, "ok") /\ UNCHANGED mine
       ELSE mine' = [mine EXCEPT ![c] = Len(rows)] /\ Goto(c, "apply")
    /\ UNCHANGED <<stored, req, seen>>

\* A transaction that is not stored yet is not found, and the event is done.
FindRow(c) ==
    /\ pc[c] = "find"
    /\ \/ \E i \in RowsOfTx(req[c].tx) : mine' = [mine EXCEPT ![c] = i] /\ Goto(c, "apply")
       \/ RowsOfTx(req[c].tx) = {} /\ Answer(c, "ok") /\ UNCHANGED mine
    /\ UNCHANGED <<stored, req, seen>>

Apply(c) ==
    /\ pc[c] = "apply"
    /\ rows' = [rows EXCEPT ![mine[c]].status = Normalised(req[c].raw)]
    /\ Answer(c, "ok")
    /\ UNCHANGED <<rail, events, locals>>

\* The update fails and its error is ignored.
StorageFails(c) ==
    /\ pc[c] = "apply"
    /\ Answer(c, "ok")
    /\ UNCHANGED <<stored, locals>>
-----------------------------------------------------------------------------
\* The client disconnects and the next query finds its context cancelled.
Stop(c) ==
    /\ pc[c] \notin {"idle", "done"}
    /\ Answer(c, "lost")
    /\ UNCHANGED <<stored, locals>>

Init ==
    /\ rail = <<>>
    /\ rows = <<>>
    /\ events = {}
    /\ pc = [c \in Calls |-> "idle"]
    /\ req \in [Calls -> {CHOOSE r \in Requests : TRUE}]
    /\ mine = [c \in Calls |-> NoTx]
    /\ seen = [c \in Calls |-> "UNKNOWN"]
    /\ outcome = [c \in Calls |-> "none"]

ExecuteStep(c) == CheckKey(c) \/ CallProvider(c) \/ Store(c)
PollStep(c) == ReadRow(c) \/ AskProvider(c) \/ Update(c)
EventStep(c) == CheckEvent(c) \/ Record(c) \/ FindRow(c) \/ Apply(c) \/ StorageFails(c)

Next ==
    \E c \in Calls :
        \/ \E r \in Requests : Begin(c, r)
        \/ ExecuteStep(c)
        \/ PollStep(c)
        \/ EventStep(c)
        \/ LookupFails(c)
        \/ Stop(c)

Spec == Init /\ [][Next]_vars
-----------------------------------------------------------------------------
LabelsOf(op) ==
    CASE op \in Operations -> {"key", "rail", "blind", "store"}
      [] op = "poll" -> {"read", "ask", "update"}
      [] op = "event" -> {"known", "record", "find", "apply"}

\* The variables hold what the code keeps in them, a call is where its request
\* leads, and an update has the row of the transaction its request names.
TypeOK ==
    /\ rail \in Seq(RailTx)
    /\ rows \in Seq(Row)
    /\ events \subseteq EventIds
    /\ req \in [Calls -> RequestType]
    /\ pc \in [Calls -> {"idle", "done"} \cup UNION {LabelsOf(op) : op \in Operations \cup {"poll", "event"}}]
    /\ mine \in [Calls -> Nat]
    /\ seen \in [Calls -> Statuses \cup RawStatuses]
    /\ outcome \in [Calls -> {"none", "ok", "existing", "refused", "lost"}]
    /\ \A c \in Calls : pc[c] \in {"idle", "done"} \cup LabelsOf(req[c].op)
    /\ \A c \in Calls : pc[c] \in {"ask", "update", "apply"} => mine[c] \in RowsOfTx(req[c].tx)
    /\ \A i \in DOMAIN rows : rows[i].tx \in DOMAIN rail

Executed(c) == req[c].op \in Operations /\ pc[c] # "idle" /\ mine[c] # NoTx

\* Every transaction the rail executed is on record, but for the ones whose
\* call is about to store it or was cut off before: none is dropped for a row
\* that is there already, and none is stored twice.
RailRecorded ==
    \A n \in DOMAIN rail :
        \/ Cardinality(RowsOfTx(n)) = 1
        \/ /\ RowsOfTx(n) = {}
           /\ \E c \in Calls : /\ Executed(c) /\ mine[c] = n
                               /\ pc[c] = "store" \/ outcome[c] = "lost"

\* A retry that begins after a transaction with its key was stored comes to
\* execute on the rail only if its look-up failed ("blind"): two executions of
\* one key overlap, or the database did not answer.
RetryIsFree ==
    \A c \in Calls, k \in Keys :
        []((pc[c] = "idle" /\ RowsOfKey(k) # {})
              => [](pc[c] = "rail" => req[c].key # k))
-----------------------------------------------------------------------------
(* The refinement: an event is used when its call has done with it. *)

Reported ==
    {[id |-> r.id, tx |-> r.tx, status |-> Normalised(r.raw)] : r \in {q \in Requests : q.op = "event"}}

InHand == {req[c].id : c \in {d \in Calls : pc[d] \in {"find", "apply"}}}

Shown == [i \in DOMAIN rows |-> [tx |-> rows[i].tx, status |-> rows[i].status]]
Used == events \ InHand

Board == INSTANCE StatusBoard WITH
            Unnamed <- NoId, Reports <- Reported, board <- Shown, used <- Used

\* The status of a stored transaction is always one that somebody reported for
\* it, and no event is used twice, however often and late it is delivered and
\* wherever its delivery is cut off.
BoardSpec == Board!BoardSpec
=============================================================================
