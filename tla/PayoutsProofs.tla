--------------------------- MODULE PayoutsProofs ---------------------------
(***************************************************************************)
(* Proofs about refunds and settlements, for any number of calls, of       *)
(* payments and of requests, any amounts and both repositories: what is    *)
(* recorded as refunded or as paid out agrees with the ledger; what is     *)
(* given back or paid out of a payment is at most what was paid, and which *)
(* interleavings break that.                                               *)
(***************************************************************************)
EXTENDS Payouts, Sums

SettlementStatuses == {"PENDING", "PROCESSING", "SUCCEEDED", "FAILED"}
SettlementOf(I) == [items : I, key : Keys \cup {NoKey}, status : SettlementStatuses]
RefundRow == [payment : Payments, amount : Int, key : Keys \cup {NoKey},
              status : {"REQUESTED", "SUCCEEDED", "FAILED"}]

Posting == {"r_post", "r_done"}
Working == {"p_funds", "p_mark", "p_pay", "p_post", "p_done"}

\* The shape of the state; that sums of amounts are numbers is not needed.
Shape ==
    /\ \E S : moves \in Seq(S)
    /\ refunds \in Seq(RefundRow)
    /\ \E I : settlements \in Seq(SettlementOf(I))
    /\ pc \in [Calls -> Labels]
    /\ \E R : req \in [Calls -> R]
    /\ \A c \in Calls : pc[c] # "idle" => req[c] \in RequestType
    /\ mine \in [Calls -> Nat]
    /\ \A c \in Calls : pc[c] \in Posting => mine[c] \in DOMAIN refunds
    /\ \A c \in Calls : pc[c] \in Working => mine[c] \in DOMAIN settlements

\* A refund is posted by the call that created it, and for what it is.
OwnMove(r) == Move(RefundRef(r), Shop, refunds[r].payment, refunds[r].amount)

InRefund ==
    /\ \A c \in Calls : pc[c] \in Posting =>
          /\ refunds[mine[c]].payment = req[c].payment /\ refunds[mine[c]].amount = req[c].amount
    /\ \A c \in Calls : pc[c] = "r_done" =>
          \E n \in MovesOf(RefundRef(mine[c])) : moves[n] = OwnMove(mine[c])
    /\ Backend = "memory" =>
          \A r, q \in DOMAIN refunds : RefundRef(r) = RefundRef(q) => r = q
    /\ \A n \in DOMAIN moves : \/ \E s \in Nat : moves[n].ref = SettlementRef(s)
                               \/ \E r \in DOMAIN refunds : moves[n] = OwnMove(r)
-----------------------------------------------------------------------------
(* The shape *)

LEMMA BeginShape ==
    ASSUME Shape, NEW c \in Calls, NEW r \in Requests, Begin(c, r)
    PROVE  Shape'
<1>1. r \in RequestType
  BY RequestAssumption
<1>2. PICK R : req \in [Calls -> R]
  BY DEF Shape
<1>3. req' \in [Calls -> R \cup {r}] /\ req'[c] = r /\ \A d \in Calls \ {c} : req'[d] = req[d]
  BY <1>2 DEF Begin
<1>4. /\ pc' \in [Calls -> Labels] /\ \A d \in Calls \ {c} : pc'[d] = pc[d]
      /\ pc'[c] \notin Working \cup Posting
  BY <1>1 DEF Shape, Begin, Answer, Goto, Labels, RequestType, Working, Posting
<1>5. UNCHANGED <<moves, refunds, settlements, mine>>
  BY DEF Begin, stored
<1> QED
  BY <1>1, <1>3, <1>4, <1>5 DEF Shape

\* What the steps of a call after its beginning are made of.
LEMMA Called ==
    ASSUME Shape, NEW c \in Calls, NEW l, pc[c] = l, l # "idle"
    PROVE  /\ req[c].payment \in Payments /\ req[c].amount \in Int
           /\ req[c].key \in Keys \cup {NoKey} /\ req[c].settlement \in Nat
BY DEF Shape, RequestType

LEMMA PostShape ==
    ASSUME Shape, NEW m, PostMove(m)
    PROVE  /\ \E S : moves' \in Seq(S)
           /\ \/ moves' = moves /\ MovesOf(m.ref) # {}
              \/ moves' = Append(moves, m) /\ MovesOf(m.ref) = {}
<1>1. PICK S : moves \in Seq(S)
  BY DEF Shape
<1>2. moves \in Seq(S \cup {m}) /\ Append(moves, m) \in Seq(S \cup {m})
  BY <1>1
<1> QED
  BY <1>1, <1>2 DEF PostMove, PostResult

LEMMA StatusShape ==
    ASSUME Shape, NEW s \in DOMAIN settlements, NEW status \in SettlementStatuses,
           SetSettlement(s, status)
    PROVE  /\ \E I : settlements' \in Seq(SettlementOf(I))
           /\ DOMAIN settlements' = DOMAIN settlements /\ settlements'[s].status = status
           /\ \A t \in DOMAIN settlements \ {s} : settlements'[t] = settlements[t]
<1>1. PICK I : settlements \in Seq(SettlementOf(I))
  BY DEF Shape
<1>2. settlements[s] \in SettlementOf(I)
  BY <1>1
<1>3. [settlements[s] EXCEPT !.status = status] \in SettlementOf(I)
  BY <1>2 DEF SettlementOf
<1>4. PICK x : x = [settlements[s] EXCEPT !.status = status]
  OBVIOUS
<1>5. x.status = status
  BY <1>2, <1>4 DEF SettlementOf
<1>6. settlements' = [settlements EXCEPT ![s] = x]
  BY <1>4 DEF SetSettlement
<1>7. settlements' \in Seq(SettlementOf(I)) /\ settlements'[s] = x
  BY <1>1, <1>3, <1>4, <1>6
<1> QED
  BY <1>1, <1>5, <1>6, <1>7

LEMMA RefundShape ==
    ASSUME Shape, NEW r \in DOMAIN refunds, NEW status \in {"REQUESTED", "SUCCEEDED", "FAILED"},
           SetRefund(r, status)
    PROVE  /\ refunds' \in Seq(RefundRow)
           /\ DOMAIN refunds' = DOMAIN refunds /\ refunds'[r].status = status
           /\ \A q \in DOMAIN refunds : /\ q # r => refunds'[q] = refunds[q]
                                        /\ refunds'[q].payment = refunds[q].payment
                                        /\ refunds'[q].amount = refunds[q].amount
                                        /\ refunds'[q].key = refunds[q].key
<1>1. refunds[r] \in RefundRow
  BY DEF Shape
<1>2. [refunds[r] EXCEPT !.status = status] \in RefundRow
  BY <1>1 DEF RefundRow
<1> QED
  BY <1>1, <1>2 DEF Shape, SetRefund, RefundRow

LEMMA InsertShape ==
    ASSUME Shape, NEW c \in Calls, RefundInsert(c)
    PROVE  /\ refunds' \in Seq(RefundRow) /\ refunds' = Append(refunds, NewRefund(c))
           /\ mine' = [mine EXCEPT ![c] = Len(refunds) + 1] /\ mine' \in [Calls -> Nat]
<1>1. NewRefund(c) \in RefundRow
  BY Called DEF NewRefund, RefundRow, RefundInsert
<1> QED
  BY <1>1 DEF Shape, RefundInsert

LEMMA CreateShape ==
    ASSUME Shape, NEW c \in Calls, SettleCreate(c)
    PROVE  /\ \E I : settlements' \in Seq(SettlementOf(I))
           /\ mine' \in [Calls -> Nat]
           /\ \/ UNCHANGED settlements
              \/ /\ DOMAIN settlements' = DOMAIN settlements \cup {Len(settlements) + 1}
                 /\ settlements'[Len(settlements) + 1].status = "PENDING"
                 /\ \A s \in DOMAIN settlements : settlements'[s] = settlements[s]
<1>1. PICK I : settlements \in Seq(SettlementOf(I))
  BY DEF Shape
<1>2. CASE UNCHANGED settlements
  BY <1>1, <1>2 DEF Shape, SettleCreate
<1>3. CASE ~UNCHANGED settlements
  <2> DEFINE new == [items |-> Batch(c), key |-> req[c].key, status |-> "PENDING"]
             J == I \cup {Batch(c)}
  <2>1. req[c].key \in Keys \cup {NoKey}
    BY Called DEF SettleCreate
  <2>2. new \in SettlementOf(J) /\ new.status = "PENDING"
    BY <2>1 DEF SettlementOf, SettlementStatuses
  <2>3. settlements \in Seq(SettlementOf(J))
    <3>1. SettlementOf(I) \subseteq SettlementOf(J)
      BY DEF SettlementOf
    <3> HIDE DEF J
    <3> QED
      BY <1>1, <3>1
  <2>4. settlements' = Append(settlements, new) /\ mine' = [mine EXCEPT ![c] = Len(settlements) + 1]
    BY <1>3 DEF SettleCreate
  <2> HIDE DEF new, J
  <2> QED
    BY <2>2, <2>3, <2>4 DEF Shape
<1> QED
  BY <1>2, <1>3

\* Labels of the calls that have begun, and what the steps that store nothing change.
LEMMA LabelStep ==
    ASSUME Shape, NEW c \in Calls, Step(c) \/ Stop(c)
    PROVE  /\ pc[c] # "idle" /\ req' = req
           /\ pc' \in [Calls -> Labels] /\ \A d \in Calls \ {c} : pc'[d] = pc[d]
<1> USE DEF Shape, Answer, Goto, Return, Labels
<1>1. CASE RefundStep(c)
  BY <1>1 DEF RefundStep, RefundKey, RefundTotal, RefundFunds, RefundCreate, RefundInsert, RefundPost,
              RefundDone, TryRefund
<1>2. CASE SettleStep(c)
  BY <1>2 DEF SettleStep, SettleLock, SettleKey, ScanRefunded, ScanSettled, SettleCreate
<1>3. CASE ProcessStep(c)
  BY <1>3 DEF ProcessStep, ProcessRead, TakeUp, ProcessFunds, ProcessMark, ProviderFails,
       ProviderPays, ProcessPost, ProcessDone, TrySettlement, stored
<1>4. CASE Stop(c)
  BY <1>4 DEF Stop
<1> QED
  BY <1>1, <1>2, <1>3, <1>4 DEF Step

\* The steps that create nothing and post nothing.
Looks(c) ==
    \/ RefundKey(c) \/ RefundTotal(c) \/ RefundFunds(c)
    \/ RefundCreate(c) /\ UNCHANGED refunds
    \/ SettleLock(c) \/ SettleKey(c) \/ ScanRefunded(c) \/ ScanSettled(c)
    \/ Stop(c)

LEMMA LooksAside ==
    ASSUME Shape, NEW c \in Calls, Looks(c)
    PROVE  /\ UNCHANGED <<moves, refunds, settlements, doubtful>>
           /\ pc'[c] \notin Working \cup Posting \cup {"p_read"} /\ UNCHANGED mine
<1> USE DEF Shape, Answer, Goto, Return, Working, Posting, stored, Labels
<1>1. CASE RefundCreate(c) /\ UNCHANGED refunds
  <2>1. ~RefundInsert(c)
    <3>1. refunds \in Seq(RefundRow)
      OBVIOUS
    <3>2. Append(refunds, NewRefund(c)) # refunds
      BY <3>1
    <3> QED
      BY <1>1, <3>2 DEF RefundInsert
  <2> QED
    BY <1>1, <2>1 DEF RefundCreate
<1>2. CASE ~(RefundCreate(c) /\ UNCHANGED refunds)
  BY <1>2 DEF Looks, RefundKey, RefundTotal, RefundFunds, SettleLock, SettleKey, ScanRefunded,
              ScanSettled, Stop
<1> QED
  BY <1>1, <1>2

\* What the steps that are no looks do to the rows.
Rows(c) ==
    /\ refunds' \in Seq(RefundRow) /\ DOMAIN refunds \subseteq DOMAIN refunds'
    /\ \E I : settlements' \in Seq(SettlementOf(I))
    /\ DOMAIN settlements \subseteq DOMAIN settlements'
    /\ \E S : moves' \in Seq(S)
    /\ mine' \in [Calls -> Nat] /\ \A d \in Calls \ {c} : mine'[d] = mine[d]
    /\ pc'[c] \in Posting => mine'[c] \in DOMAIN refunds'
    /\ pc'[c] \in Working => mine'[c] \in DOMAIN settlements'

LEMMA RefundRows ==
    ASSUME Shape, NEW c \in Calls, RefundInsert(c) \/ RefundPost(c) \/ RefundDone(c)
    PROVE  Rows(c)
<1>1. CASE RefundInsert(c)
  <2>1. /\ refunds' \in Seq(RefundRow) /\ refunds' = Append(refunds, NewRefund(c))
        /\ mine' = [mine EXCEPT ![c] = Len(refunds) + 1] /\ mine' \in [Calls -> Nat]
    BY <1>1, InsertShape
  <2>2. /\ DOMAIN refunds \subseteq DOMAIN refunds' /\ mine'[c] \in DOMAIN refunds'
        /\ \A d \in Calls \ {c} : mine'[d] = mine[d]
    BY <2>1 DEF Shape
  <2>3. pc'[c] = "r_post" /\ UNCHANGED <<moves, settlements>>
    BY <1>1 DEF RefundInsert, Goto, Shape
  <2> QED
    BY <2>1, <2>2, <2>3 DEF Rows, Shape, Working
<1>2. CASE RefundPost(c)
  <2>1. /\ mine[c] \in DOMAIN refunds /\ UNCHANGED <<mine, settlements>>
        /\ pc'[c] \in {"done", "r_done"}
    BY <1>2 DEF RefundPost, Shape, Posting, Answer, Goto, TryRefund
  <2>2. \E S : moves' \in Seq(S)
    BY <1>2, PostShape DEF RefundPost, Shape, TryRefund
  <2>3. refunds' \in Seq(RefundRow) /\ DOMAIN refunds' = DOMAIN refunds
    <3>1. CASE UNCHANGED refunds
      BY <3>1 DEF Shape
    <3>2. CASE SetRefund(mine[c], "FAILED")
      BY <2>1, <3>2, RefundShape
    <3> QED
      BY <1>2, <3>1, <3>2 DEF RefundPost, TryRefund
  <2> QED
    BY <2>1, <2>2, <2>3 DEF Rows, Shape, Working
<1>3. CASE RefundDone(c)
  <2>1. /\ mine[c] \in DOMAIN refunds /\ UNCHANGED <<mine, settlements, moves>>
        /\ pc'[c] = "done" /\ SetRefund(mine[c], "SUCCEEDED")
    BY <1>3 DEF RefundDone, Shape, Posting, Answer
  <2>2. refunds' \in Seq(RefundRow) /\ DOMAIN refunds' = DOMAIN refunds
    BY <2>1, RefundShape
  <2> QED
    BY <2>1, <2>2 DEF Rows, Shape, Working, Posting
<1> QED
  BY <1>1, <1>2, <1>3

\* The steps of ProcessSettlement after the first set a status.
LEMMA ProcessSets ==
    ASSUME Shape, NEW c \in Calls,
           ProcessFunds(c) \/ ProcessMark(c) \/
           ProviderFails(c) \/ ProviderPays(c) \/ ProcessPost(c) \/ ProcessDone(c)
    PROVE  /\ mine[c] \in DOMAIN settlements /\ pc[c] \in Working
           /\ UNCHANGED <<refunds, mine>>
           /\ pc'[c] \in Working \cup {"done"}
           /\ \/ UNCHANGED settlements
              \/ \E status \in SettlementStatuses : SetSettlement(mine[c], status)
<1>1. /\ mine[c] \in DOMAIN settlements /\ pc[c] \in Working
      /\ UNCHANGED <<refunds, mine>>
      /\ pc'[c] \in Working \cup {"done"}
  <2> USE DEF Shape, Working, Labels, Answer, Goto
  <2>1. CASE ProcessFunds(c)
    BY <2>1 DEF ProcessFunds, TrySettlement
  <2>2. CASE ProcessMark(c)
    BY <2>2 DEF ProcessMark
  <2>3. CASE ProviderFails(c)
    BY <2>3 DEF ProviderFails, TrySettlement
  <2>4. CASE ProcessPost(c)
    BY <2>4 DEF ProcessPost, TrySettlement
  <2>5. CASE ProcessDone(c)
    BY <2>5 DEF ProcessDone
  <2>6. CASE ProviderPays(c)
    BY <2>6 DEF ProviderPays, stored
  <2> QED
    BY <2>1, <2>2, <2>3, <2>4, <2>5, <2>6
<1>2. settlements[mine[c]].status \in SettlementStatuses
  <2>1. PICK I : settlements \in Seq(SettlementOf(I))
    BY DEF Shape
  <2>2. settlements[mine[c]] \in SettlementOf(I)
    BY <1>1, <2>1
  <2> QED
    BY <2>2 DEF SettlementOf
<1>3. ASSUME ProcessMark(c)
      PROVE  UNCHANGED settlements \/ \E status \in SettlementStatuses : SetSettlement(mine[c], status)
  BY <1>2, <1>3 DEF ProcessMark, SettlementStatuses
<1>4. ASSUME ProcessFunds(c) \/ ProviderFails(c) \/ ProviderPays(c) \/ ProcessPost(c) \/ ProcessDone(c)
      PROVE  \/ UNCHANGED settlements
             \/ \E status \in {"FAILED", "SUCCEEDED"} : SetSettlement(mine[c], status)
  BY <1>4 DEF ProcessFunds, ProviderFails, ProviderPays, ProcessPost, ProcessDone, TrySettlement, stored
<1> QED
  BY <1>1, <1>3, <1>4 DEF SettlementStatuses

LEMMA ProcessRows ==
    ASSUME Shape, NEW c \in Calls, SettleCreate(c) \/ ProcessStep(c)
    PROVE  Rows(c)
<1>1. CASE SettleCreate(c)
  <2>1. /\ \E I : settlements' \in Seq(SettlementOf(I))
        /\ mine' \in [Calls -> Nat] /\ DOMAIN settlements \subseteq DOMAIN settlements'
    BY <1>1, CreateShape
  <2>2. /\ UNCHANGED <<moves, refunds>> /\ \A d \in Calls \ {c} : mine'[d] = mine[d]
        /\ pc'[c] = "done"
    BY <1>1 DEF SettleCreate, Shape, Return, Answer
  <2> QED
    BY <2>1, <2>2 DEF Rows, Shape, Working, Posting
<1>2. CASE ProcessRead(c)
  <2>1. req[c].settlement \in Nat
    BY <1>2, Called DEF ProcessRead, TakeUp
  <2>2. /\ mine' \in [Calls -> Nat] /\ \A d \in Calls \ {c} : mine'[d] = mine[d]
        /\ pc'[c] \in {"done", "p_funds"} /\ UNCHANGED <<moves, refunds, settlements>>
        /\ pc'[c] = "p_funds" => mine'[c] \in DOMAIN settlements
    BY <1>2, <2>1 DEF Shape, ProcessRead, Answer, Goto, stored, TakeUp
  <2> QED
    BY <2>2 DEF Rows, Shape, Working, Posting
<1>3. CASE ProcessFunds(c) \/ ProcessMark(c) \/
           ProviderFails(c) \/ ProviderPays(c) \/ ProcessPost(c) \/ ProcessDone(c)
  <2>1. /\ mine[c] \in DOMAIN settlements /\ UNCHANGED <<refunds, mine>>
        /\ pc'[c] \in Working \cup {"done"}
    BY <1>3, ProcessSets
  <2>2. /\ \E I : settlements' \in Seq(SettlementOf(I))
        /\ DOMAIN settlements' = DOMAIN settlements
    <3>1. CASE UNCHANGED settlements
      BY <3>1 DEF Shape
    <3>2. ASSUME NEW status \in SettlementStatuses, SetSettlement(mine[c], status)
          PROVE  /\ \E I : settlements' \in Seq(SettlementOf(I))
                 /\ DOMAIN settlements' = DOMAIN settlements
      BY <2>1, <3>2, StatusShape
    <3> QED
      BY <1>3, <3>1, <3>2, ProcessSets
  <2>3. \E S : moves' \in Seq(S)
    <3>1. CASE ProcessPost(c)
      BY <3>1, PostShape DEF ProcessPost, Shape, TrySettlement
    <3>2. CASE ~ProcessPost(c)
      BY <1>3, <3>2 DEF Shape, ProcessFunds, ProcessMark, ProviderFails, ProviderPays,
           ProcessDone, TrySettlement, stored
    <3> QED
      BY <3>1, <3>2
  <2> QED
    BY <2>1, <2>2, <2>3 DEF Rows, Shape, Working, Posting
<1> QED
  BY <1>1, <1>2, <1>3 DEF ProcessStep

\* A step looks, or changes the rows.
LEMMA Kinds ==
    ASSUME NEW c \in Calls, Step(c) \/ Stop(c)
    PROVE  \/ Looks(c)
           \/ RefundInsert(c) \/ RefundPost(c) \/ RefundDone(c)
           \/ SettleCreate(c) \/ ProcessStep(c)
BY DEF Step, RefundStep, SettleStep, Looks, RefundCreate, stored

LEMMA ShapeStep == Shape /\ [Next]_vars => Shape'
<1> SUFFICES ASSUME Shape, [Next]_vars PROVE Shape'
  OBVIOUS
<1>1. ASSUME NEW c \in Calls, NEW r \in Requests, Begin(c, r) PROVE Shape'
  BY <1>1, BeginShape
<1>2. ASSUME NEW c \in Calls, Step(c) \/ Stop(c) PROVE Shape'
  <2>1. /\ pc[c] # "idle" /\ req' = req
        /\ pc' \in [Calls -> Labels] /\ \A d \in Calls \ {c} : pc'[d] = pc[d]
    BY <1>2, LabelStep
  <2>2. /\ \E R : req' \in [Calls -> R]
        /\ \A d \in Calls : pc'[d] # "idle" => req'[d] \in RequestType
    BY <2>1 DEF Shape
  <2>3. CASE Looks(c)
    BY <2>1, <2>2, <2>3, LooksAside DEF Shape
  <2>4. CASE Rows(c)
    BY <2>1, <2>2, <2>4 DEF Shape, Rows
  <2> QED
    BY <1>2, <2>3, <2>4, Kinds, RefundRows, ProcessRows
<1>3. CASE UNCHANGED vars
  BY <1>3 DEF Shape, vars
<1> QED
  BY <1>1, <1>2, <1>3 DEF Next
-----------------------------------------------------------------------------
(* Refunds *)

RInv == Shape /\ InRefund /\ RefundBooked

LEMMA RefsApart ==
    /\ \A r \in DOMAIN refunds, s \in Nat : RefundRef(r) # SettlementRef(s)
    /\ \A r \in DOMAIN refunds : RefundRef(r) # <<"unnamed", 0>>
    /\ \A s \in Nat : SettlementRef(s) # <<"unnamed", 0>>
    /\ \A s, t \in Nat : SettlementRef(s) = SettlementRef(t) => s = t
BY DEF RefundRef, SettlementRef

\* Steps that leave the refunds alone.
LEMMA NoRefund ==
    ASSUME RInv, NEW c \in Calls, UNCHANGED refunds,
           \A d \in Calls \ {c} : pc'[d] = pc[d] /\ mine'[d] = mine[d] /\ req'[d] = req[d],
           pc'[c] \notin Posting,
           \/ UNCHANGED moves
           \/ \E s \in Nat : \E m : moves' = Append(moves, m) /\ m.ref = SettlementRef(s)
    PROVE  InRefund' /\ RefundBooked'
<1>1. PICK S : moves \in Seq(S)
  BY DEF RInv, Shape
<1>2. /\ \A n \in DOMAIN moves : n \in DOMAIN moves' /\ moves'[n] = moves[n]
      /\ \A n \in DOMAIN moves' \ DOMAIN moves : \E s \in Nat : moves'[n].ref = SettlementRef(s)
  <2>1. ASSUME NEW s \in Nat, NEW m, moves' = Append(moves, m), m.ref = SettlementRef(s)
        PROVE  /\ \A n \in DOMAIN moves : n \in DOMAIN moves' /\ moves'[n] = moves[n]
               /\ \A n \in DOMAIN moves' \ DOMAIN moves : moves'[n].ref = SettlementRef(s)
    BY <1>1, <2>1
  <2> QED
    BY <2>1
<1>3. \A r \in DOMAIN refunds : OwnMove(r)' = OwnMove(r) /\ RefundRef(r)' = RefundRef(r)
  BY DEF OwnMove, RefundRef, Move
<1>4. \A r \in DOMAIN refunds : \A n \in MovesOf(RefundRef(r)) : n \in MovesOf(RefundRef(r))'
  BY <1>2, <1>3 DEF MovesOf
<1>5. \A d \in Calls : pc'[d] \in Posting => d # c
  OBVIOUS
<1>6. \A d \in Calls : pc'[d] \in Posting =>
          refunds'[mine'[d]].payment = req'[d].payment /\ refunds'[mine'[d]].amount = req'[d].amount
  BY <1>5 DEF RInv, InRefund
<1>7. \A d \in Calls : pc'[d] = "r_done" =>
          \E n \in MovesOf(RefundRef(mine[d]))' : moves'[n] = OwnMove(mine[d])'
  <2> SUFFICES ASSUME NEW d \in Calls, pc'[d] = "r_done"
               PROVE  \E n \in MovesOf(RefundRef(mine[d]))' : moves'[n] = OwnMove(mine[d])'
    OBVIOUS
  <2>1. d # c /\ mine'[d] = mine[d] /\ pc[d] = "r_done" /\ mine[d] \in DOMAIN refunds
    BY <1>5 DEF RInv, Shape, Posting
  <2>2. PICK n \in MovesOf(RefundRef(mine[d])) : moves[n] = OwnMove(mine[d])
    BY <2>1 DEF RInv, InRefund
  <2>3. n \in DOMAIN moves
    BY <2>2 DEF MovesOf
  <2> QED
    BY <1>2, <1>3, <1>4, <2>1, <2>2, <2>3
<1>8. Backend = "memory" => \A r, q \in DOMAIN refunds' : RefundRef(r)' = RefundRef(q)' => r = q
  BY <1>3 DEF RInv, InRefund
<1>9. \A n \in DOMAIN moves' : \/ \E s \in Nat : moves'[n].ref = SettlementRef(s)
                               \/ \E r \in DOMAIN refunds' : moves'[n] = OwnMove(r)'
  BY <1>2, <1>3 DEF RInv, InRefund
<1>10. RefundBooked'
  <2> SUFFICES ASSUME NEW r \in DOMAIN refunds, refunds[r].status = "SUCCEEDED"
               PROVE  \E n \in MovesOf(RefundRef(r))' : moves'[n] = OwnMove(r)'
    BY DEF RefundBooked, OwnMove
  <2>1. PICK n \in MovesOf(RefundRef(r)) : moves[n] = OwnMove(r)
    BY DEF RInv, RefundBooked, OwnMove
  <2>2. n \in DOMAIN moves
    BY <2>1 DEF MovesOf
  <2> QED
    BY <1>2, <1>3, <1>4, <2>1, <2>2
<1> QED
  BY <1>6, <1>7, <1>8, <1>9, <1>10 DEF InRefund, SettlementRef

\* What is known of the moves and the refunds survives when nothing of it is
\* changed but what a status says.
Grown ==
    /\ \A n \in DOMAIN moves : n \in DOMAIN moves' /\ moves'[n] = moves[n]
    /\ \A r \in DOMAIN refunds : r \in DOMAIN refunds'
                              /\ refunds'[r].payment = refunds[r].payment
                              /\ refunds'[r].amount = refunds[r].amount
                              /\ refunds'[r].key = refunds[r].key

LEMMA GrownKeeps ==
    ASSUME Grown
    PROVE  \A r \in DOMAIN refunds :
              /\ OwnMove(r)' = OwnMove(r) /\ RefundRef(r)' = RefundRef(r)
              /\ \A n \in MovesOf(RefundRef(r)) : n \in MovesOf(RefundRef(r))' /\ moves'[n] = moves[n]
<1>1. \A r \in DOMAIN refunds : OwnMove(r)' = OwnMove(r) /\ RefundRef(r)' = RefundRef(r)
  BY DEF Grown, OwnMove, RefundRef, Move
<1> QED
  BY <1>1 DEF Grown, MovesOf

\* Of the calls but c everything holds that held.
LEMMA OthersPosted ==
    ASSUME RInv, NEW c \in Calls, Grown,
           \A d \in Calls \ {c} : pc'[d] = pc[d] /\ mine'[d] = mine[d] /\ req'[d] = req[d],
           NEW d \in Calls \ {c}
    PROVE  /\ pc'[d] \in Posting =>
                /\ refunds'[mine'[d]].payment = req'[d].payment
                /\ refunds'[mine'[d]].amount = req'[d].amount
           /\ pc'[d] = "r_done" =>
                \E n \in MovesOf(RefundRef(mine[d]))' : moves'[n] = OwnMove(mine[d])'
<1>1. pc'[d] \in Posting =>
                /\ refunds'[mine'[d]].payment = req'[d].payment
                /\ refunds'[mine'[d]].amount = req'[d].amount
  BY DEF RInv, Shape, InRefund, Grown
<1>2. ASSUME pc'[d] = "r_done"
      PROVE  \E n \in MovesOf(RefundRef(mine[d]))' : moves'[n] = OwnMove(mine[d])'
  <2>1. mine'[d] = mine[d] /\ pc[d] = "r_done" /\ mine[d] \in DOMAIN refunds
    BY <1>2 DEF RInv, Shape, Posting
  <2>2. PICK n \in MovesOf(RefundRef(mine[d])) : moves[n] = OwnMove(mine[d])
    BY <2>1 DEF RInv, InRefund
  <2> QED
    BY <2>1, <2>2, GrownKeeps
<1> QED
  BY <1>1, <1>2

LEMMA BookedStays ==
    ASSUME RInv, Grown, NEW r \in DOMAIN refunds, refunds[r].status = "SUCCEEDED"
    PROVE  \E n \in MovesOf(RefundRef(r))' : moves'[n] = OwnMove(r)'
<1>1. PICK n \in MovesOf(RefundRef(r)) : moves[n] = OwnMove(r)
  BY DEF RInv, RefundBooked, OwnMove
<1> QED
  BY <1>1, GrownKeeps

LEMMA InsertStep ==
    ASSUME RInv, NEW c \in Calls, RefundCreate(c), RefundInsert(c)
    PROVE  InRefund' /\ RefundBooked'
<1> DEFINE new == NewRefund(c)
<1>0. PICK k : k = Len(refunds) + 1
  OBVIOUS
<1>1. /\ refunds \in Seq(RefundRow) /\ refunds' = Append(refunds, new)
      /\ mine' = [mine EXCEPT ![c] = k] /\ mine' \in [Calls -> Nat] /\ refunds' \in Seq(RefundRow)
  BY <1>0, InsertShape DEF RInv, Shape
<1>2. /\ DOMAIN refunds' = DOMAIN refunds \cup {k} /\ k \notin DOMAIN refunds /\ refunds'[k] = new
      /\ \A r \in DOMAIN refunds : refunds'[r] = refunds[r]
  BY <1>0, <1>1
<1>3. /\ req' = req /\ moves' = moves /\ pc[c] = "r_create" /\ pc'[c] = "r_post"
      /\ \A d \in Calls \ {c} : pc'[d] = pc[d] /\ mine'[d] = mine[d] /\ req'[d] = req[d]
      /\ mine'[c] = k
  BY <1>1 DEF RInv, Shape, RefundInsert, Goto
<1>4. Grown
  BY <1>2, <1>3 DEF Grown
<1>5. new.payment = req[c].payment /\ new.amount = req[c].amount /\ new.key = req[c].key
      /\ new.status = "REQUESTED"
  BY DEF NewRefund
<1> HIDE DEF new
<1>6. \A d \in Calls : pc'[d] \in Posting =>
          refunds'[mine'[d]].payment = req'[d].payment /\ refunds'[mine'[d]].amount = req'[d].amount
  BY <1>2, <1>3, <1>4, <1>5, OthersPosted
<1>7. \A d \in Calls : pc'[d] = "r_done" =>
          \E n \in MovesOf(RefundRef(mine[d]))' : moves'[n] = OwnMove(mine[d])'
  BY <1>3, <1>4, OthersPosted
<1>8. ASSUME Backend = "memory"
      PROVE  \A r, q \in DOMAIN refunds' : RefundRef(r)' = RefundRef(q)' => r = q
  <2>1. RowsOfKey(refunds, req[c].key) = {}
    <3>1. CASE \E r \in RowsOfKey(refunds, req[c].key) : TRUE
      BY <1>1, <1>2, <1>3, <1>8, <3>1 DEF RefundCreate, Answer, RInv, Shape, stored
    <3> QED
      BY <3>1
  <2>2. \A r \in DOMAIN refunds : RefundRef(k)' # RefundRef(r)
    BY <1>2, <1>5, <2>1 DEF RefundRef, RowsOfKey
  <2>3. \A r \in DOMAIN refunds : RefundRef(r)' = RefundRef(r)
    BY <1>4, GrownKeeps
  <2> QED
    BY <1>2, <1>8, <2>2, <2>3 DEF RInv, InRefund
<1>9. \A n \in DOMAIN moves' : \/ \E s \in Nat : moves'[n].ref = SettlementRef(s)
                               \/ \E r \in DOMAIN refunds' : moves'[n] = OwnMove(r)'
  BY <1>2, <1>3, <1>4, GrownKeeps DEF RInv, InRefund
<1>10. RefundBooked'
  BY <1>2, <1>4, <1>5, BookedStays DEF RefundBooked, OwnMove
<1> QED
  BY <1>6, <1>7, <1>8, <1>9, <1>10 DEF InRefund, SettlementRef

LEMMA PostStep ==
    ASSUME RInv, NEW c \in Calls, RefundPost(c)
    PROVE  InRefund' /\ RefundBooked'
<1> DEFINE r0 == mine[c]
           m == Move(RefundRef(r0), Shop, req[c].payment, req[c].amount)
<1>1. /\ r0 \in DOMAIN refunds /\ m = OwnMove(r0) /\ m.ref = RefundRef(r0)
      /\ UNCHANGED <<mine, req>> /\ \A d \in Calls \ {c} : pc'[d] = pc[d]
      /\ pc'[c] \in {"r_done", "done"}
  BY DEF RInv, Shape, InRefund, RefundPost, Posting, OwnMove, Answer, Goto, Move, TryRefund
<1>2. /\ DOMAIN refunds' = DOMAIN refunds
      /\ \A q \in DOMAIN refunds : /\ refunds'[q].payment = refunds[q].payment
                                   /\ refunds'[q].amount = refunds[q].amount
                                   /\ refunds'[q].key = refunds[q].key
                                   /\ refunds'[q].status \in {refunds[q].status, "FAILED"}
  <2>1. CASE UNCHANGED refunds
    BY <2>1
  <2>2. CASE SetRefund(r0, "FAILED")
    <3>1. Shape
      BY DEF RInv
    <3> QED
      BY <1>1, <2>2, <3>1, RefundShape
  <2> QED
    BY <2>1, <2>2 DEF RefundPost, TryRefund
<1>3. PICK S : moves \in Seq(S)
  BY DEF RInv, Shape
<1>4. moves' = moves \/ (moves' = Append(moves, m) /\ MovesOf(RefundRef(r0)) = {})
  BY <1>1 DEF RefundPost, PostMove, PostResult, TryRefund
<1>5. /\ \A n \in DOMAIN moves : n \in DOMAIN moves' /\ moves'[n] = moves[n]
      /\ \A n \in DOMAIN moves' \ DOMAIN moves : moves'[n] = m
  <2> HIDE DEF m
  <2> QED
    BY <1>3, <1>4
<1>6. Grown
  BY <1>2, <1>5 DEF Grown
<1>7. \A r \in DOMAIN refunds :
          /\ OwnMove(r)' = OwnMove(r) /\ RefundRef(r)' = RefundRef(r)
          /\ \A n \in MovesOf(RefundRef(r)) : n \in MovesOf(RefundRef(r))' /\ moves'[n] = moves[n]
  BY <1>6, GrownKeeps
<1>8. ASSUME pc'[c] = "r_done"
      PROVE  \E n \in MovesOf(RefundRef(r0))' : moves'[n] = OwnMove(r0)'
  <2>1. PostMove(m) /\ PostResult(m) # "error"
    BY <1>1, <1>8 DEF RefundPost, Answer, Goto, RInv, Shape, TryRefund
  <2>2. CASE MovesOf(RefundRef(r0)) = {}
    <3>1. moves' = Append(moves, m)
      BY <1>1, <2>1, <2>2 DEF PostMove, PostResult
    <3>2. Len(moves) + 1 \in DOMAIN moves' /\ moves'[Len(moves) + 1] = m
      <4> HIDE DEF m
      <4> QED
        BY <1>3, <3>1
    <3>3. Len(moves) + 1 \in MovesOf(RefundRef(r0))'
      BY <1>1, <1>7, <3>2, RefsApart DEF MovesOf
    <3> QED
      BY <1>1, <1>7, <3>2, <3>3
  <2>3. CASE MovesOf(RefundRef(r0)) # {}
    <3>1. PICK n \in MovesOf(RefundRef(r0)) : TRUE
      BY <2>3
    <3>2. Backend = "memory"
      BY <1>1, <2>1, <2>3, BackendAssumption DEF PostResult
    <3>3. n \in DOMAIN moves /\ moves[n].ref = RefundRef(r0)
      BY <3>1 DEF MovesOf
    <3>4. PICK r \in DOMAIN refunds : moves[n] = OwnMove(r)
      <4>1. \A s \in Nat : moves[n].ref # SettlementRef(s)
        BY <1>1, <3>3, RefsApart
      <4> QED
        BY <3>3, <4>1 DEF RInv, InRefund
    <3>5. RefundRef(r) = RefundRef(r0)
      BY <3>3, <3>4 DEF OwnMove, Move
    <3>6. r = r0
      BY <1>1, <3>2, <3>4, <3>5 DEF RInv, InRefund
    <3> QED
      BY <1>1, <1>7, <3>1, <3>4, <3>6
  <2> QED
    BY <2>2, <2>3
<1>9. \A d \in Calls : pc'[d] \in Posting =>
          refunds'[mine'[d]].payment = req'[d].payment /\ refunds'[mine'[d]].amount = req'[d].amount
  <2>1. refunds[r0].payment = req[c].payment /\ refunds[r0].amount = req[c].amount
    BY DEF RInv, InRefund, RefundPost, Posting, TryRefund
  <2> QED
    BY <1>1, <1>2, <1>6, <2>1, OthersPosted
<1>10. \A d \in Calls : pc'[d] = "r_done" =>
          \E n \in MovesOf(RefundRef(mine[d]))' : moves'[n] = OwnMove(mine[d])'
  BY <1>1, <1>6, <1>8, OthersPosted
<1>11. Backend = "memory" => \A r, q \in DOMAIN refunds' : RefundRef(r)' = RefundRef(q)' => r = q
  BY <1>2, <1>7 DEF RInv, InRefund
<1>12. \A n \in DOMAIN moves' : \/ \E s \in Nat : moves'[n].ref = SettlementRef(s)
                                \/ \E r \in DOMAIN refunds' : moves'[n] = OwnMove(r)'
  BY <1>1, <1>2, <1>5, <1>7 DEF RInv, InRefund
<1>13. RefundBooked'
  BY <1>2, <1>6, BookedStays DEF RefundBooked, OwnMove
<1> QED
  BY <1>9, <1>10, <1>11, <1>12, <1>13 DEF InRefund, SettlementRef

LEMMA DoneStep ==
    ASSUME RInv, NEW c \in Calls, RefundDone(c)
    PROVE  InRefund' /\ RefundBooked'
<1>0. PICK r0 : r0 = mine[c]
  OBVIOUS
<1>1. /\ r0 \in DOMAIN refunds /\ UNCHANGED <<moves, mine, req>> /\ pc[c] = "r_done"
      /\ \A d \in Calls \ {c} : pc'[d] = pc[d]
      /\ pc'[c] = "done" /\ SetRefund(r0, "SUCCEEDED")
  BY <1>0 DEF RInv, Shape, RefundDone, Posting, Answer
<1>2. /\ DOMAIN refunds' = DOMAIN refunds
      /\ \A q \in DOMAIN refunds : /\ q # r0 => refunds'[q] = refunds[q]
                                   /\ refunds'[q].payment = refunds[q].payment
                                   /\ refunds'[q].amount = refunds[q].amount
                                   /\ refunds'[q].key = refunds[q].key
  BY <1>1, RefundShape DEF RInv
<1>3. Grown
  BY <1>1, <1>2 DEF Grown
<1>4. \A d \in Calls : pc'[d] \in Posting =>
          refunds'[mine'[d]].payment = req'[d].payment /\ refunds'[mine'[d]].amount = req'[d].amount
  BY <1>1, <1>3, OthersPosted DEF Posting
<1>5. \A d \in Calls : pc'[d] = "r_done" =>
          \E n \in MovesOf(RefundRef(mine[d]))' : moves'[n] = OwnMove(mine[d])'
  BY <1>1, <1>3, OthersPosted
<1>6. Backend = "memory" => \A r, q \in DOMAIN refunds' : RefundRef(r)' = RefundRef(q)' => r = q
  BY <1>2, <1>3, GrownKeeps DEF RInv, InRefund
<1>7. \A n \in DOMAIN moves' : \/ \E s \in Nat : moves'[n].ref = SettlementRef(s)
                               \/ \E r \in DOMAIN refunds' : moves'[n] = OwnMove(r)'
  BY <1>1, <1>2, <1>3, GrownKeeps DEF RInv, InRefund
<1>8. \E n \in MovesOf(RefundRef(r0))' : moves'[n] = OwnMove(r0)'
  <2>1. PICK n \in MovesOf(RefundRef(r0)) : moves[n] = OwnMove(r0)
    BY <1>0, <1>1 DEF RInv, InRefund
  <2> QED
    BY <1>1, <1>3, <2>1, GrownKeeps
<1>9. RefundBooked'
  BY <1>2, <1>3, <1>8, BookedStays DEF RefundBooked, OwnMove
<1> QED
  BY <1>4, <1>5, <1>6, <1>7, <1>9 DEF InRefund, SettlementRef

LEMMA RefundSteps == RInv /\ [Next]_vars => InRefund' /\ RefundBooked'
<1> SUFFICES ASSUME RInv, [Next]_vars PROVE InRefund' /\ RefundBooked'
  OBVIOUS
<1>1. ASSUME NEW c \in Calls, NEW r \in Requests, Begin(c, r) PROVE InRefund' /\ RefundBooked'
  <2>1. /\ UNCHANGED <<moves, refunds>> /\ pc'[c] \notin Posting
        /\ \A d \in Calls \ {c} : pc'[d] = pc[d] /\ mine'[d] = mine[d] /\ req'[d] = req[d]
    BY <1>1, RequestAssumption DEF RInv, Shape, Begin, Answer, Goto, stored, Posting, RequestType
  <2> QED
    BY <2>1, NoRefund
<1>2. ASSUME NEW c \in Calls, Step(c) \/ Stop(c) PROVE InRefund' /\ RefundBooked'
  <2>1. req' = req /\ \A d \in Calls \ {c} : pc'[d] = pc[d]
    BY <1>2, LabelStep DEF RInv
  <2>2. CASE Looks(c)
    BY <2>1, <2>2, LooksAside, NoRefund DEF RInv
  <2>3. CASE RefundCreate(c) /\ RefundInsert(c)
    BY <2>3, InsertStep
  <2>4. CASE RefundPost(c)
    BY <2>4, PostStep
  <2>5. CASE RefundDone(c)
    BY <2>5, DoneStep
  <2>6. CASE SettleCreate(c)
    <3>1. /\ UNCHANGED <<moves, refunds>> /\ pc'[c] \notin Posting
          /\ \A d \in Calls \ {c} : mine'[d] = mine[d]
      BY <2>6 DEF RInv, Shape, SettleCreate, Return, Answer, Posting
    <3> QED
      BY <2>1, <3>1, NoRefund
  <2>7. CASE ProcessRead(c)
    <3>1. /\ UNCHANGED <<moves, refunds>> /\ pc'[c] \notin Posting
          /\ \A d \in Calls \ {c} : mine'[d] = mine[d]
      BY <2>7 DEF RInv, Shape, ProcessRead, Goto, Answer, Posting, stored, TakeUp
    <3> QED
      BY <2>1, <3>1, NoRefund
  <2>8. CASE ProcessFunds(c) \/ ProcessMark(c) \/
             ProviderFails(c) \/ ProviderPays(c) \/ ProcessPost(c) \/ ProcessDone(c)
    <3>1. /\ UNCHANGED <<refunds, mine>> /\ pc'[c] \notin Posting /\ mine[c] \in Nat
      BY <2>8, ProcessSets DEF RInv, Shape, Posting, Working
    <3>2. UNCHANGED moves \/ \E s \in Nat : \E m : moves' = Append(moves, m) /\ m.ref = SettlementRef(s)
      <4>1. CASE ProcessPost(c)
        <5> DEFINE m == Move(SettlementRef(mine[c]), Shop, Pool, TotalOf(mine[c]))
        <5>1. UNCHANGED moves \/ moves' = Append(moves, m)
          BY <4>1 DEF ProcessPost, PostMove, TrySettlement
        <5>2. m.ref = SettlementRef(mine[c])
          BY DEF Move
        <5> HIDE DEF m
        <5> QED
          BY <3>1, <5>1, <5>2
      <4>2. CASE ~ProcessPost(c)
        BY <2>8, <4>2 DEF ProcessFunds, ProcessMark, ProviderFails, ProviderPays, ProcessDone,
             TrySettlement, stored
      <4> QED
        BY <4>1, <4>2
    <3> QED
      BY <2>1, <3>1, <3>2, NoRefund
  <2> QED
    BY <1>2, <2>2, <2>3, <2>4, <2>5, <2>6, <2>7, <2>8
       DEF Step, RefundStep, SettleStep, ProcessStep, Looks, RefundCreate, stored
<1>3. CASE UNCHANGED vars
  <2>1. UNCHANGED <<moves, refunds, pc, req, mine>>
    BY <1>3 DEF vars
  <2>2. InRefund'
    <3>1. Grown
      BY <2>1 DEF Grown
    <3>2. \A r \in DOMAIN refunds :
              /\ OwnMove(r)' = OwnMove(r) /\ RefundRef(r)' = RefundRef(r)
              /\ \A n \in MovesOf(RefundRef(r)) : n \in MovesOf(RefundRef(r))' /\ moves'[n] = moves[n]
      BY <3>1, GrownKeeps
    <3>3. \A d \in Calls : pc'[d] \in Posting =>
              /\ refunds'[mine'[d]].payment = req'[d].payment
              /\ refunds'[mine'[d]].amount = req'[d].amount
      BY <2>1 DEF RInv, InRefund
    <3>4. \A d \in Calls : pc'[d] = "r_done" =>
              \E n \in MovesOf(RefundRef(mine[d]))' : moves'[n] = OwnMove(mine[d])'
      BY <2>1, <3>2 DEF RInv, InRefund, Shape, Posting
    <3>5. Backend = "memory" => \A r, q \in DOMAIN refunds' : RefundRef(r)' = RefundRef(q)' => r = q
      BY <2>1, <3>2 DEF RInv, InRefund
    <3>6. \A n \in DOMAIN moves' : \/ \E s \in Nat : moves'[n].ref = SettlementRef(s)
                                   \/ \E r \in DOMAIN refunds' : moves'[n] = OwnMove(r)'
      BY <2>1, <3>2 DEF RInv, InRefund
    <3> QED
      BY <3>3, <3>4, <3>5, <3>6 DEF InRefund, SettlementRef
  <2>3. RefundBooked'
    BY <2>1 DEF RInv, RefundBooked, RefundRef, MovesOf, Move
  <2> QED
    BY <2>2, <2>3
<1> QED
  BY <1>1, <1>2, <1>3 DEF Next

LEMMA InitShape == Init => Shape
<1> SUFFICES ASSUME Init PROVE Shape
  OBVIOUS
<1>1. /\ moves \in Seq({}) /\ refunds \in Seq(RefundRow) /\ settlements \in Seq(SettlementOf({}))
  BY DEF Init
<1>2. /\ pc \in [Calls -> Labels] /\ \A c \in Calls : pc[c] = "idle"
      /\ mine \in [Calls -> Nat]
  BY DEF Init, Labels, Nothing
<1>3. \E R : req \in [Calls -> R]
  BY DEF Init
<1> QED
  BY <1>1, <1>2, <1>3 DEF Shape, Posting, Working

\* A refund that has succeeded was posted, for its payment and its amount, on
\* whichever repository and however its key is used again.
THEOREM RefundsBooked == Spec => []RefundBooked
<1>1. Init => RInv
  <2> SUFFICES ASSUME Init PROVE RInv
    OBVIOUS
  <2>1. InRefund /\ RefundBooked
    BY DEF Init, InRefund, RefundBooked, Posting
  <2> QED
    BY <2>1, InitShape DEF RInv
<1>2. RInv /\ [Next]_vars => RInv'
  BY ShapeStep, RefundSteps DEF RInv
<1>3. RInv => RefundBooked
  BY DEF RInv
<1> QED
  BY <1>1, <1>2, <1>3, PTL DEF Spec
-----------------------------------------------------------------------------
(* Settlements *)

\* A settlement is in the ledger.
Paid(s) == \E n \in DOMAIN moves : moves[n].ref = SettlementRef(s)

\* What the status of a settlement says of the ledger.
Booked(s) ==
    /\ settlements[s].status = "SUCCEEDED" => Paid(s)
    /\ settlements[s].status \in {"PENDING", "FAILED"} /\ s \notin doubtful => ~Paid(s)

\* Where a call that works on a settlement is, its status and the ledger agree.
InStep(c) ==
    /\ pc[c] \in Working /\ mine[c] \notin doubtful =>
          /\ pc[c] \in {"p_funds", "p_mark"} => settlements[mine[c]].status = "PENDING"
          /\ pc[c] \in {"p_pay", "p_post", "p_done"} => settlements[mine[c]].status = "PROCESSING"
          /\ pc[c] \in {"p_pay", "p_post"} => ~Paid(mine[c])
    /\ pc[c] = "p_done" => Paid(mine[c])

\* Two calls that work on one settlement make it doubtful.
Alone ==
    \A c, d \in Calls :
        pc[c] \in Working /\ pc[d] \in Working /\ mine[c] = mine[d] /\ mine[c] \notin doubtful => c = d

\* The payment of a settlement is posted after its status has said so, by the
\* one call that works on it, and before the status says it is done.
InProcess ==
    /\ Alone
    /\ \A c \in Calls : InStep(c)
    /\ \A s \in Nat : Paid(s) => s \in DOMAIN settlements
    /\ \A s \in DOMAIN settlements : Booked(s)

PInv == Shape /\ InProcess

LEMMA PaidMoves ==
    ASSUME NEW s \in Nat
    PROVE  Paid(s) <=> MovesOf(SettlementRef(s)) # {}
BY RefsApart DEF Paid, MovesOf

LEMMA PaidGrows ==
    ASSUME Shape, NEW m, moves' = moves \/ moves' = Append(moves, m)
    PROVE  \A s \in Nat : /\ m.ref # SettlementRef(s) => (Paid(s)' <=> Paid(s))
                          /\ moves' = moves => (Paid(s)' <=> Paid(s))
                          /\ moves' = Append(moves, m) /\ m.ref = SettlementRef(s) => Paid(s)'
<1>1. PICK S : moves \in Seq(S)
  BY DEF Shape
<1>2. CASE moves' = moves
  <2>1. \A s : Paid(s)' <=> Paid(s)
    BY <1>2 DEF Paid, SettlementRef
  <2> QED
    BY <1>1, <1>2, <2>1 DEF Paid, SettlementRef
<1>3. CASE moves' = Append(moves, m)
  <2>1. /\ DOMAIN moves' = DOMAIN moves \cup {Len(moves) + 1} /\ moves'[Len(moves) + 1] = m
        /\ \A n \in DOMAIN moves : moves'[n] = moves[n]
        /\ Append(moves, m) # moves
    BY <1>1, <1>3
  <2> QED
    BY <1>3, <2>1 DEF Paid, SettlementRef
<1> QED
  BY <1>2, <1>3

\* A step of a call touches at most the settlement s0, which no other call works
\* on unless it is doubtful.
LEMMA ProcessFrame ==
    ASSUME PInv, NEW c \in Calls, NEW s0 \in Nat,
           \A d \in Calls \ {c} : pc'[d] = pc[d] /\ mine'[d] = mine[d],
           doubtful \subseteq doubtful',
           s0 \in DOMAIN settlements => pc[c] \in Working /\ s0 = mine[c],
           DOMAIN settlements \subseteq DOMAIN settlements', DOMAIN settlements' \subseteq Nat,
           \A s \in DOMAIN settlements \ {s0} : settlements'[s].status = settlements[s].status,
           \A s \in Nat \ {s0} : Paid(s)' <=> Paid(s),
           Paid(s0) => Paid(s0)',
           \A s \in DOMAIN settlements' :
              s = s0 \/ s \notin DOMAIN settlements => Booked(s)',
           Paid(s0)' => s0 \in DOMAIN settlements',
           \A d \in Calls \ {c} : pc'[c] \in Working /\ pc[d] \in Working /\ mine'[c] = mine[d] =>
              mine[d] \in doubtful',
           InStep(c)'
    PROVE  InProcess'
<1>1. Alone'
  BY DEF PInv, InProcess, Alone
<1>2. ASSUME NEW d \in Calls \ {c} PROVE InStep(d)'
  <2>1. InStep(d)
    BY DEF PInv, InProcess
  <2>2. CASE pc[d] \in Working
    <3>1. mine[d] \in DOMAIN settlements /\ mine[d] \in Nat
      BY <2>2 DEF PInv, Shape
    <3>2. PICK t \in Nat : t = mine[d] /\ mine'[d] = t
      BY <3>1
    <3>3. Paid(t) => Paid(t)'
      OBVIOUS
    <3>4. ASSUME t \notin doubtful'
          PROVE  settlements'[t].status = settlements[t].status /\ (Paid(t)' <=> Paid(t))
      <4>1. t # s0
        BY <2>2, <3>1, <3>2, <3>4 DEF PInv, InProcess, Alone
      <4> QED
        BY <3>1, <3>2, <4>1
    <3>5. /\ pc[d] \in Working /\ t \notin doubtful =>
                /\ pc[d] \in {"p_funds", "p_mark"} => settlements[t].status = "PENDING"
                /\ pc[d] \in {"p_pay", "p_post", "p_done"} => settlements[t].status = "PROCESSING"
                /\ pc[d] \in {"p_pay", "p_post"} => ~Paid(t)
          /\ pc[d] = "p_done" => Paid(t)
      BY <2>1, <3>2 DEF InStep, Paid, SettlementRef
    <3>6. /\ pc'[d] \in Working /\ t \notin doubtful' =>
                /\ pc'[d] \in {"p_funds", "p_mark"} => settlements'[t].status = "PENDING"
                /\ pc'[d] \in {"p_pay", "p_post", "p_done"} => settlements'[t].status = "PROCESSING"
                /\ pc'[d] \in {"p_pay", "p_post"} => ~Paid(t)'
          /\ pc'[d] = "p_done" => Paid(t)'
      BY <3>3, <3>4, <3>5
    <3> QED
      BY <3>2, <3>6 DEF InStep, Paid, SettlementRef
  <2>3. CASE pc[d] \notin Working
    BY <2>3 DEF InStep, Working
  <2> QED
    BY <2>2, <2>3
<1>3. \A s \in Nat : Paid(s)' => s \in DOMAIN settlements'
  BY DEF PInv, InProcess
<1>4. \A s \in DOMAIN settlements' : Booked(s)'
  BY DEF PInv, InProcess, Booked
<1> QED
  BY <1>1, <1>2, <1>3, <1>4 DEF InProcess

\* A step that touches no settlement.
LEMMA NoProcess ==
    ASSUME PInv, NEW c \in Calls,
           \A d \in Calls \ {c} : pc'[d] = pc[d] /\ mine'[d] = mine[d],
           doubtful \subseteq doubtful',
           DOMAIN settlements \subseteq DOMAIN settlements', DOMAIN settlements' \subseteq Nat \ {0},
           \A s \in DOMAIN settlements : settlements'[s].status = settlements[s].status,
           \A s \in DOMAIN settlements' \ DOMAIN settlements : settlements'[s].status = "PENDING",
           \A s \in Nat : Paid(s)' <=> Paid(s),
           \A d \in Calls \ {c} : pc'[c] \in Working /\ pc[d] \in Working /\ mine'[c] = mine[d] =>
              mine[d] \in doubtful',
           InStep(c)'
    PROVE  InProcess'
<1>1. 0 \notin DOMAIN settlements' /\ 0 \notin DOMAIN settlements
  OBVIOUS
<1>2. \A s \in DOMAIN settlements' : s \notin DOMAIN settlements => Booked(s)'
  BY DEF PInv, InProcess, Booked
<1>3. Paid(0)' => 0 \in DOMAIN settlements'
  BY <1>1 DEF PInv, InProcess
<1> QED
  BY <1>1, <1>2, <1>3, ProcessFrame, 0 \in Nat

\* The settlements after a status was set.
LEMMA StatusSet ==
    ASSUME Shape, NEW s \in DOMAIN settlements, NEW status \in SettlementStatuses,
           SetSettlement(s, status)
    PROVE  /\ DOMAIN settlements' = DOMAIN settlements /\ settlements'[s].status = status
           /\ \A t \in DOMAIN settlements \ {s} : settlements'[t].status = settlements[t].status
BY StatusShape

LEMMA SettlementsDomain ==
    ASSUME Shape
    PROVE  DOMAIN settlements \subseteq Nat \ {0}
<1>1. PICK I : settlements \in Seq(SettlementOf(I))
  BY DEF Shape
<1> QED
  BY <1>1

\* A step that leaves the settlements and the calls that work on them alone.
LEMMA AsideProcess ==
    ASSUME PInv, NEW c \in Calls, UNCHANGED <<settlements, doubtful>>, pc'[c] \notin Working,
           \A d \in Calls \ {c} : pc'[d] = pc[d] /\ mine'[d] = mine[d],
           \A s \in Nat : Paid(s)' <=> Paid(s)
    PROVE  InProcess'
<1>1. InStep(c)'
  BY DEF InStep, Working
<1> QED
  BY <1>1, NoProcess, SettlementsDomain DEF PInv

LEMMA BeginProcess ==
    ASSUME PInv, NEW c \in Calls, NEW r \in Requests, Begin(c, r)
    PROVE  InProcess'
<1>1. /\ UNCHANGED <<moves, settlements, mine, doubtful>> /\ pc'[c] \notin Working
      /\ \A d \in Calls \ {c} : pc'[d] = pc[d]
  BY RequestAssumption DEF PInv, Shape, Begin, Answer, Goto, stored, Working, RequestType
<1>2. \A s \in Nat : Paid(s)' <=> Paid(s)
  BY <1>1, PaidGrows DEF PInv
<1> QED
  BY <1>1, <1>2, AsideProcess

LEMMA OtherProcess ==
    ASSUME PInv, NEW c \in Calls,
           Looks(c) \/ RefundInsert(c) \/ RefundPost(c) \/ RefundDone(c), Step(c) \/ Stop(c)
    PROVE  InProcess'
<1>1. \A d \in Calls \ {c} : pc'[d] = pc[d]
  BY LabelStep DEF PInv
<1>2. /\ UNCHANGED <<settlements, doubtful>> /\ pc'[c] \notin Working
      /\ \A d \in Calls \ {c} : mine'[d] = mine[d]
  <2>1. CASE Looks(c)
    BY <2>1, LooksAside DEF PInv
  <2>2. CASE RefundInsert(c)
    BY <2>2 DEF PInv, Shape, RefundInsert, Goto, Working
  <2>3. CASE RefundPost(c)
    BY <2>3 DEF PInv, Shape, RefundPost, Goto, Answer, Working
  <2>4. CASE RefundDone(c)
    BY <2>4 DEF PInv, Shape, RefundDone, Answer, Working
  <2> QED
    BY <2>1, <2>2, <2>3, <2>4
<1>3. \A s \in Nat : Paid(s)' <=> Paid(s)
  <2>1. CASE UNCHANGED moves
    BY <2>1, PaidGrows DEF PInv
  <2>2. CASE RefundPost(c)
    <3> DEFINE m == Move(RefundRef(mine[c]), Shop, req[c].payment, req[c].amount)
    <3>1. m.ref = RefundRef(mine[c]) /\ mine[c] \in DOMAIN refunds
      BY <2>2 DEF Move, PInv, Shape, RefundPost, Posting
    <3>2. \A s \in Nat : m.ref # SettlementRef(s)
      BY <3>1, RefsApart
    <3>3. moves' = moves \/ moves' = Append(moves, m)
      BY <2>2 DEF RefundPost, PostMove
    <3> HIDE DEF m
    <3> QED
      BY <3>2, <3>3, PaidGrows DEF PInv
  <2> QED
    BY <2>1, <2>2, LooksAside DEF PInv, RefundInsert, RefundDone
<1> QED
  BY <1>1, <1>2, <1>3, AsideProcess

LEMMA CreateProcess ==
    ASSUME PInv, NEW c \in Calls, SettleCreate(c)
    PROVE  InProcess'
<1>1. \A d \in Calls \ {c} : pc'[d] = pc[d]
  BY LabelStep DEF PInv, Step, SettleStep
<1>2. /\ pc'[c] \notin Working /\ UNCHANGED moves /\ doubtful \subseteq doubtful'
      /\ \A d \in Calls \ {c} : mine'[d] = mine[d]
  BY DEF SettleCreate, PInv, Shape, Return, Answer, Working
<1>3. /\ DOMAIN settlements \subseteq DOMAIN settlements' /\ DOMAIN settlements' \subseteq Nat \ {0}
      /\ \A s \in DOMAIN settlements : settlements'[s].status = settlements[s].status
      /\ \A s \in DOMAIN settlements' \ DOMAIN settlements : settlements'[s].status = "PENDING"
  <2>1. PICK I : settlements' \in Seq(SettlementOf(I))
    BY CreateShape DEF PInv
  <2>2. DOMAIN settlements' \subseteq Nat \ {0}
    BY <2>1
  <2> QED
    BY <2>2, CreateShape DEF PInv
<1>4. InStep(c)'
  BY <1>2 DEF InStep, Working
<1>5. \A s \in Nat : Paid(s)' <=> Paid(s)
  BY <1>2, PaidGrows DEF PInv
<1> QED
  BY <1>1, <1>2, <1>3, <1>4, <1>5, NoProcess

LEMMA ReadProcess ==
    ASSUME PInv, NEW c \in Calls, ProcessRead(c)
    PROVE  InProcess'
<1>1. \A d \in Calls \ {c} : pc'[d] = pc[d]
  BY LabelStep DEF PInv, Step, ProcessStep
<1>2. /\ UNCHANGED <<moves, settlements>> /\ doubtful \subseteq doubtful'
      /\ pc'[c] \in {"done", "p_funds"} /\ \A d \in Calls \ {c} : mine'[d] = mine[d]
      /\ pc'[c] = "p_funds" => settlements[mine'[c]].status = "PENDING"
  BY DEF ProcessRead, TakeUp, PInv, Shape, Answer, Goto
<1>3. ASSUME NEW d \in Calls \ {c}, pc'[c] \in Working, pc[d] \in Working, mine'[c] = mine[d]
      PROVE  mine[d] \in doubtful'
  <2>1. AtWork(d, mine'[c])
    BY <1>3 DEF AtWork, Working
  <2>2. TakeUp(c, mine'[c])
    BY <1>3 DEF ProcessRead, Answer, Working, PInv, Shape
  <2> QED
    BY <1>3, <2>1, <2>2 DEF TakeUp
<1>4. InStep(c)'
  BY <1>2 DEF InStep, Working
<1>5. \A s \in Nat : Paid(s)' <=> Paid(s)
  BY <1>2, PaidGrows DEF PInv
<1> QED
  BY <1>1, <1>2, <1>3, <1>4, <1>5, NoProcess, SettlementsDomain DEF PInv

\* What each step of the processing of the settlement s0 leaves behind.
LEMMA ProcessEffect ==
    ASSUME PInv, NEW c \in Calls, NEW s0 \in DOMAIN settlements, s0 = mine[c],
           \/ ProcessFunds(c) \/ ProcessMark(c) \/ ProviderFails(c) \/ ProviderPays(c)
           \/ ProcessPost(c) \/ ProcessDone(c)
    PROVE  /\ \A s \in Nat \ {s0} : Paid(s)' <=> Paid(s)
           /\ Paid(s0) => Paid(s0)'
           /\ doubtful \subseteq doubtful'
           /\ InStep(c)' /\ Booked(s0)'
<1> USE DEF Answer, Goto, Working
<1>1. /\ UNCHANGED mine /\ s0 \in Nat /\ pc[c] \in Working /\ doubtful \subseteq doubtful'
  BY ProcessSets, SettlementsDomain DEF PInv, Shape, ProcessFunds, ProcessMark, ProviderFails,
     ProviderPays, ProcessPost, ProcessDone, stored
<1>2. /\ pc[c] \in Working /\ s0 \notin doubtful =>
            /\ pc[c] \in {"p_funds", "p_mark"} => settlements[s0].status = "PENDING"
            /\ pc[c] \in {"p_pay", "p_post", "p_done"} => settlements[s0].status = "PROCESSING"
            /\ ~(pc[c] = "p_done") => ~Paid(s0)
      /\ pc[c] = "p_done" => Paid(s0)
      /\ Booked(s0)
  <2>1. InStep(c) /\ Booked(s0)
    BY DEF PInv, InProcess
  <2> QED
    BY <2>1 DEF InStep, Booked, Paid, SettlementRef
<1>3. ASSUME UNCHANGED moves PROVE \A s \in Nat : Paid(s)' <=> Paid(s)
  BY <1>3, PaidGrows DEF PInv
<1>4. ASSUME /\ pc'[c] \in Working /\ s0 \notin doubtful' =>
                   /\ pc'[c] \in {"p_funds", "p_mark"} => settlements'[s0].status = "PENDING"
                   /\ pc'[c] \in {"p_pay", "p_post", "p_done"} =>
                         settlements'[s0].status = "PROCESSING"
                   /\ pc'[c] \in {"p_pay", "p_post"} => ~Paid(s0)'
             /\ pc'[c] = "p_done" => Paid(s0)'
      PROVE  InStep(c)'
  BY <1>1, <1>4 DEF InStep, Paid, SettlementRef
<1>5. CASE ProcessFunds(c)
  <2>1. /\ pc[c] = "p_funds" /\ UNCHANGED <<moves, doubtful>>
        /\ \/ pc'[c] = "done" /\ (SetSettlement(s0, "FAILED") \/ UNCHANGED settlements)
           \/ pc'[c] = "p_mark" /\ UNCHANGED settlements
    BY <1>5 DEF ProcessFunds, TrySettlement, PInv, Shape
  <2>2. settlements'[s0].status = settlements[s0].status
          \/ (pc'[c] = "done" /\ settlements'[s0].status = "FAILED")
    BY <2>1, StatusSet DEF PInv, SettlementStatuses
  <2> QED
    BY <1>1, <1>2, <1>3, <1>4, <2>1, <2>2 DEF Booked
<1>6. CASE ProcessMark(c)
  <2>1. /\ pc[c] = "p_mark" /\ pc'[c] = "p_pay" /\ UNCHANGED moves
        /\ \/ SetSettlement(s0, "PROCESSING") /\ UNCHANGED doubtful
           \/ UNCHANGED settlements /\ s0 \in doubtful'
    BY <1>6 DEF ProcessMark, PInv, Shape
  <2>2. \/ settlements'[s0].status = "PROCESSING" /\ UNCHANGED doubtful
        \/ settlements'[s0].status = settlements[s0].status /\ s0 \in doubtful'
    BY <2>1, StatusSet DEF PInv, SettlementStatuses
  <2> QED
    BY <1>1, <1>2, <1>3, <1>4, <2>1, <2>2 DEF Booked
<1>7. CASE ProviderFails(c)
  <2>1. /\ pc[c] = "p_pay" /\ UNCHANGED <<moves, doubtful>> /\ pc'[c] = "done"
        /\ SetSettlement(s0, "FAILED") \/ UNCHANGED settlements
    BY <1>7 DEF ProviderFails, TrySettlement, PInv, Shape
  <2>2. settlements'[s0].status \in {settlements[s0].status, "FAILED"}
    BY <2>1, StatusSet DEF PInv, SettlementStatuses
  <2> QED
    BY <1>1, <1>2, <1>3, <1>4, <2>1, <2>2 DEF Booked
<1>8. CASE ProviderPays(c)
  <2>1. /\ pc[c] = "p_pay" /\ UNCHANGED <<moves, doubtful, settlements>> /\ pc'[c] = "p_post"
    BY <1>8 DEF ProviderPays, stored, PInv, Shape
  <2> QED
    BY <1>1, <1>2, <1>3, <1>4, <2>1 DEF Booked
<1>9. CASE ProcessPost(c)
  <2> DEFINE m == Move(SettlementRef(s0), Shop, Pool, TotalOf(s0))
  <2>1. m.ref = SettlementRef(s0)
    BY DEF Move
  <2>2. /\ pc[c] = "p_post" /\ UNCHANGED doubtful
        /\ \/ /\ moves' = Append(moves, m) /\ UNCHANGED settlements /\ pc'[c] = "p_done"
           \/ /\ UNCHANGED <<moves, settlements>> /\ pc'[c] = "p_done" /\ MovesOf(m.ref) # {}
           \/ /\ UNCHANGED moves /\ pc'[c] = "done"
              /\ SetSettlement(s0, "FAILED") \/ UNCHANGED settlements
    BY <1>9 DEF ProcessPost, TrySettlement, PostMove, PostResult, PInv, Shape
  <2>3. \A s \in Nat \ {s0} : m.ref # SettlementRef(s)
    BY <1>1, <2>1, RefsApart
  <2>4. settlements[s0].status \in {"PENDING", "FAILED"} => s0 \in doubtful
    BY <1>2, <2>2
  <2> HIDE DEF m
  <2>5. CASE moves' = Append(moves, m) /\ UNCHANGED settlements /\ pc'[c] = "p_done"
    <3>1. Paid(s0)' /\ \A s \in Nat \ {s0} : Paid(s)' <=> Paid(s)
      BY <1>1, <2>1, <2>3, <2>5, PaidGrows DEF PInv
    <3> QED
      BY <1>1, <1>2, <1>4, <2>2, <2>4, <2>5, <3>1 DEF Booked
  <2>6. CASE UNCHANGED <<moves, settlements>> /\ pc'[c] = "p_done" /\ MovesOf(m.ref) # {}
    <3>1. Paid(s0)
      BY <1>1, <2>1, <2>6, PaidMoves
    <3> QED
      BY <1>1, <1>2, <1>3, <1>4, <2>2, <2>4, <2>6, <3>1 DEF Booked
  <2>7. CASE UNCHANGED moves /\ pc'[c] = "done" /\ (SetSettlement(s0, "FAILED") \/ UNCHANGED settlements)
    <3>1. settlements'[s0].status \in {settlements[s0].status, "FAILED"}
      BY <2>7, StatusSet DEF PInv, SettlementStatuses
    <3> QED
      BY <1>1, <1>2, <1>3, <1>4, <2>2, <2>7, <3>1 DEF Booked
  <2> QED
    BY <2>2, <2>5, <2>6, <2>7
<1>10. CASE ProcessDone(c)
  <2>1. pc[c] = "p_done" /\ UNCHANGED <<moves, doubtful>> /\ SetSettlement(s0, "SUCCEEDED") /\ pc'[c] = "done"
    BY <1>10 DEF ProcessDone, PInv, Shape
  <2>2. settlements'[s0].status = "SUCCEEDED"
    BY <2>1, StatusSet DEF PInv, SettlementStatuses
  <2> QED
    BY <1>1, <1>2, <1>3, <1>4, <2>1, <2>2 DEF Booked
<1> QED
  BY <1>5, <1>6, <1>7, <1>8, <1>9, <1>10

LEMMA WorkProcess ==
    ASSUME PInv, NEW c \in Calls,
           \/ ProcessFunds(c) \/ ProcessMark(c) \/ ProviderFails(c) \/ ProviderPays(c)
           \/ ProcessPost(c) \/ ProcessDone(c)
    PROVE  InProcess'
<1>1. PICK s0 \in DOMAIN settlements : s0 = mine[c]
  BY ProcessSets DEF PInv
<1>2. /\ UNCHANGED mine /\ \A d \in Calls \ {c} : pc'[d] = pc[d]
      /\ pc[c] \in Working
  BY LabelStep, ProcessSets DEF PInv, Step, ProcessStep
<1>3. /\ DOMAIN settlements' = DOMAIN settlements /\ DOMAIN settlements \subseteq Nat
      /\ \A s \in DOMAIN settlements \ {s0} : settlements'[s].status = settlements[s].status
  BY <1>1, ProcessSets, StatusSet, SettlementsDomain DEF PInv
<1>4. /\ \A s \in Nat \ {s0} : Paid(s)' <=> Paid(s)
      /\ Paid(s0) => Paid(s0)'
      /\ doubtful \subseteq doubtful'
      /\ InStep(c)' /\ Booked(s0)'
  BY <1>1, ProcessEffect
<1>5. \A d \in Calls \ {c} : pc'[c] \in Working /\ pc[d] \in Working /\ mine'[c] = mine[d] =>
          mine[d] \in doubtful'
  BY <1>2, <1>4 DEF PInv, InProcess, Alone
<1>6. \A s \in DOMAIN settlements' : s = s0 \/ s \notin DOMAIN settlements => Booked(s)'
  BY <1>3, <1>4
<1> QED
  BY <1>1, <1>2, <1>3, <1>4, <1>5, <1>6, ProcessFrame

LEMMA ProcessStays ==
    ASSUME PInv, [Next]_vars
    PROVE  InProcess'
<1>1. ASSUME NEW c \in Calls, NEW r \in Requests, Begin(c, r) PROVE InProcess'
  BY <1>1, BeginProcess
<1>2. ASSUME NEW c \in Calls, Step(c) \/ Stop(c) PROVE InProcess'
  BY <1>2, Kinds, OtherProcess, CreateProcess, ReadProcess, WorkProcess DEF ProcessStep
<1>3. CASE UNCHANGED vars
  <2>1. UNCHANGED <<moves, settlements, pc, mine, doubtful>>
    BY <1>3 DEF vars
  <2>2. (\A s \in Nat : Paid(s)' <=> Paid(s)) /\ DOMAIN settlements \subseteq Nat
    BY <2>1, PaidGrows, SettlementsDomain DEF PInv
  <2>3. Alone'
    BY <2>1 DEF PInv, InProcess, Alone
  <2>4. ASSUME NEW d \in Calls PROVE InStep(d)'
    BY <2>1 DEF PInv, InProcess, InStep, Paid, SettlementRef
  <2>5. \A s \in DOMAIN settlements' : Booked(s)'
    BY <2>1, <2>2 DEF PInv, InProcess, Booked
  <2> QED
    BY <2>1, <2>2, <2>3, <2>4, <2>5 DEF PInv, InProcess
<1> QED
  BY <1>1, <1>2, <1>3 DEF Next

LEMMA PInvInit == Init => PInv
<1> SUFFICES ASSUME Init PROVE PInv
  OBVIOUS
<1>1. \A c \in Calls : pc[c] \notin Working
  BY DEF Init, Working
<1>2. \A s \in Nat : ~Paid(s)
  BY DEF Init, Paid
<1>3. DOMAIN settlements = {}
  BY DEF Init
<1> QED
  BY <1>1, <1>2, <1>3, InitShape DEF PInv, InProcess, Alone, InStep, Working
-----------------------------------------------------------------------------
(* What the tables add up to: the folds are totals. *)

\* What each settlement takes of the payment p, and what s takes of each payment.
ItemsOf(rows, p) == [s \in DOMAIN rows |-> rows[s].items[p]]

LEMMA ItemsChoice ==
    ASSUME NEW rows, NEW p, NEW S \in SUBSET DOMAIN rows, IsFiniteSet(S)
    PROVE  (CHOOSE g : g = [s \in SUBSET S |->
               IF s = {} THEN 0 ELSE rows[Pick(s)].items[p] + g[s \ {Pick(s)}]])[S]
             = Total(ItemsOf(rows, p), S)
<1> DEFINE f == ItemsOf(rows, p)
           Q(g) == g = [s \in SUBSET S |->
                          IF s = {} THEN 0 ELSE rows[Pick(s)].items[p] + g[s \ {Pick(s)}]]
           G == CHOOSE g : Q(g)
<1>1. \A s \in SUBSET S : s # {} => f[Pick(s)] = rows[Pick(s)].items[p]
  BY PickIn DEF ItemsOf
<1> HIDE DEF f
<1>2. \A g : Q(g) <=> IsSum(g, f, S)
  BY <1>1 DEF IsSum
<1>3. IsSum(G, f, S)
  <2>1. Q(G)
    BY <1>2, SumExists
  <2> QED
    BY <1>2, <2>1
<1> HIDE DEF G
<1>4. S \in SUBSET S
  OBVIOUS
<1>5. G[S] = Total(f, S)
  BY <1>3, <1>4, TotalIsSum
<1> QED
  BY <1>5 DEF f, G

LEMMA ItemsFold ==
    ASSUME NEW p, NEW S \in SUBSET DOMAIN settlements, IsFiniteSet(S)
    PROVE  Sum(S, LAMBDA s : settlements[s].items[p]) = Total(ItemsOf(settlements, p), S)
<1>1. Sum(S, LAMBDA s : settlements[s].items[p]) = (CHOOSE g : g = [s \in SUBSET S |->
           IF s = {} THEN 0 ELSE settlements[Pick(s)].items[p] + g[s \ {Pick(s)}]])[S]
  BY DEF Sum, MapThenSumSet, MapThenFoldSet, Pick
<1> QED
  BY <1>1, ItemsChoice

LEMMA TotalOfFold ==
    ASSUME NEW s
    PROVE  TotalOf(s) = Total([p \in Payments |-> settlements[s].items[p]], Payments)
<1> DEFINE f == [p \in Payments |-> settlements[s].items[p]]
           Q(g) == g = [S \in SUBSET Payments |->
                          IF S = {} THEN 0 ELSE settlements[s].items[Pick(S)] + g[S \ {Pick(S)}]]
           G == CHOOSE g : Q(g)
<1>0. IsFiniteSet(Payments)
  BY PaymentAssumption
<1>1. \A S \in SUBSET Payments : S # {} => f[Pick(S)] = settlements[s].items[Pick(S)]
  BY PickIn
<1> HIDE DEF f
<1>2. \A g : Q(g) <=> IsSum(g, f, Payments)
  BY <1>1 DEF IsSum
<1>3. IsSum(G, f, Payments)
  <2>1. Q(G)
    BY <1>0, <1>2, SumExists
  <2> QED
    BY <1>2, <2>1
<1>4. TotalOf(s) = G[Payments]
  BY DEF TotalOf, Sum, MapThenSumSet, MapThenFoldSet, Pick
<1> HIDE DEF G
<1>5. Payments \in SUBSET Payments
  OBVIOUS
<1>6. G[Payments] = Total(f, Payments)
  BY <1>0, <1>3, <1>5, TotalIsSum
<1> QED
  BY <1>4, <1>6 DEF f

\* The settleable parts of the first k payments scanned.
LEMMA NetFold ==
    ASSUME NEW c, NEW k \in Nat
    PROVE  NetBefore(c, k + 1) = Total([j \in 1..k |-> Net(c, j)], 1..k)
<1> DEFINE D == 1..k
           f == [j \in D |-> Net(c, j)]
           Q(g) == g = [S \in SUBSET D |-> IF S = {} THEN 0 ELSE Net(c, Pick(S)) + g[S \ {Pick(S)}]]
           G == CHOOSE g : Q(g)
<1>0. IsFiniteSet(D)
  BY FS_Interval
<1>range. 1..((k + 1) - 1) = D
  OBVIOUS
<1>1. \A S \in SUBSET D : S # {} => f[Pick(S)] = Net(c, Pick(S))
  BY PickIn
<1> HIDE DEF f, D
<1>2. \A g : Q(g) <=> IsSum(g, f, D)
  BY <1>1 DEF IsSum
<1>3. IsSum(G, f, D)
  <2>1. Q(G)
    BY <1>0, <1>2, SumExists
  <2> QED
    BY <1>2, <2>1
<1>4. NetBefore(c, k + 1) = G[D]
  BY <1>range DEF NetBefore, Sum, MapThenSumSet, MapThenFoldSet, Pick
<1> HIDE DEF G
<1>5. D \in SUBSET D
  OBVIOUS
<1>6. G[D] = Total(f, D)
  BY <1>0, <1>3, <1>5, TotalIsSum
<1> QED
  BY <1>4, <1>6 DEF f, D

LEMMA TakeFold ==
    ASSUME NEW c, NEW S \in SUBSET DOMAIN scan[c], IsFiniteSet(S)
    PROVE  Sum(S, LAMBDA k : Take(c, k)) = Total([k \in DOMAIN scan[c] |-> Take(c, k)], S)
<1> DEFINE f == [k \in DOMAIN scan[c] |-> Take(c, k)]
           Q(g) == g = [s \in SUBSET S |-> IF s = {} THEN 0 ELSE Take(c, Pick(s)) + g[s \ {Pick(s)}]]
           G == CHOOSE g : Q(g)
<1>1. \A s \in SUBSET S : s # {} => f[Pick(s)] = Take(c, Pick(s))
  BY PickIn
<1> HIDE DEF f
<1>2. \A g : Q(g) <=> IsSum(g, f, S)
  BY <1>1 DEF IsSum
<1>3. IsSum(G, f, S)
  <2>1. Q(G)
    BY <1>2, SumExists
  <2> QED
    BY <1>2, <2>1
<1>4. Sum(S, LAMBDA k : Take(c, k)) = G[S]
  BY DEF Sum, MapThenSumSet, MapThenFoldSet, Pick
<1> HIDE DEF G
<1>5. S \in SUBSET S
  OBVIOUS
<1>6. G[S] = Total(f, S)
  BY <1>3, <1>5, TotalIsSum
<1> QED
  BY <1>4, <1>6 DEF f

ScanRow == [payment : Payments, net : Int, read : {"no", "yes"}]

\* The rows that count.
Counted(rows, p) == {r \in DOMAIN rows : /\ rows[r].payment = p
                                         /\ rows[r].status \in {"REQUESTED", "SUCCEEDED"}}
Live(rows) == {s \in DOMAIN rows : rows[s].status \in {"PENDING", "PROCESSING", "SUCCEEDED"}}

LEMMA RefundedFold ==
    ASSUME refunds \in Seq(Refund), NEW p
    PROVE  /\ IsFiniteSet(DOMAIN refunds) /\ IsFiniteSet(Counted(refunds, p))
           /\ Counted(refunds, p) \in SUBSET DOMAIN refunds
           /\ \A r \in DOMAIN refunds : Amounts(refunds)[r] = refunds[r].amount /\ refunds[r].amount \in Nat
           /\ Refunded(p) = Total(Amounts(refunds), Counted(refunds, p))
<1> DEFINE S == Counted(refunds, p)
<1>1. IsFiniteSet(DOMAIN refunds) /\ IsFiniteSet(S) /\ S \in SUBSET DOMAIN refunds
  BY RowsFinite, FS_Subset DEF Counted
<1>2. \A r \in DOMAIN refunds : refunds[r].amount \in Nat
  <2>1. \A r \in DOMAIN refunds : refunds[r] \in Refund
    BY RowIn
  <2>2. \A x \in Refund : x.amount \in Nat
    BY DEF Refund
  <2> QED
    BY <2>1, <2>2
<1>3. Refunded(p) = (CHOOSE g : g = [s \in SUBSET S |->
           IF s = {} THEN 0 ELSE refunds[Pick(s)].amount + g[s \ {Pick(s)}]])[S]
  BY DEF Refunded, Sum, MapThenSumSet, MapThenFoldSet, Pick, Counted
<1> QED
  BY <1>1, <1>2, <1>3, AmountFold DEF Amounts

\* The same after a step.
LEMMA RefundedNext ==
    ASSUME refunds' \in Seq(Refund), NEW p
    PROVE  Refunded(p)' = Total(Amounts(refunds'), Counted(refunds', p))
<1> DEFINE S == Counted(refunds', p)
<1>1. IsFiniteSet(S) /\ S \in SUBSET DOMAIN refunds'
  BY RowsFinite, FS_Subset DEF Counted
<1>2. Refunded(p)' = (CHOOSE g : g = [s \in SUBSET S |->
           IF s = {} THEN 0 ELSE refunds'[Pick(s)].amount + g[s \ {Pick(s)}]])[S]
  BY DEF Refunded, Sum, MapThenSumSet, MapThenFoldSet, Pick, Counted
<1> QED
  BY <1>1, <1>2, AmountFold

LEMMA SettledFold ==
    ASSUME settlements \in Seq(Settlement), NEW p \in Payments
    PROVE  /\ IsFiniteSet(DOMAIN settlements) /\ IsFiniteSet(Live(settlements))
           /\ Live(settlements) \in SUBSET DOMAIN settlements
           /\ \A s \in DOMAIN settlements : settlements[s].items \in [Payments -> Nat]
           /\ \A s \in DOMAIN settlements : ItemsOf(settlements, p)[s] \in Nat
           /\ Settled(p) = Total(ItemsOf(settlements, p), Live(settlements))
<1> DEFINE S == Live(settlements)
<1>1. IsFiniteSet(DOMAIN settlements) /\ IsFiniteSet(S) /\ S \in SUBSET DOMAIN settlements
  BY RowsFinite, FS_Subset DEF Live
<1>2. \A s \in DOMAIN settlements : settlements[s].items \in [Payments -> Nat]
  <2>1. \A s \in DOMAIN settlements : settlements[s] \in Settlement
    BY RowIn
  <2>2. \A x \in Settlement : x.items \in [Payments -> Nat]
    BY DEF Settlement
  <2> QED
    BY ONLY <2>1, <2>2
<1>3. Settled(p) = Sum(S, LAMBDA s : settlements[s].items[p])
  BY DEF Settled, Live
<1> HIDE DEF S
<1>4. Settled(p) = Total(ItemsOf(settlements, p), S)
  BY <1>1, <1>3, ItemsFold
<1> QED
  BY <1>1, <1>2, <1>4 DEF ItemsOf, S

\* The rows of the tables, and what the repository derives from them.
LEMMA SumTypes ==
    ASSUME refunds \in Seq(Refund), settlements \in Seq(Settlement), NEW p \in Payments
    PROVE  /\ Refunded(p) \in Nat /\ Settled(p) \in Nat
           /\ \A s \in DOMAIN settlements : TotalOf(s) \in Nat
<1>1. Refunded(p) \in Nat
  BY RefundedFold, TotalNat
<1>2. \A s \in DOMAIN settlements : settlements[s].items \in [Payments -> Nat]
  BY SettledFold
<1>3. Settled(p) \in Nat
  BY SettledFold, TotalNat
<1>4. ASSUME NEW s \in DOMAIN settlements PROVE TotalOf(s) \in Nat
  <2> DEFINE f == [q \in Payments |-> settlements[s].items[q]]
  <2>1. \A q \in Payments : f[q] \in Nat
    BY <1>2
  <2>2. TotalOf(s) = Total(f, Payments)
    BY TotalOfFold
  <2>3. IsFiniteSet(Payments) /\ Payments \in SUBSET Payments
    BY PaymentAssumption
  <2> HIDE DEF f
  <2> QED
    BY <2>1, <2>2, <2>3, TotalNat
<1> QED
  BY <1>1, <1>3, <1>4

\* A batch takes at most what is settleable of each payment scanned.
LEMMA TakeType ==
    ASSUME NEW c, scan[c] \in Seq(ScanRow), req[c].amount \in Int, NEW k \in DOMAIN scan[c]
    PROVE  Take(c, k) \in Nat /\ Take(c, k) <= Net(c, k)
<1>1. Len(scan[c]) \in Nat /\ DOMAIN scan[c] = 1..Len(scan[c])
  OBVIOUS
<1>2. \A j \in DOMAIN scan[c] : Net(c, j) \in Nat
  <2>1. \A j \in DOMAIN scan[c] : scan[c][j].net \in Int
    <3>1. \A j \in DOMAIN scan[c] : scan[c][j] \in ScanRow
      BY RowIn
    <3>2. \A x \in ScanRow : x.net \in Int
      BY DEF ScanRow
    <3> QED
      BY ONLY <3>1, <3>2
  <2> QED
    BY <2>1 DEF Net
<1>3. ASSUME NEW n \in Nat, n <= Len(scan[c]) PROVE NetBefore(c, n + 1) \in Nat
  <2> DEFINE f == [j \in 1..n |-> Net(c, j)]
  <2>1. \A j \in 1..n : f[j] \in Nat
    BY <1>1, <1>2, <1>3
  <2>2. IsFiniteSet(1..n) /\ 1..n \in SUBSET (1..n)
    <3>1. IsFiniteSet(1..n)
      BY ONLY n \in Nat, FS_Interval
    <3> QED
      BY <3>1, Zenon
  <2>3. NetBefore(c, n + 1) = Total(f, 1..n)
    BY NetFold
  <2> HIDE DEF f
  <2> QED
    BY <2>1, <2>2, <2>3, TotalNat
<1>4. Available(c) \in Nat
  <2>1. Len(scan[c]) \in Nat /\ Len(scan[c]) <= Len(scan[c])
    BY <1>1
  <2>2. NetBefore(c, Len(scan[c]) + 1) \in Nat
    BY <1>3, <2>1, Zenon
  <2> QED
    BY <2>2, Zenon DEF Available
<1>5. NetBefore(c, k) \in Nat
  <2>1. k - 1 \in Nat /\ k - 1 <= Len(scan[c]) /\ (k - 1) + 1 = k
    BY <1>1
  <2>2. NetBefore(c, (k - 1) + 1) \in Nat
    BY <1>3, <2>1
  <2> QED
    BY <2>1, <2>2
<1>6. Target(c) \in Int
  BY <1>4 DEF Target
<1>7. Net(c, k) \in Nat
  BY <1>2
<1> QED
  BY <1>5, <1>6, <1>7 DEF Take

LEMMA BatchType ==
    ASSUME NEW c, scan[c] \in Seq(ScanRow), req[c].amount \in Int
    PROVE  Batch(c) \in [Payments -> Nat]
<1> SUFFICES ASSUME NEW p \in Payments
             PROVE  Sum({k \in DOMAIN scan[c] : scan[c][k].payment = p}, LAMBDA k : Take(c, k)) \in Nat
  BY DEF Batch
<1> DEFINE S == {k \in DOMAIN scan[c] : scan[c][k].payment = p}
           f == [k \in DOMAIN scan[c] |-> Take(c, k)]
<1>1. IsFiniteSet(DOMAIN scan[c]) /\ IsFiniteSet(S) /\ S \in SUBSET DOMAIN scan[c]
  BY RowsFinite, FS_Subset
<1>2. \A k \in DOMAIN scan[c] : f[k] \in Nat
  BY TakeType
<1> HIDE DEF S
<1>3. Sum(S, LAMBDA k : Take(c, k)) = Total(f, S)
  BY <1>1, TakeFold
<1> HIDE DEF f
<1>4. Total(f, S) \in Nat
  BY <1>1, <1>2, TotalNat
<1> QED
  BY <1>3, <1>4 DEF S
-----------------------------------------------------------------------------
(* The types *)

Refunding == {"r_key", "r_total", "r_funds", "r_create", "r_post", "r_done"}

Typed ==
    /\ Shape /\ TypeOK
    /\ \A c \in Calls : pc[c] \in Refunding => req[c].amount > 0
    /\ \A c \in Calls : pc[c] = "s_settled" => scan[c] # <<>>

\* Where a step takes its call, what it answers and what it does to the mutex.
Control(c) ==
    /\ outcome' \in [Calls -> {"none", "ok", "refused", "lost"}]
    /\ settlementMu' = settlementMu \/ (settlementMu = Free /\ settlementMu' = c)
         \/ (settlementMu = c /\ settlementMu' = Free)
    /\ pc'[c] \in UnderMutex <=> settlementMu' = c
    /\ pc'[c] \in Refunding => pc[c] \in Refunding
    /\ pc'[c] = "s_settled" => ScanRefunded(c)

LEMMA ControlStep ==
    ASSUME Typed, NEW c \in Calls, Step(c) \/ Stop(c)
    PROVE  Control(c)
<1> USE DEF Typed, TypeOK, Answer, Goto, Return, UnderMutex, Refunding, Control, Labels
<1>0. c # Free
  BY FreshAssumption
<1>1. CASE RefundStep(c)
  BY <1>0, <1>1 DEF RefundStep, RefundKey, RefundTotal, RefundFunds, RefundCreate, RefundInsert,
              RefundPost, RefundDone, TryRefund
<1>2. CASE SettleStep(c)
  <2>1. CASE SettleLock(c)
    <3>1. pc[c] = "s_lock" /\ settlementMu = Free /\ settlementMu' = c /\ pc'[c] = "s_key"
          /\ outcome' = outcome
      BY <2>1 DEF SettleLock
    <3> QED
      BY <1>0, <3>1 DEF ScanRefunded
  <2>5. CASE SettleKey(c)
    <3>1. pc[c] = "s_key" /\ settlementMu = c
      BY <2>5 DEF SettleKey
    <3>2. \/ pc'[c] = "s_refunded" /\ settlementMu' = c /\ outcome' = outcome
          \/ /\ pc'[c] = "done" /\ settlementMu' = Free
             /\ \E what \in {"ok", "refused"} : outcome' = [outcome EXCEPT ![c] = what]
      BY <2>5, <3>1 DEF SettleKey
    <3> QED
      BY <1>0, <3>1, <3>2
  <2>2. CASE ScanRefunded(c)
    BY <1>0, <2>2 DEF ScanRefunded
  <2>3. CASE ScanSettled(c)
    BY <1>0, <2>3 DEF ScanSettled
  <2>4. CASE SettleCreate(c)
    <3>1. pc[c] = "s_create" /\ settlementMu = c
      BY <2>4 DEF SettleCreate
    <3>2. /\ pc'[c] = "done" /\ settlementMu' = Free
          /\ \E what \in {"ok", "refused"} : outcome' = [outcome EXCEPT ![c] = what]
      BY <2>4, <3>1 DEF SettleCreate
    <3> QED
      BY <1>0, <3>1, <3>2
  <2> QED
    BY <1>2, <2>1, <2>2, <2>3, <2>4, <2>5 DEF SettleStep
<1>3. CASE ProcessStep(c)
  BY <1>0, <1>3 DEF ProcessStep, ProcessRead, TakeUp, ProcessFunds, ProcessMark, ProviderFails,
       ProviderPays, ProcessPost, ProcessDone, TrySettlement, stored
<1>4. CASE Stop(c)
  BY <1>0, <1>4 DEF Stop
<1> QED
  BY <1>1, <1>2, <1>3, <1>4 DEF Step

\* The tables.
Tables ==
    moves \in Seq(MoveType(Refs)) /\ refunds \in Seq(Refund) /\ settlements \in Seq(Settlement)

LEMMA StatusTypes ==
    ASSUME Tables
    PROVE  /\ \A r \in DOMAIN refunds, status \in {"REQUESTED", "SUCCEEDED", "FAILED"} :
                SetRefund(r, status) => refunds' \in Seq(Refund)
           /\ \A s \in DOMAIN settlements, status \in SettlementStatuses :
                SetSettlement(s, status) => settlements' \in Seq(Settlement)
<1>1. ASSUME NEW r \in DOMAIN refunds, NEW status \in {"REQUESTED", "SUCCEEDED", "FAILED"},
             SetRefund(r, status)
      PROVE  refunds' \in Seq(Refund)
  <2>1. refunds[r] \in Refund
    BY RowIn DEF Tables
  <2>2. [refunds[r] EXCEPT !.status = status] \in Refund
    BY <2>1 DEF Refund
  <2> QED
    BY <1>1, <2>2 DEF SetRefund, Tables
<1>2. ASSUME NEW s \in DOMAIN settlements, NEW status \in SettlementStatuses, SetSettlement(s, status)
      PROVE  settlements' \in Seq(Settlement)
  <2>1. settlements[s] \in Settlement
    BY RowIn DEF Tables
  <2>2. [settlements[s] EXCEPT !.status = status] \in Settlement
    BY <2>1 DEF Settlement, SettlementStatuses
  <2> QED
    BY <1>2, <2>2 DEF SetSettlement, Tables
<1> QED
  BY <1>1, <1>2

\* What PostJournalEntry is asked to post is an entry.
LEMMA PostTypes ==
    ASSUME Tables, NEW m \in MoveType(Refs), PostMove(m)
    PROVE  moves' \in Seq(MoveType(Refs))
<1> DEFINE M == MoveType(Refs)
<1>1. moves \in Seq(M) /\ m \in M
  BY DEF Tables
<1> HIDE DEF M
<1>2. Append(moves, m) \in Seq(M)
  BY <1>1
<1>3. moves' \in Seq(M)
  BY <1>1, <1>2 DEF PostMove
<1> QED
  BY <1>3 DEF M

LEMMA RefundTypes ==
    ASSUME Typed, NEW c \in Calls, RefundInsert(c) \/ RefundPost(c) \/ RefundDone(c)
    PROVE  Tables'
<1>0. Tables /\ Shape
  BY DEF Typed, TypeOK, Tables
<1>1. /\ req[c].payment \in Payments /\ req[c].amount \in Nat
      /\ req[c].key \in Keys \cup {NoKey}
  BY Called DEF Typed, RefundInsert, RefundPost, RefundDone, Refunding, TryRefund
<1>2. CASE RefundInsert(c)
  <2>1. NewRefund(c) \in Refund
    BY <1>1 DEF NewRefund, Refund
  <2>2. Append(refunds, NewRefund(c)) \in Seq(Refund)
    BY <1>0, <2>1 DEF Tables
  <2> QED
    BY <1>0, <1>2, <2>2 DEF RefundInsert, Tables
<1>3. CASE RefundPost(c)
  <2> DEFINE m == Move(RefundRef(mine[c]), Shop, req[c].payment, req[c].amount)
  <2>1. mine[c] \in DOMAIN refunds /\ settlements' = settlements
    BY <1>0, <1>3 DEF Shape, RefundPost, Posting, TryRefund
  <2>2. RefundRef(mine[c]) \in Refs
    <3>1. refunds[mine[c]].key \in Keys \cup {NoKey} /\ mine[c] \in Nat
      <4>1. refunds[mine[c]] \in Refund
        BY <1>0, <2>1, RowIn DEF Tables
      <4> QED
        BY <1>0, <2>1, <4>1 DEF Refund, Tables
    <3> QED
      BY <3>1 DEF RefundRef, Refs
  <2>3. m \in MoveType(Refs)
    BY <1>1, <2>2, AccountAssumption DEF Move, MoveType
  <2>4. moves' \in Seq(MoveType(Refs))
    <3>1. PostMove(m) \/ moves' = moves
      BY <1>3 DEF RefundPost, TryRefund
    <3> HIDE DEF m
    <3> QED
      BY <1>0, <2>3, <3>1, PostTypes DEF Tables
  <2>5. refunds' \in Seq(Refund)
    <3>1. UNCHANGED refunds \/ SetRefund(mine[c], "FAILED")
      BY <1>3 DEF RefundPost, TryRefund
    <3> QED
      BY <1>0, <2>1, <3>1, StatusTypes DEF Tables
  <2> QED
    BY <1>0, <2>1, <2>4, <2>5 DEF Tables
<1>4. CASE RefundDone(c)
  <2>1. mine[c] \in DOMAIN refunds /\ UNCHANGED <<moves, settlements>> /\ SetRefund(mine[c], "SUCCEEDED")
    BY <1>0, <1>4 DEF Shape, RefundDone, Posting
  <2> QED
    BY <1>0, <2>1, StatusTypes DEF Tables
<1> QED
  BY <1>2, <1>3, <1>4

LEMMA ProcessTypes ==
    ASSUME Typed, NEW c \in Calls, SettleCreate(c) \/ ProcessStep(c)
    PROVE  Tables'
<1>0. Tables /\ Shape
  BY DEF Typed, TypeOK, Tables
<1>1. CASE SettleCreate(c)
  <2> DEFINE new == [items |-> Batch(c), key |-> req[c].key, status |-> "PENDING"]
  <2>1. req[c].key \in Keys \cup {NoKey} /\ req[c].amount \in Int /\ UNCHANGED <<moves, refunds>>
    BY <1>0, <1>1, Called DEF SettleCreate
  <2>2. scan[c] \in Seq(ScanRow)
    BY DEF Typed, TypeOK, ScanRow
  <2>3. new \in Settlement
    BY <2>1, <2>2, BatchType DEF Settlement
  <2> HIDE DEF new
  <2>4. settlements' \in {settlements, Append(settlements, new)}
    BY <1>1 DEF SettleCreate, new
  <2>5. Append(settlements, new) \in Seq(Settlement)
    BY <1>0, <2>3 DEF Tables
  <2> QED
    BY <1>0, <2>1, <2>4, <2>5 DEF Tables
<1>2. CASE ProcessRead(c)
  BY <1>0, <1>2 DEF ProcessRead, stored, Tables, TakeUp
<1>3. CASE ProcessFunds(c) \/ ProcessMark(c) \/
           ProviderFails(c) \/ ProviderPays(c) \/ ProcessPost(c) \/ ProcessDone(c)
  <2>1. /\ mine[c] \in DOMAIN settlements /\ UNCHANGED refunds
        /\ \/ UNCHANGED settlements
           \/ \E status \in SettlementStatuses : SetSettlement(mine[c], status)
    BY <1>0, <1>3, ProcessSets
  <2>2. settlements' \in Seq(Settlement)
    BY <1>0, <2>1, StatusTypes DEF Tables
  <2>3. moves' \in Seq(MoveType(Refs))
    <3>1. CASE ProcessPost(c)
      <4> DEFINE m == Move(SettlementRef(mine[c]), Shop, Pool, TotalOf(mine[c]))
      <4>1. SettlementRef(mine[c]) \in Refs
        BY <1>0 DEF Shape, SettlementRef, Refs
      <4>2. TotalOf(mine[c]) \in Nat
        <5>1. PICK p : p \in Payments
          BY <1>0, <3>1, Called DEF ProcessPost, TrySettlement
        <5> QED
          BY <1>0, <2>1, <5>1, SumTypes DEF Tables
      <4>3. m \in MoveType(Refs)
        BY <4>1, <4>2, AccountAssumption DEF Move, MoveType
      <4>4. PostMove(m) \/ moves' = moves
        BY <3>1 DEF ProcessPost, TrySettlement
      <4> HIDE DEF m
      <4> QED
        BY <1>0, <4>3, <4>4, PostTypes DEF Tables
    <3>2. CASE ~ProcessPost(c)
      BY <1>0, <1>3, <3>2 DEF Tables, ProcessFunds, ProcessMark, ProviderFails, ProviderPays,
           ProcessDone, TrySettlement, stored
    <3> QED
      BY <3>1, <3>2
  <2> QED
    BY <1>0, <2>1, <2>2, <2>3 DEF Tables
<1> QED
  BY <1>1, <1>2, <1>3 DEF ProcessStep

\* What a query returns, whether it fails or not.
LEMMA ReadType ==
    ASSUME NEW total \in Nat, NEW value \in Read(total)
    PROVE  value \in Nat
BY DEF Read

LEMMA Marked ==
    ASSUME NEW x \in ScanRow, NEW v \in Nat, NEW mark \in {"no", "yes"}
    PROVE  [x EXCEPT !.net = @ - v, !.read = mark] \in ScanRow
<1>1. PICK p \in Payments, n \in Int, r \in {"no", "yes"} :
         x = [payment |-> p, net |-> n, read |-> r]
  BY DEF ScanRow
<1> DEFINE y == [x EXCEPT !.net = @ - v]
<1>2. y \in ScanRow
  BY <1>1 DEF ScanRow
<1>3. [x EXCEPT !.net = @ - v, !.read = mark] = [y EXCEPT !.read = mark]
  OBVIOUS
<1> HIDE DEF y
<1>4. [y EXCEPT !.read = mark] \in ScanRow
  BY <1>2 DEF ScanRow
<1> QED
  BY <1>3, <1>4

\* The scan of CreateSettlement.
LEMMA ScanTypes ==
    ASSUME Typed, NEW c \in Calls, Step(c) \/ Stop(c)
    PROVE  scan' \in [Calls -> Seq(ScanRow)] /\ (ScanRefunded(c) => scan'[c] # <<>>)
           /\ \A d \in Calls \ {c} : scan'[d] = scan[d]
<1>0. /\ scan \in [Calls -> Seq(ScanRow)] /\ refunds \in Seq(Refund) /\ settlements \in Seq(Settlement)
      /\ \A d \in Calls : pc[d] = "s_settled" => scan[d] # <<>>
  BY DEF Typed, TypeOK, ScanRow
<1>1. ASSUME NEW q \in Seq(ScanRow), scan' = [scan EXCEPT ![c] = q]
      PROVE  /\ scan' \in [Calls -> Seq(ScanRow)] /\ scan'[c] = q
             /\ \A d \in Calls \ {c} : scan'[d] = scan[d]
  BY <1>0, <1>1
<1>2. CASE ScanRefunded(c)
  <2>0. PICK p \in Payments : \E refunded \in Read(Refunded(p)) :
             scan' = [scan EXCEPT ![c] =
                        Append(@, [payment |-> p, net |-> Amount[p] - refunded, read |-> "no"])]
    BY <1>2 DEF ScanRefunded
  <2>1. PICK refunded \in Read(Refunded(p)) :
             scan' = [scan EXCEPT ![c] =
                        Append(@, [payment |-> p, net |-> Amount[p] - refunded, read |-> "no"])]
    BY <2>0
  <2>2. refunded \in Nat /\ Amount[p] \in Nat
    BY <1>0, <2>1, SumTypes, ReadType, PaymentAssumption
  <2> DEFINE row == [payment |-> p, net |-> Amount[p] - refunded, read |-> "no"]
             q == Append(scan[c], row)
  <2>3. row \in ScanRow
    BY <2>2 DEF ScanRow
  <2> HIDE DEF row
  <2>4. q \in Seq(ScanRow) /\ q # <<>>
    <3>1. scan[c] \in Seq(ScanRow)
      BY <1>0
    <3> DEFINE t == scan[c]
               R == ScanRow
    <3> HIDE DEF t, R
    <3>2. t \in Seq(R) /\ row \in R
      BY <2>3, <3>1 DEF t, R
    <3>3. Append(t, row) \in Seq(R)
      BY <3>2
    <3>4. Append(t, row) # <<>>
      <4>1. Len(Append(t, row)) = Len(t) + 1 /\ Len(t) \in Nat
        BY <3>2
      <4>2. Len(<<>>) = 0
        OBVIOUS
      <4> QED
        BY <4>1, <4>2
    <3> QED
      BY <3>3, <3>4 DEF t, R
  <2>5. scan' = [scan EXCEPT ![c] = q]
    BY <2>1 DEF row
  <2> HIDE DEF q
  <2> QED
    BY <1>1, <2>4, <2>5
<1>3. CASE ScanSettled(c)
  <2> DEFINE last == Len(scan[c])
  <2>1. PICK settled \in Read(Settled(scan[c][last].payment)) :
             scan' = [scan EXCEPT ![c][last].net = @ - settled,
                                  ![c][last].read = IF settled = Settled(scan[c][last].payment)
                                                    THEN "yes" ELSE "no"]
    BY <1>3 DEF ScanSettled
  <2>2. scan[c] \in Seq(ScanRow) /\ scan[c] # <<>>
    BY <1>0, <1>3 DEF ScanSettled
  <2>3. last \in DOMAIN scan[c] /\ scan[c][last] \in ScanRow
    BY <2>2
  <2>4. settled \in Nat
    <3>1. scan[c][last].payment \in Payments
      BY <2>3 DEF ScanRow
    <3> QED
      BY <1>0, <2>1, <3>1, SumTypes, ReadType
  <2> DEFINE row == [scan[c][last] EXCEPT !.net = @ - settled,
                                          !.read = IF settled = Settled(scan[c][last].payment)
                                                   THEN "yes" ELSE "no"]
             q == [scan[c] EXCEPT ![last] = row]
  <2>5. row \in ScanRow
    <3>1. PICK x \in ScanRow : x = scan[c][last]
      BY <2>3
    <3>2. PICK mark \in {"no", "yes"} :
             mark = IF settled = Settled(scan[c][last].payment) THEN "yes" ELSE "no"
      OBVIOUS
    <3>3. row = [x EXCEPT !.net = @ - settled, !.read = mark]
      BY <3>1, <3>2
    <3> HIDE DEF row
    <3> QED
      BY <2>4, <3>3, Marked
  <2>6. scan' = [scan EXCEPT ![c] = q]
    <3>1. scan \in [Calls -> Seq(ScanRow)]
      BY <1>0
    <3> HIDE DEF last
    <3> QED
      BY <2>1, <2>2, <2>3, <3>1
  <2> HIDE DEF row, last
  <2>7. q \in Seq(ScanRow)
    BY <2>2, <2>3, <2>5
  <2>8. ~ScanRefunded(c)
    BY <1>3 DEF ScanSettled, ScanRefunded
  <2> HIDE DEF q
  <2> QED
    BY <1>1, <2>6, <2>7, <2>8
<1>4. CASE ~ScanRefunded(c) /\ ~ScanSettled(c)
  <2>1. scan' = scan
    BY <1>4 DEF Step, RefundStep, RefundKey, RefundTotal, RefundFunds, RefundCreate, RefundInsert,
         RefundPost, RefundDone, SettleStep, SettleLock, SettleKey, SettleCreate,
         ProcessStep, ProcessRead, TakeUp, ProcessFunds, ProcessMark, ProviderFails, ProviderPays, ProcessPost,
         ProcessDone, Stop, TryRefund, TrySettlement, stored
  <2> QED
    BY <1>0, <1>4, <2>1
<1> QED
  BY <1>2, <1>3, <1>4

\* Settlements come into doubt one by one, and stay there.
LEMMA DoubtStep ==
    ASSUME Shape, NEW c \in Calls, Step(c) \/ Stop(c)
    PROVE  /\ doubtful \subseteq doubtful' /\ DOMAIN settlements \subseteq DOMAIN settlements'
           /\ doubtful' \subseteq doubtful \cup DOMAIN settlements'
<1>1. CASE Looks(c)
  BY <1>1, LooksAside
<1>2. CASE RefundInsert(c) \/ RefundPost(c) \/ RefundDone(c)
  BY <1>2 DEF RefundInsert, RefundPost, RefundDone
<1>3. CASE SettleCreate(c)
  <2>1. PICK I : settlements \in Seq(SettlementOf(I))
    BY DEF Shape
  <2>2. DOMAIN settlements \subseteq DOMAIN settlements'
    BY <1>3, CreateShape
  <2>3. \/ UNCHANGED <<settlements, doubtful>>
        \/ /\ \E row : settlements' = Append(settlements, row)
           /\ doubtful \subseteq doubtful' /\ doubtful' \subseteq doubtful \cup {Len(settlements) + 1}
    BY <1>3 DEF SettleCreate
  <2>4. UNCHANGED settlements \/ Len(settlements) + 1 \in DOMAIN settlements'
    BY <2>1, <2>3
  <2> QED
    BY <2>1, <2>2, <2>3, <2>4
<1>4. CASE ProcessRead(c)
  BY <1>4 DEF ProcessRead, TakeUp
<1>5. CASE \/ ProcessFunds(c) \/ ProcessMark(c) \/ ProviderFails(c) \/ ProviderPays(c)
           \/ ProcessPost(c) \/ ProcessDone(c)
  <2>1. mine[c] \in DOMAIN settlements /\ DOMAIN settlements \subseteq DOMAIN settlements'
    BY <1>5, ProcessSets, ProcessRows DEF Rows, ProcessStep
  <2> QED
    BY <1>5, <2>1 DEF ProcessFunds, ProcessMark, ProviderFails, ProviderPays, ProcessPost,
                      ProcessDone, stored
<1> QED
  BY <1>1, <1>2, <1>3, <1>4, <1>5, Kinds DEF ProcessStep

LEMMA TypedStep == Typed /\ [Next]_vars => Typed'
<1> SUFFICES ASSUME Typed, [Next]_vars PROVE Typed'
  OBVIOUS
<1>0. Shape'
  BY ShapeStep DEF Typed
<1>1. ASSUME NEW c \in Calls, NEW r \in Requests, Begin(c, r) PROVE Typed'
  <2>1. /\ UNCHANGED <<moves, refunds, settlements, settlementMu, mine, scan, doubtful>>
        /\ req' = [req EXCEPT ![c] = r] /\ r \in RequestType /\ pc[c] = "idle"
        /\ pc'[c] \in {"done", "r_total", "r_key", "s_lock", "p_read"}
        /\ pc'[c] \in Refunding => r.amount > 0
        /\ \A d \in Calls \ {c} : pc'[d] = pc[d]
        /\ outcome' \in [Calls -> {"none", "ok", "refused", "lost"}]
    BY <1>1, RequestAssumption DEF Typed, TypeOK, Begin, Answer, Goto, stored, Refunding, RequestType
  <2>2. TypeOK'
    BY <1>0, <2>1 DEF Typed, TypeOK, Shape, UnderMutex
  <2> QED
    BY <1>0, <2>1, <2>2 DEF Typed, TypeOK
<1>2. ASSUME NEW c \in Calls, Step(c) \/ Stop(c) PROVE Typed'
  <2>1. /\ req' = req /\ pc' \in [Calls -> Labels] /\ \A d \in Calls \ {c} : pc'[d] = pc[d]
    BY <1>2, LabelStep DEF Typed
  <2>2. Control(c)
    BY <1>2, ControlStep
  <2>3. /\ scan' \in [Calls -> Seq(ScanRow)] /\ (ScanRefunded(c) => scan'[c] # <<>>)
        /\ \A d \in Calls \ {c} : scan'[d] = scan[d]
    BY <1>2, ScanTypes
  <2>4. Tables'
    <3>1. CASE Looks(c)
      BY <3>1, LooksAside DEF Typed, TypeOK, Tables
    <3> QED
      BY <1>2, <3>1, Kinds, RefundTypes, ProcessTypes
  <2>5. TypeOK'
    <3>1. (\A d \in Calls : pc'[d] \in UnderMutex <=> settlementMu' = d)
          /\ settlementMu' \in Calls \cup {Free}
      BY <2>1, <2>2, FreshAssumption DEF Control, Typed, TypeOK
    <3>2. mine' \in [Calls -> Nat] /\ req' \in [Calls -> RequestType]
      BY <1>0, <2>1 DEF Shape, Typed, TypeOK
    <3>3. doubtful' \subseteq DOMAIN settlements'
      BY <1>2, DoubtStep DEF Typed, TypeOK
    <3> QED
      BY <2>1, <2>2, <2>3, <2>4, <3>1, <3>2, <3>3 DEF TypeOK, Tables, Control, ScanRow
  <2>6. \A d \in Calls : pc'[d] \in Refunding => req'[d].amount > 0
    BY <2>1, <2>2 DEF Typed, Control
  <2>7. \A d \in Calls : pc'[d] = "s_settled" => scan'[d] # <<>>
    BY <2>1, <2>2, <2>3 DEF Typed, Control
  <2> QED
    BY <1>0, <2>5, <2>6, <2>7 DEF Typed
<1>3. CASE UNCHANGED vars
  BY <1>0, <1>3 DEF Typed, TypeOK, vars
<1> QED
  BY <1>1, <1>2, <1>3 DEF Next

LEMMA InitTyped == Init => Typed
<1> SUFFICES ASSUME Init PROVE Typed
  OBVIOUS
<1>1. (CHOOSE r \in Requests : TRUE) \in RequestType
  BY RequestAssumption
<1>2. \A c \in Calls : pc[c] = "idle" /\ c # Free
  BY FreshAssumption DEF Init
<1>3. TypeOK
  <2>1. \A S : <<>> \in Seq(S)
    OBVIOUS
  <2>2. /\ pc \in [Calls -> Labels] /\ mine \in [Calls -> Nat] /\ req \in [Calls -> RequestType]
        /\ outcome \in [Calls -> {"none", "ok", "refused", "lost"}]
        /\ settlementMu \in Calls \cup {Free}
    BY <1>1 DEF Init, Labels, Nothing
  <2>3. /\ moves \in Seq(MoveType(Refs)) /\ refunds \in Seq(Refund) /\ settlements \in Seq(Settlement)
        /\ scan \in [Calls -> Seq(ScanRow)] /\ doubtful \subseteq DOMAIN settlements
    BY <2>1 DEF Init
  <2>4. \A c \in Calls : pc[c] \in UnderMutex <=> settlementMu = c
    BY <1>2 DEF Init, UnderMutex
  <2> QED
    BY <2>2, <2>3, <2>4 DEF TypeOK, ScanRow
<1> QED
  BY <1>2, <1>3, InitShape DEF Typed, Refunding

\* The tables keep their types, amounts are never negative, and settlementMu is
\* held exactly between its acquisition in CreateSettlement and the deferred
\* release.
THEOREM PayoutTyping == Spec => []TypeOK
<1>1. Typed => TypeOK
  BY DEF Typed
<1> QED
  BY <1>1, InitTyped, TypedStep, PTL DEF Spec
-----------------------------------------------------------------------------
(* No payer gets back more than was paid *)

\* What the ledger holds of the payouts: every reference once, and the money of
\* settlements in the pool.
Once == \A n, k \in DOMAIN moves : moves[n].ref = moves[k].ref => n = k
ToPool ==
    \A n \in DOMAIN moves : \A s \in Nat : moves[n].ref = SettlementRef(s) => moves[n].to = Pool

LEMMA MoveOnce ==
    ASSUME Typed, Once, ToPool, NEW m, moves' = Append(moves, m), MovesOf(m.ref) = {},
           m.ref # <<"unnamed", 0>>, \A s \in Nat : m.ref = SettlementRef(s) => m.to = Pool
    PROVE  Once' /\ ToPool'
<1>1. PICK S : moves \in Seq(S)
  BY DEF Typed, Shape
<1>2. PICK k : k = Len(moves) + 1
  OBVIOUS
<1>3. /\ DOMAIN moves' = DOMAIN moves \cup {k} /\ moves'[k] = m
      /\ \A n \in DOMAIN moves : moves'[n] = moves[n]
  BY <1>1, <1>2
<1>4. \A n \in DOMAIN moves : moves[n].ref # m.ref
  BY DEF MovesOf
<1>5. Once'
  BY <1>3, <1>4 DEF Once
<1>6. ToPool'
  BY <1>3 DEF ToPool, SettlementRef
<1> QED
  BY <1>5, <1>6

LEMMA MovesStep ==
    ASSUME Typed, Once, ToPool, [Next]_vars
    PROVE  Once' /\ ToPool'
<1>0. Shape
  BY DEF Typed
<1>1. ASSUME UNCHANGED moves PROVE Once' /\ ToPool'
  BY <1>1 DEF Once, ToPool, SettlementRef
<1>2. ASSUME NEW c \in Calls, RefundPost(c) PROVE Once' /\ ToPool'
  <2> DEFINE m == Move(RefundRef(mine[c]), Shop, req[c].payment, req[c].amount)
  <2>1. mine[c] \in DOMAIN refunds /\ m.ref = RefundRef(mine[c])
    BY <1>0, <1>2 DEF Shape, RefundPost, Posting, Move, TryRefund
  <2>2. m.ref # <<"unnamed", 0>> /\ \A s \in Nat : m.ref # SettlementRef(s)
    BY <2>1, RefsApart
  <2>3. UNCHANGED moves \/ (moves' = Append(moves, m) /\ MovesOf(m.ref) = {})
    BY <1>2 DEF RefundPost, PostMove, PostResult, TryRefund
  <2> HIDE DEF m
  <2> QED
    BY <1>1, <2>2, <2>3, MoveOnce
<1>3. ASSUME NEW c \in Calls, ProcessPost(c) PROVE Once' /\ ToPool'
  <2> DEFINE m == Move(SettlementRef(mine[c]), Shop, Pool, TotalOf(mine[c]))
  <2>1. mine[c] \in Nat /\ m.ref = SettlementRef(mine[c]) /\ m.to = Pool
    BY <1>0, <1>3 DEF Shape, ProcessPost, Move, TrySettlement
  <2>2. m.ref # <<"unnamed", 0>>
    BY <2>1, RefsApart
  <2>3. UNCHANGED moves \/ (moves' = Append(moves, m) /\ MovesOf(m.ref) = {})
    BY <1>3 DEF ProcessPost, PostMove, PostResult, TrySettlement
  <2> HIDE DEF m
  <2> QED
    BY <1>1, <2>1, <2>2, <2>3, MoveOnce
<1>4. ASSUME NEW c \in Calls, NEW r \in Requests, Begin(c, r) PROVE UNCHANGED moves
  BY <1>4 DEF Begin, stored
<1>5. ASSUME NEW c \in Calls, Step(c) \/ Stop(c), ~RefundPost(c), ~ProcessPost(c)
      PROVE  UNCHANGED moves
  <2>1. CASE Looks(c)
    BY <1>0, <2>1, LooksAside
  <2>2. CASE RefundInsert(c) \/ RefundDone(c) \/ SettleCreate(c)
    BY <2>2 DEF RefundInsert, RefundDone, SettleCreate
  <2>3. CASE ProcessStep(c)
    BY <1>5, <2>3 DEF ProcessStep, ProcessRead, TakeUp, ProcessFunds, ProcessMark, ProviderFails,
         ProviderPays, ProcessDone, stored, TrySettlement
  <2> QED
    BY <1>5, <2>1, <2>2, <2>3, Kinds
<1> QED
  BY <1>1, <1>2, <1>3, <1>4, <1>5 DEF Next, vars

\* On either repository, however many calls process a settlement, wherever they
\* stop and whatever is not stored: it is booked at most once, it has succeeded
\* only if it was booked, and it is pending or has failed only if it was not, unless
\* two calls processed it at once or its mark was lost.
THEOREM SettlementsBooked == Spec => []SettlementBooked
<1> DEFINE Inv == Typed /\ PInv /\ Once /\ ToPool
<1>1. Init => Inv
  BY InitTyped, PInvInit DEF Init, Once, ToPool
<1>2. Inv /\ [Next]_vars => Inv'
  BY TypedStep, ShapeStep, ProcessStays, MovesStep DEF PInv
<1>3. Inv => SettlementBooked
  <2> SUFFICES ASSUME Inv, NEW s \in DOMAIN settlements
               PROVE  /\ \A m, n \in MovesOf(SettlementRef(s)) : m = n
                      /\ settlements[s].status = "SUCCEEDED" => MovesOf(SettlementRef(s)) # {}
                      /\ settlements[s].status \in {"PENDING", "FAILED"} /\ s \notin doubtful
                             => MovesOf(SettlementRef(s)) = {}
    BY DEF SettlementBooked
  <2>1. s \in Nat /\ Booked(s)
    BY SettlementsDomain DEF PInv, InProcess
  <2>2. \A m, n \in MovesOf(SettlementRef(s)) : m = n
    BY DEF Once, MovesOf
  <2> QED
    BY <2>1, <2>2, PaidMoves DEF Booked
<1> QED
  BY <1>1, <1>2, <1>3, PTL DEF Spec

LEMMA EmptyRefunded ==
    ASSUME Init, NEW p \in Payments
    PROVE  Refunded(p) = 0
<1>1. refunds = <<>> /\ refunds \in Seq(Refund)
  BY DEF Init
<1>2. Counted(refunds, p) = {}
  BY <1>1 DEF Counted
<1> QED
  BY <1>1, <1>2, RefundedFold, TotalEmpty, Zenon

\* On memory no refund fails, and the refunds of a payment stay below what it paid.
Within ==
    /\ \A r \in DOMAIN refunds : refunds[r].status # "FAILED"
    /\ \A p \in Payments : Refunded(p) <= Amount[p]

\* A refund that is inserted adds its amount to what is counted of its payment.
LEMMA InsertTotals ==
    ASSUME Typed, NEW c \in Calls, RefundInsert(c)
    PROVE  /\ req[c].payment \in Payments /\ req[c].amount \in Nat
           /\ \A p \in Payments :
                Refunded(p)' = Refunded(p) + (IF p = req[c].payment THEN req[c].amount ELSE 0)
           /\ \E k : /\ DOMAIN refunds' = DOMAIN refunds \cup {k} /\ refunds'[k].status = "REQUESTED"
                     /\ \A r \in DOMAIN refunds : refunds'[r] = refunds[r]
<1> DEFINE new == NewRefund(c)
           p0 == req[c].payment
<1>0. refunds \in Seq(Refund) /\ refunds' \in Seq(Refund)
  BY RefundTypes DEF Typed, TypeOK, Tables
<1>1. p0 \in Payments /\ req[c].amount \in Nat /\ req[c].key \in Keys \cup {NoKey}
  BY Called DEF Typed, RefundInsert, Refunding
<1>2. new \in Refund /\ new.payment = p0 /\ new.amount = req[c].amount /\ new.status = "REQUESTED"
  BY <1>1 DEF NewRefund, Refund
<1>3. PICK k : k = Len(refunds) + 1
  OBVIOUS
<1>4. /\ refunds' = Append(refunds, new) /\ DOMAIN refunds' = DOMAIN refunds \cup {k}
      /\ k \notin DOMAIN refunds /\ refunds'[k] = new
      /\ \A r \in DOMAIN refunds : refunds'[r] = refunds[r]
  <2>1. refunds' = Append(refunds, new)
    BY DEF RefundInsert
  <2> HIDE DEF new
  <2> QED
    BY <1>0, <1>3, <2>1
<1> HIDE DEF new
<1>5. ASSUME NEW p \in Payments
      PROVE  Refunded(p)' = Refunded(p) + (IF p = p0 THEN req[c].amount ELSE 0)
  <2> DEFINE T == Counted(refunds, p)
             f == Amounts(refunds)
             g == Amounts(Append(refunds, new))
  <2>1. T \in SUBSET DOMAIN refunds /\ Refunded(p) = Total(f, T) /\ IsFiniteSet(DOMAIN refunds)
    BY <1>0, RefundedFold
  <2>2. Refunded(p)' = Total(Amounts(refunds'), Counted(refunds', p))
    BY <1>0, RefundedNext
  <2>3. \A r \in Refund : r.amount \in Int
    BY DEF Refund
  <2>4. /\ Total(f, T) \in Int /\ Total(g, T) = Total(f, T)
        /\ Total(g, T \cup {Len(refunds) + 1}) = Total(f, T) + new.amount
    BY <1>0, <1>2, <2>1, <2>3, AmountAppend
  <2>5. CASE p = p0
    <3>1. Counted(refunds', p) = T \cup {Len(refunds) + 1}
      BY <1>2, <1>3, <1>4, <2>5 DEF Counted
    <3>2. Refunded(p)' = Total(g, T \cup {Len(refunds) + 1})
      BY <1>4, <2>2, <3>1, Zenon
    <3> QED
      BY <1>2, <2>1, <2>4, <2>5, <3>2
  <2>6. CASE p # p0
    <3>1. Counted(refunds', p) = T
      BY <1>2, <1>4, <2>6 DEF Counted
    <3>2. Refunded(p)' = Total(g, T)
      BY <1>4, <2>2, <3>1, Zenon
    <3> QED
      BY <2>1, <2>4, <2>6, <3>2
  <2> QED
    BY <2>5, <2>6
<1> QED
  BY <1>1, <1>2, <1>4, <1>5

\* A status that changes adds nothing, unless a refund that failed is revived.
LEMMA StatusTotals ==
    ASSUME Typed, NEW r0 \in DOMAIN refunds, NEW status \in {"SUCCEEDED", "FAILED"},
           SetRefund(r0, status), refunds[r0].status # "FAILED"
    PROVE  \A p \in Payments : /\ Refunded(p)' \in Nat /\ Refunded(p)' <= Refunded(p)
                               /\ status = "SUCCEEDED" => Refunded(p)' = Refunded(p)
<1>0. refunds \in Seq(Refund) /\ refunds' \in Seq(Refund)
  BY StatusTypes DEF Typed, TypeOK, Tables
<1>1. /\ DOMAIN refunds' = DOMAIN refunds /\ refunds'[r0].status = status
      /\ \A q \in DOMAIN refunds : /\ q # r0 => refunds'[q] = refunds[q]
                                   /\ refunds'[q].payment = refunds[q].payment
                                   /\ refunds'[q].amount = refunds[q].amount
  BY RefundShape DEF Typed
<1>2. refunds[r0].status \in {"REQUESTED", "SUCCEEDED"}
  <2>1. refunds[r0] \in Refund
    BY <1>0, RowIn
  <2> QED
    BY <2>1 DEF Refund
<1>3. Amounts(refunds') = Amounts(refunds)
  BY <1>1 DEF Amounts
<1> SUFFICES ASSUME NEW p \in Payments
             PROVE  /\ Refunded(p)' \in Nat /\ Refunded(p)' <= Refunded(p)
                    /\ status = "SUCCEEDED" => Refunded(p)' = Refunded(p)
  OBVIOUS
<1>4. Counted(refunds', p) \in SUBSET Counted(refunds, p)
  BY <1>1, <1>2 DEF Counted
<1>5. status = "SUCCEEDED" => Counted(refunds', p) = Counted(refunds, p)
  BY <1>1, <1>2 DEF Counted
<1>6. /\ Refunded(p) = Total(Amounts(refunds), Counted(refunds, p))
      /\ IsFiniteSet(Counted(refunds, p)) /\ Counted(refunds, p) \in SUBSET DOMAIN refunds
      /\ \A r \in DOMAIN refunds : Amounts(refunds)[r] \in Nat
  BY <1>0, RefundedFold
<1>7. Refunded(p)' = Total(Amounts(refunds), Counted(refunds', p))
  BY <1>0, <1>3, RefundedNext
<1>8. \A x \in Counted(refunds, p) : Amounts(refunds)[x] \in Nat
  BY <1>6
<1>9. /\ Total(Amounts(refunds), Counted(refunds', p)) \in Nat
      /\ Total(Amounts(refunds), Counted(refunds', p)) <= Total(Amounts(refunds), Counted(refunds, p))
  BY <1>4, <1>6, <1>8, TotalNat
<1> QED
  BY <1>5, <1>6, <1>7, <1>9

LEMMA InsertWithin ==
    ASSUME Typed, Within, NEW c \in Calls, RefundCreate(c), RefundInsert(c), Backend = "memory"
    PROVE  Within'
<1>1. Refunded(req[c].payment) + req[c].amount <= Amount[req[c].payment]
  <2>1. PICK S : refunds \in Seq(S)
    BY DEF Typed, Shape
  <2>2. Append(refunds, NewRefund(c)) # refunds
    BY <2>1
  <2>3. ~UNCHANGED refunds
    BY <2>2 DEF RefundInsert
  <2> QED
    BY <2>3 DEF RefundCreate, stored
<1>2. ASSUME NEW p \in Payments PROVE Refunded(p)' <= Amount[p]
  <2>1. Refunded(p) <= Amount[p]
    BY DEF Within
  <2>2. Refunded(p)' = Refunded(p) + (IF p = req[c].payment THEN req[c].amount ELSE 0)
    BY InsertTotals
  <2>3. Refunded(p) \in Nat
    BY SumTypes DEF Typed, TypeOK
  <2>4. CASE p = req[c].payment
    BY <1>1, <2>2, <2>4
  <2>5. CASE p # req[c].payment
    BY <2>1, <2>2, <2>3, <2>5
  <2> QED
    BY <2>4, <2>5
<1>3. \A r \in DOMAIN refunds' : refunds'[r].status # "FAILED"
  BY InsertTotals DEF Within
<1> QED
  BY <1>2, <1>3 DEF Within

\* Another status that is no failure.
LEMMA DoneWithin ==
    ASSUME Typed, Within, NEW r0 \in DOMAIN refunds, SetRefund(r0, "SUCCEEDED")
    PROVE  Within'
<1>1. \A p \in Payments : Refunded(p)' = Refunded(p)
  BY StatusTotals DEF Within
<1>2. \A r \in DOMAIN refunds' : refunds'[r].status # "FAILED"
  BY RefundShape DEF Within, Typed
<1> QED
  BY <1>1, <1>2 DEF Within

LEMMA WithinStep ==
    ASSUME Typed, Within, [Next]_vars, Backend = "memory"
    PROVE  Within'
<1>1. ASSUME UNCHANGED refunds PROVE Within'
  <2>1. refunds \in Seq(Refund) /\ refunds' = refunds
    BY <1>1 DEF Typed, TypeOK
  <2>2. \A p \in Payments : Refunded(p)' = Refunded(p)
    BY <2>1, RefundedFold, RefundedNext
  <2> QED
    BY <2>1, <2>2 DEF Within
<1>2. ASSUME NEW c \in Calls, NEW r \in Requests, Begin(c, r) PROVE UNCHANGED refunds
  BY <1>2 DEF Begin, stored
<1>3. ASSUME NEW c \in Calls, Step(c) \/ Stop(c) PROVE Within'
  <2>1. CASE Looks(c)
    BY <1>1, <2>1, LooksAside DEF Typed
  <2>2. CASE RefundCreate(c) /\ RefundInsert(c)
    BY <2>2, InsertWithin
  <2>3. CASE RefundPost(c)
    <3>1. UNCHANGED refunds
      BY <2>3 DEF RefundPost, PostResult, TryRefund
    <3> QED
      BY <1>1, <3>1
  <2>4. CASE RefundDone(c)
    <3>1. mine[c] \in DOMAIN refunds /\ SetRefund(mine[c], "SUCCEEDED")
      BY <2>4 DEF RefundDone, Typed, Shape, Posting
    <3> QED
      BY <3>1, DoneWithin
  <2>5. CASE SettleCreate(c)
    BY <1>1, <2>5 DEF SettleCreate
  <2>6. CASE ProcessStep(c)
    BY <1>1, <2>6 DEF ProcessStep, ProcessRead, TakeUp, ProcessFunds, ProcessMark, ProviderFails,
         ProviderPays,
                      ProcessPost, ProcessDone, stored, TrySettlement
  <2> QED
    BY <1>3, <2>1, <2>2, <2>3, <2>4, <2>5, <2>6
       DEF Step, RefundStep, SettleStep, Looks, RefundCreate, stored
<1> QED
  BY <1>1, <1>2, <1>3 DEF Next, vars

\* What came back to a payer came by a refund that has not failed.
Accounted ==
    \A n \in DOMAIN moves :
        \/ \E s \in Nat : moves[n].ref = SettlementRef(s)
        \/ \E r \in DOMAIN refunds : moves[n] = OwnMove(r) /\ refunds[r].status # "FAILED"

\* What came back to the payers of payments is never more than what
\* GetTotalRefundedAmount counts.
BackCounted ==
    \A p \in Payments : AmountOf({n \in DOMAIN moves : moves[n].to = p}) <= Refunded(p)

\* Each came by a refund of its own.
LEMMA BackWithin ==
    ASSUME Typed, Once, ToPool, Accounted
    PROVE  /\ BackCounted
           /\ \A p \in Payments : /\ AmountOf({n \in DOMAIN moves : moves[n].to = p}) \in Int
                                 /\ Refunded(p) \in Nat
<1> SUFFICES ASSUME NEW p \in Payments
             PROVE  /\ AmountOf({n \in DOMAIN moves : moves[n].to = p}) <= Refunded(p)
                    /\ AmountOf({n \in DOMAIN moves : moves[n].to = p}) \in Int
                    /\ Refunded(p) \in Nat
  BY DEF BackCounted
<1> DEFINE S == {n \in DOMAIN moves : moves[n].to = p}
           T == Counted(refunds, p)
           h == [n \in S |-> CHOOSE r \in DOMAIN refunds :
                             moves[n] = OwnMove(r) /\ refunds[r].status # "FAILED"]
<1>0. moves \in Seq(MoveType(Refs)) /\ refunds \in Seq(Refund)
  BY DEF Typed, TypeOK
<1>1. IsFiniteSet(S) /\ S \in SUBSET DOMAIN moves /\ IsFiniteSet(T) /\ T \in SUBSET DOMAIN refunds
  BY <1>0, RowsFinite, RefundedFold, FS_Subset
<1>2. \A n \in S : /\ h[n] \in DOMAIN refunds /\ moves[n] = OwnMove(h[n])
                  /\ refunds[h[n]].status # "FAILED"
  BY AccountAssumption DEF Accounted, ToPool
<1>3. \A n \in S : h[n] \in T /\ moves[n].amount = refunds[h[n]].amount
  <2>1. \A r \in DOMAIN refunds : refunds[r].status \in {"REQUESTED", "SUCCEEDED", "FAILED"}
    <3>1. \A r \in DOMAIN refunds : refunds[r] \in Refund
      BY <1>0, RowIn
    <3>2. \A x \in Refund : x.status \in {"REQUESTED", "SUCCEEDED", "FAILED"}
      BY DEF Refund
    <3> QED
      BY <3>1, <3>2
  <2>2. \A r : OwnMove(r).to = refunds[r].payment /\ OwnMove(r).amount = refunds[r].amount
    BY DEF OwnMove, Move
  <2>3. \A n \in S : moves[n].to = p
    OBVIOUS
  <2> HIDE DEF h, S
  <2> QED
    BY <1>2, <2>1, <2>2, <2>3 DEF Counted
<1>4. \A n, k \in S : h[n] = h[k] => n = k
  <2> HIDE DEF h
  <2> QED
    BY <1>2 DEF Once
<1>5. AmountOf(S) = Total(Amounts(moves), S)
  <2>1. AmountOf(S) = (CHOOSE g : g = [s \in SUBSET S |->
             IF s = {} THEN 0 ELSE moves[Pick(s)].amount + g[s \ {Pick(s)}]])[S]
    BY DEF AmountOf, MapThenSumSet, MapThenFoldSet, Pick
  <2> QED
    BY <1>1, <2>1, AmountFold
<1>6. Total(Amounts(moves), S) <= Total(Amounts(refunds), T)
  <2>1. \A r \in T : Amounts(refunds)[r] \in Nat
    BY <1>0, RefundedFold
  <2>2. \A n \in S : h[n] \in T /\ Amounts(moves)[n] = Amounts(refunds)[h[n]]
    <3> HIDE DEF h
    <3> QED
      BY <1>1, <1>3 DEF Amounts
  <2> HIDE DEF h, S, T
  <2> QED
    BY <1>1, <1>4, <2>1, <2>2, TotalImage
<1>7. Refunded(p) = Total(Amounts(refunds), T) /\ Refunded(p) \in Nat
  BY <1>0, RefundedFold, TotalNat
<1>8. Total(Amounts(moves), S) \in Int
  <2>1. \A n \in S : Amounts(moves)[n] \in Int
    <3>1. \A n \in DOMAIN moves : moves[n] \in MoveType(Refs)
      BY <1>0, RowIn
    <3>2. \A x \in MoveType(Refs) : x.amount \in Nat
      BY DEF MoveType
    <3> QED
      BY <3>1, <3>2 DEF Amounts
  <2> HIDE DEF S
  <2> QED
    BY <1>1, <2>1, TotalType
<1> QED
  BY <1>5, <1>6, <1>7, <1>8

\* On memory, whichever refunds of a payment race and whatever keys they carry,
\* its payer never gets back more than was paid.
THEOREM NoOverRefundOnMemory == Backend = "memory" /\ Spec => []NoOverRefund
<1> SUFFICES ASSUME Backend = "memory" PROVE Spec => []NoOverRefund
  OBVIOUS
<1> DEFINE Inv == Typed /\ RInv /\ Once /\ ToPool /\ Within
<1>1. Init => Inv
  <2> SUFFICES ASSUME Init PROVE Inv
    OBVIOUS
  <2>1. InRefund /\ RefundBooked /\ Once /\ ToPool
    BY DEF Init, InRefund, RefundBooked, Posting, Once, ToPool
  <2>2. Within
    <3>1. refunds = <<>> /\ \A p \in Payments : Refunded(p) = 0
      BY EmptyRefunded DEF Init
    <3> QED
      BY <3>1, PaymentAssumption DEF Within
  <2> QED
    BY <2>1, <2>2, InitTyped DEF RInv, Typed
<1>2. Inv /\ [Next]_vars => Inv'
  BY TypedStep, ShapeStep, RefundSteps, MovesStep, WithinStep DEF RInv
<1>3. Inv => NoOverRefund
  <2> SUFFICES ASSUME Inv, NEW p \in Payments
               PROVE  AmountOf({n \in DOMAIN moves : moves[n].to = p}) <= Amount[p]
    BY DEF NoOverRefund
  <2>1. Accounted
    BY DEF RInv, InRefund, Within, Accounted
  <2>2. AmountOf({n \in DOMAIN moves : moves[n].to = p}) <= Refunded(p)
    BY <2>1, BackWithin DEF BackCounted
  <2>3. Refunded(p) <= Amount[p] /\ Amount[p] \in Nat
    BY PaymentAssumption DEF Within
  <2> QED
    BY <2>1, <2>2, <2>3, BackWithin
<1> QED
  BY <1>1, <1>2, <1>3, PTL DEF Spec
-----------------------------------------------------------------------------
(* What was given back is counted *)

\* A refund is worked on by the one call that created it, and it has not failed yet.
Paired ==
    /\ \A c, d \in Calls : pc[c] \in Posting /\ pc[d] \in Posting /\ mine[c] = mine[d] => c = d
    /\ \A c \in Calls : pc[c] \in Posting => refunds[mine[c]].status # "FAILED"

\* What came back came by a refund that will not fail any more.
Kept(r) == refunds[r].status # "FAILED" /\ \A c \in Calls : pc[c] = "r_post" => mine[c] # r
Backed ==
    \A n \in DOMAIN moves :
        \/ \E s \in Nat : moves[n].ref = SettlementRef(s)
        \/ \E r \in DOMAIN refunds : moves[n] = OwnMove(r) /\ Kept(r)

\* A step of a call that neither creates nor posts a refund.
LEMMA AsideBacked ==
    ASSUME Shape, Paired, Backed, NEW c \in Calls, Grown, DOMAIN refunds' = DOMAIN refunds,
           \A r \in DOMAIN refunds : refunds'[r].status = "FAILED" => refunds[r].status = "FAILED",
           \A d \in Calls \ {c} : pc'[d] = pc[d] /\ mine'[d] = mine[d], pc'[c] \notin Posting,
           \A n \in DOMAIN moves' \ DOMAIN moves : \E s \in Nat : moves'[n].ref = SettlementRef(s)
    PROVE  Paired' /\ Backed'
<1>1. Paired'
  BY DEF Paired, Shape
<1>2. \A r \in DOMAIN refunds : Kept(r) => Kept(r)'
  BY DEF Kept, Posting
<1>3. \A r \in DOMAIN refunds : OwnMove(r)' = OwnMove(r)
  BY GrownKeeps
<1>4. Backed'
  BY <1>2, <1>3 DEF Backed, Grown, SettlementRef
<1> QED
  BY <1>1, <1>4

LEMMA InsertBacked ==
    ASSUME Shape, Paired, Backed, NEW c \in Calls, RefundInsert(c)
    PROVE  Paired' /\ Backed'
<1> DEFINE new == NewRefund(c)
<1>0. PICK k : k = Len(refunds) + 1
  OBVIOUS
<1>1. /\ refunds \in Seq(RefundRow) /\ refunds' = Append(refunds, new)
      /\ refunds' \in Seq(RefundRow) /\ new.status = "REQUESTED"
  BY InsertShape DEF Shape, NewRefund
<1>2. UNCHANGED moves /\ pc'[c] = "r_post" /\ mine'[c] = k
      /\ \A d \in Calls \ {c} : pc'[d] = pc[d] /\ mine'[d] = mine[d]
  BY <1>0 DEF RefundInsert, Goto, Shape
<1> HIDE DEF new
<1>3. /\ DOMAIN refunds' = DOMAIN refunds \cup {k} /\ k \notin DOMAIN refunds /\ refunds'[k] = new
      /\ \A r \in DOMAIN refunds : refunds'[r] = refunds[r]
  BY <1>0, <1>1
<1>4. \A d \in Calls : pc[d] \in Posting => mine[d] \in DOMAIN refunds
  BY DEF Shape
<1>5. Paired'
  BY <1>1, <1>2, <1>3, <1>4 DEF Paired
<1>6. \A r \in DOMAIN refunds : Kept(r) => Kept(r)'
  BY <1>2, <1>3 DEF Kept
<1>7. \A r \in DOMAIN refunds : OwnMove(r)' = OwnMove(r)
  BY <1>2, <1>3, GrownKeeps DEF Grown
<1>8. Backed'
  BY <1>2, <1>3, <1>6, <1>7 DEF Backed, SettlementRef
<1> QED
  BY <1>5, <1>8

LEMMA PostBacked ==
    ASSUME RInv, Paired, Backed, NEW c \in Calls, RefundPost(c)
    PROVE  Paired' /\ Backed'
<1> DEFINE r0 == mine[c]
           m == Move(RefundRef(r0), Shop, req[c].payment, req[c].amount)
<1>1. /\ r0 \in DOMAIN refunds /\ m = OwnMove(r0)
      /\ UNCHANGED mine /\ \A d \in Calls \ {c} : pc'[d] = pc[d]
      /\ pc[c] = "r_post" /\ pc'[c] \in {"r_done", "done"}
  BY DEF RInv, Shape, InRefund, RefundPost, Posting, OwnMove, Answer, Goto, Move, TryRefund
<1>2. PICK S : moves \in Seq(S)
  BY DEF RInv, Shape
<1>3. \A d \in Calls \ {c} : pc[d] \in Posting => mine[d] # r0
  BY <1>1 DEF Paired, Posting
<1>4. CASE UNCHANGED refunds /\ moves' \in {moves, Append(moves, m)}
  <2>1. /\ \A n \in DOMAIN moves : n \in DOMAIN moves' /\ moves'[n] = moves[n]
        /\ \A n \in DOMAIN moves' \ DOMAIN moves : moves'[n] = m
    <3> HIDE DEF m
    <3> QED
      BY <1>2, <1>4
  <2>2. \A r \in DOMAIN refunds : OwnMove(r)' = OwnMove(r)
    BY <1>4 DEF OwnMove, RefundRef
  <2>3. Paired'
    BY <1>1, <1>4 DEF Paired, Posting
  <2>4. ASSUME pc'[c] = "r_done" PROVE Kept(r0)'
    BY <1>1, <1>3, <1>4, <2>4 DEF Kept, Paired, Posting
  <2>5. \A r \in DOMAIN refunds : Kept(r) => Kept(r)'
    BY <1>1, <1>4 DEF Kept
  <2>6. moves' # moves => pc'[c] = "r_done"
    <3>1. moves' = Append(moves, m) /\ MovesOf(m.ref) # {} => PostResult(m) # "posted"
      BY BackendAssumption DEF PostResult
    <3>2. moves' # moves => PostMove(m) /\ PostResult(m) = "posted"
      BY <1>1 DEF RefundPost, PostMove, TryRefund
    <3> QED
      BY <1>1, <3>2 DEF RefundPost, Goto, RInv, Shape, TryRefund
  <2>7. Backed'
    <3>1. CASE moves' = moves
      BY <1>4, <2>2, <2>5, <3>1 DEF Backed, SettlementRef
    <3>2. CASE moves' # moves
      BY <1>1, <1>4, <2>1, <2>2, <2>4, <2>5, <2>6, <3>2 DEF Backed, SettlementRef
    <3> QED
      BY <3>1, <3>2
  <2> QED
    BY <2>3, <2>7
<1>5. CASE SetRefund(r0, "FAILED") /\ UNCHANGED moves /\ pc'[c] = "done"
  <2>1. /\ DOMAIN refunds' = DOMAIN refunds
        /\ \A q \in DOMAIN refunds : /\ q # r0 => refunds'[q] = refunds[q]
                                     /\ refunds'[q].payment = refunds[q].payment
                                     /\ refunds'[q].amount = refunds[q].amount
                                     /\ refunds'[q].key = refunds[q].key
    BY <1>1, <1>5, RefundShape DEF RInv
  <2>2. \A r \in DOMAIN refunds : OwnMove(r)' = OwnMove(r)
    BY <1>5, <2>1, GrownKeeps DEF Grown
  <2>3. Paired'
    BY <1>1, <1>3, <1>5, <2>1 DEF Paired, Posting, RInv, Shape
  <2>4. \A r \in DOMAIN refunds : Kept(r) => Kept(r)'
    BY <1>1, <1>5, <2>1 DEF Kept
  <2>5. Backed'
    BY <1>5, <2>1, <2>2, <2>4 DEF Backed, SettlementRef
  <2> QED
    BY <2>3, <2>5
<1>6. \/ UNCHANGED refunds /\ moves' \in {moves, Append(moves, m)}
      \/ SetRefund(r0, "FAILED") /\ UNCHANGED moves /\ pc'[c] = "done"
  <2>1. pc \in [Calls -> Labels]
    BY DEF RInv, Shape
  <2>2. \/ PostMove(m) /\ PostResult(m) # "error" /\ UNCHANGED refunds
        \/ PostMove(m) /\ PostResult(m) = "error" /\ TryRefund(r0, "FAILED") /\ Answer(c, "refused")
        \/ UNCHANGED moves /\ TryRefund(r0, "FAILED") /\ Answer(c, "refused")
    BY DEF RefundPost
  <2> QED
    BY <2>1, <2>2 DEF PostMove, Answer, TryRefund
<1> QED
  BY <1>4, <1>5, <1>6

LEMMA BackedStep ==
    ASSUME RInv, Paired, Backed, [Next]_vars
    PROVE  Paired' /\ Backed'
<1>0. Shape
  BY DEF RInv
<1>1. ASSUME NEW c \in Calls, UNCHANGED <<moves, refunds>>, pc'[c] \notin Posting,
             \A d \in Calls \ {c} : pc'[d] = pc[d] /\ mine'[d] = mine[d]
      PROVE  Paired' /\ Backed'
  <2>1. Grown
    BY <1>1 DEF Grown
  <2> QED
    BY <1>0, <1>1, <2>1, AsideBacked
<1>2. ASSUME NEW c \in Calls, NEW r \in Requests, Begin(c, r) PROVE Paired' /\ Backed'
  <2>1. /\ UNCHANGED <<moves, refunds>> /\ pc'[c] \notin Posting
        /\ \A d \in Calls \ {c} : pc'[d] = pc[d] /\ mine'[d] = mine[d]
    BY <1>0, <1>2, RequestAssumption DEF Shape, Begin, Answer, Goto, stored, Posting, RequestType
  <2> QED
    BY <1>1, <2>1
<1>3. ASSUME NEW c \in Calls, Step(c) \/ Stop(c) PROVE Paired' /\ Backed'
  <2>1. \A d \in Calls \ {c} : pc'[d] = pc[d]
    BY <1>0, <1>3, LabelStep
  <2>2. CASE Looks(c)
    BY <1>0, <1>1, <2>1, <2>2, LooksAside
  <2>3. CASE RefundInsert(c)
    BY <1>0, <2>3, InsertBacked
  <2>4. CASE RefundPost(c)
    BY <2>4, PostBacked
  <2>5. CASE RefundDone(c)
    <3>1. /\ mine[c] \in DOMAIN refunds /\ SetRefund(mine[c], "SUCCEEDED") /\ UNCHANGED <<moves, mine>>
          /\ pc'[c] \notin Posting
      BY <1>0, <2>5 DEF Shape, RefundDone, Posting, Answer
    <3>2. /\ DOMAIN refunds' = DOMAIN refunds /\ refunds'[mine[c]].status = "SUCCEEDED"
          /\ \A q \in DOMAIN refunds : /\ q # mine[c] => refunds'[q] = refunds[q]
                                       /\ refunds'[q].payment = refunds[q].payment
                                       /\ refunds'[q].amount = refunds[q].amount
                                       /\ refunds'[q].key = refunds[q].key
      BY <1>0, <3>1, RefundShape
    <3>3. Grown
      BY <3>1, <3>2 DEF Grown
    <3> QED
      BY <1>0, <2>1, <3>1, <3>2, <3>3, AsideBacked
  <2>6. CASE SettleCreate(c) \/ ProcessRead(c)
    <3>1. /\ UNCHANGED <<moves, refunds>> /\ pc'[c] \notin Posting
          /\ \A d \in Calls \ {c} : mine'[d] = mine[d]
      BY <1>0, <2>6 DEF Shape, SettleCreate, ProcessRead, Return, Goto, Answer, Posting, stored, TakeUp
    <3> QED
      BY <1>1, <2>1, <3>1
  <2>7. CASE ProcessFunds(c) \/ ProcessMark(c) \/
             ProviderFails(c) \/ ProviderPays(c) \/ ProcessPost(c) \/ ProcessDone(c)
    <3>1. /\ UNCHANGED <<refunds, mine>> /\ pc'[c] \notin Posting /\ mine[c] \in Nat
      BY <1>0, <2>7, ProcessSets DEF Shape, Posting, Working
    <3>2. CASE UNCHANGED moves
      BY <1>1, <2>1, <3>1, <3>2
    <3>3. CASE ProcessPost(c) /\ ~UNCHANGED moves
      <4> DEFINE m == Move(SettlementRef(mine[c]), Shop, Pool, TotalOf(mine[c]))
      <4>1. moves' = Append(moves, m) /\ m.ref = SettlementRef(mine[c])
        BY <3>3 DEF ProcessPost, PostMove, Move, TrySettlement
      <4> HIDE DEF m
      <4>2. PICK S : moves \in Seq(S)
        BY <1>0 DEF Shape
      <4>3. /\ \A n \in DOMAIN moves : n \in DOMAIN moves' /\ moves'[n] = moves[n]
            /\ \A n \in DOMAIN moves' \ DOMAIN moves : \E s \in Nat : moves'[n].ref = SettlementRef(s)
        BY <3>1, <4>1, <4>2
      <4>4. Grown
        BY <3>1, <4>3 DEF Grown
      <4> QED
        BY <1>0, <2>1, <3>1, <4>3, <4>4, AsideBacked
    <3> QED
      BY <2>7, <3>2, <3>3 DEF ProcessFunds, ProcessMark, ProviderFails, ProviderPays, ProcessDone,
           TrySettlement, stored
  <2> QED
    BY <1>3, <2>2, <2>3, <2>4, <2>5, <2>6, <2>7, Kinds DEF ProcessStep
<1>4. CASE UNCHANGED vars
  <2>1. UNCHANGED <<moves, refunds, pc, mine>>
    BY <1>4 DEF vars
  <2>2. Grown
    BY <2>1 DEF Grown
  <2>3. \A r \in DOMAIN refunds : OwnMove(r)' = OwnMove(r) /\ (Kept(r) => Kept(r)')
    BY <2>1, <2>2, GrownKeeps DEF Kept
  <2>4. Paired'
    BY <2>1 DEF Paired
  <2>5. Backed'
    BY <2>1, <2>3 DEF Backed, SettlementRef
  <2> QED
    BY <2>4, <2>5
<1> QED
  BY <1>2, <1>3, <1>4 DEF Next

\* On either backend, wherever a call stops and whatever its statements report,
\* what the ledger gave back of a payment is counted by GetTotalRefundedAmount: no
\* refund that moved money is on record as failed, and each entry has a refund of
\* its own.
THEOREM GivenBackIsCounted == Spec => []BackCounted
<1> DEFINE Inv == Typed /\ RInv /\ Once /\ ToPool /\ Paired /\ Backed
<1>1. Init => Inv
  <2> SUFFICES ASSUME Init PROVE Inv
    OBVIOUS
  <2>1. InRefund /\ RefundBooked /\ Once /\ ToPool /\ Paired /\ Backed
    BY DEF Init, InRefund, RefundBooked, Posting, Once, ToPool, Paired, Backed
  <2> QED
    BY <2>1, InitTyped DEF RInv, Typed
<1>2. Inv /\ [Next]_vars => Inv'
  BY TypedStep, ShapeStep, RefundSteps, MovesStep, BackedStep DEF RInv
<1>3. Inv => BackCounted
  <2>1. Backed => Accounted
    BY DEF Backed, Accounted, Kept
  <2> QED
    BY <2>1, BackWithin
<1> QED
  BY <1>1, <1>2, <1>3, PTL DEF Spec
-----------------------------------------------------------------------------
(* More comes back than was paid only when two checks overlap *)

\* Between the check of what remains of a payment and the insert of the refund.
Checked == {"r_funds", "r_create"}

\* Two refunds of one payment have been checked and neither is stored yet.
Overlap ==
    \E c, d \in Calls : /\ c # d /\ pc[c] \in Checked /\ pc[d] \in Checked
                         /\ req[c].payment = req[d].payment

\* What was checked remains.
Remains(c) ==
    pc[c] \in Checked => Refunded(req[c].payment) + req[c].amount <= Amount[req[c].payment]
Left ==
    /\ \A p \in Payments : Refunded(p) <= Amount[p]
    /\ \A c \in Calls : Remains(c)

\* Only the checks lead there.
LEMMA CheckStep ==
    ASSUME Shape, NEW c \in Calls, Step(c) \/ Stop(c), pc'[c] \in Checked
    PROVE  RefundTotal(c) \/ RefundFunds(c)
<1> USE DEF Shape, Answer, Goto, Return, Labels, Checked
<1>1. CASE RefundStep(c)
  BY <1>1 DEF RefundStep, RefundKey, RefundCreate, RefundInsert, RefundPost, RefundDone, TryRefund
<1>2. CASE SettleStep(c)
  BY <1>2 DEF SettleStep, SettleLock, SettleKey, ScanRefunded, ScanSettled, SettleCreate
<1>3. CASE ProcessStep(c)
  BY <1>3 DEF ProcessStep, ProcessRead, TakeUp, ProcessFunds, ProcessMark, ProviderFails,
       ProviderPays, ProcessPost, ProcessDone, TrySettlement, stored
<1>4. CASE Stop(c)
  BY <1>4 DEF Stop
<1> QED
  BY <1>1, <1>2, <1>3, <1>4 DEF Step

\* A step of a call that counts no more than was counted.
LEMMA LeftKept ==
    ASSUME Typed, Left, NEW c \in Calls,
           \A d \in Calls \ {c} : pc'[d] = pc[d] /\ req'[d] = req[d],
           \A p \in Payments : Refunded(p)' \in Nat /\ Refunded(p)' <= Refunded(p),
           Remains(c)'
    PROVE  Left'
<1>1. \A p \in Payments : Refunded(p) \in Nat /\ Amount[p] \in Nat
  BY SumTypes, PaymentAssumption DEF Typed, TypeOK
<1>2. \A p \in Payments : Refunded(p)' <= Amount[p]
  BY <1>1 DEF Left
<1>3. ASSUME NEW d \in Calls \ {c} PROVE Remains(d)'
  <2>1. CASE pc[d] \in Checked
    <3>1. req[d].payment \in Payments /\ req[d].amount \in Int
      BY <2>1, Called DEF Typed, Checked
    <3>2. Refunded(req[d].payment) + req[d].amount <= Amount[req[d].payment]
      BY <2>1 DEF Left, Remains
    <3> DEFINE p == req[d].payment
    <3>3. /\ Refunded(p)' \in Nat /\ Refunded(p)' <= Refunded(p)
          /\ Refunded(p) \in Nat /\ Amount[p] \in Nat
      BY <1>1, <3>1
    <3>4. Refunded(p)' + req[d].amount <= Amount[p]
      BY <3>1, <3>2, <3>3
    <3> QED
      BY <3>4 DEF Remains
  <2>2. CASE pc[d] \notin Checked
    BY <2>2 DEF Remains
  <2> QED
    BY <2>1, <2>2
<1> QED
  BY <1>2, <1>3 DEF Left

\* A step that leaves the refunds alone.
LEMMA AsideLeft ==
    ASSUME Typed, Left, UNCHANGED refunds, NEW c \in Calls, Step(c) \/ Stop(c)
    PROVE  Left'
<1>1. /\ pc[c] # "idle" /\ req' = req /\ pc' \in [Calls -> Labels]
      /\ \A d \in Calls \ {c} : pc'[d] = pc[d]
  BY LabelStep DEF Typed
<1>2. refunds \in Seq(Refund) /\ settlements \in Seq(Settlement) /\ refunds' = refunds
  BY DEF Typed, TypeOK
<1>3. \A p \in Payments : Refunded(p)' = Refunded(p)
  BY <1>2, RefundedFold, RefundedNext
<1>4. /\ req[c].payment \in Payments /\ req[c].amount \in Int
      /\ Refunded(req[c].payment) \in Nat /\ Amount[req[c].payment] \in Nat
  BY <1>1, <1>2, Called, SumTypes, PaymentAssumption DEF Typed
<1>5. ASSUME pc'[c] \in Checked
      PROVE  Refunded(req[c].payment) + req[c].amount <= Amount[req[c].payment]
  <2>1. CASE RefundTotal(c)
    BY <1>4, <1>5, <2>1 DEF RefundTotal, Answer, Goto, Checked, Typed, Shape
  <2>2. CASE RefundFunds(c)
    BY <2>2 DEF RefundFunds, Left, Remains, Checked
  <2> QED
    BY <1>5, <2>1, <2>2, CheckStep DEF Typed
<1>6. Remains(c)'
  <2> DEFINE p == req[c].payment
  <2>1. Refunded(p)' = Refunded(p)
    BY <1>1, <1>3, <1>4
  <2> QED
    BY <1>1, <1>5, <2>1 DEF Remains
<1>7. \A p \in Payments : Refunded(p)' \in Nat /\ Refunded(p)' <= Refunded(p)
  BY <1>2, <1>3, SumTypes
<1> QED
  BY <1>1, <1>6, <1>7, LeftKept

\* Nobody else has checked the payment of the refund that is inserted.
LEMMA InsertLeft ==
    ASSUME Typed, Left, ~Overlap, NEW c \in Calls, RefundInsert(c)
    PROVE  Left'
<1>1. /\ pc[c] = "r_create" /\ req' = req /\ pc'[c] = "r_post"
      /\ \A d \in Calls \ {c} : pc'[d] = pc[d]
  BY DEF RefundInsert, Goto, Typed, Shape
<1>2. Refunded(req[c].payment) + req[c].amount <= Amount[req[c].payment]
  BY <1>1 DEF Left, Remains, Checked
<1>3. ASSUME NEW p \in Payments
      PROVE  /\ Refunded(p)' <= Amount[p]
             /\ p # req[c].payment => Refunded(p)' = Refunded(p)
  <2>1. Refunded(p) <= Amount[p]
    BY DEF Left
  <2>2. Refunded(p)' = Refunded(p) + (IF p = req[c].payment THEN req[c].amount ELSE 0)
    BY InsertTotals
  <2>3. Refunded(p) \in Nat
    BY SumTypes DEF Typed, TypeOK
  <2>4. CASE p = req[c].payment
    BY <1>2, <2>2, <2>4
  <2>5. CASE p # req[c].payment
    BY <2>1, <2>2, <2>3, <2>5
  <2> QED
    BY <2>4, <2>5
<1>4. ASSUME NEW d \in Calls PROVE Remains(d)'
  <2>1. CASE d # c /\ pc[d] \in Checked
    <3>1. req[d].payment # req[c].payment
      BY <1>1, <2>1 DEF Overlap, Checked
    <3>2. req[d].payment \in Payments
      BY <2>1, Called DEF Typed, Checked
    <3> DEFINE p == req[d].payment
    <3>3. Refunded(p)' = Refunded(p)
      BY <1>1, <1>3, <3>1, <3>2
    <3>4. Refunded(p) + req[d].amount <= Amount[p]
      BY <2>1 DEF Left, Remains
    <3> QED
      BY <1>1, <3>3, <3>4 DEF Remains
  <2>2. CASE d = c \/ pc[d] \notin Checked
    BY <1>1, <2>2 DEF Remains, Checked
  <2> QED
    BY <2>1, <2>2
<1> QED
  BY <1>3, <1>4 DEF Left

LEMMA LeftStep ==
    ASSUME Typed, Paired, Left, ~Overlap, [Next]_vars
    PROVE  Left'
<1>0. Shape /\ refunds \in Seq(Refund) /\ settlements \in Seq(Settlement)
  BY DEF Typed, TypeOK
<1>1. ASSUME UNCHANGED refunds
      PROVE  \A p \in Payments : Refunded(p)' = Refunded(p) /\ Refunded(p) \in Nat
  BY <1>0, <1>1, RefundedFold, RefundedNext, SumTypes
<1>2. ASSUME NEW c \in Calls, NEW r \in Requests, Begin(c, r) PROVE Left'
  <2>1. /\ UNCHANGED refunds /\ pc'[c] \notin Checked
        /\ \A d \in Calls \ {c} : pc'[d] = pc[d] /\ req'[d] = req[d]
    BY <1>0, <1>2, RequestAssumption DEF Shape, Begin, Answer, Goto, stored, Checked, RequestType
  <2>2. Remains(c)'
    BY <2>1 DEF Remains
  <2>3. \A p \in Payments : Refunded(p)' \in Nat /\ Refunded(p)' <= Refunded(p)
    BY <1>1, <2>1
  <2> QED
    BY <2>1, <2>2, <2>3, LeftKept
<1>3. ASSUME NEW c \in Calls, Step(c) \/ Stop(c) PROVE Left'
  <2>1. req' = req /\ \A d \in Calls \ {c} : pc'[d] = pc[d]
    BY <1>0, <1>3, LabelStep
  <2>2. CASE UNCHANGED refunds
    BY <1>3, <2>2, AsideLeft
  <2>3. CASE RefundInsert(c)
    BY <2>3, InsertLeft
  <2>4. ASSUME NEW status \in {"SUCCEEDED", "FAILED"}, SetRefund(mine[c], status),
               pc[c] \in Posting, pc'[c] = "done"
        PROVE  Left'
    <3>1. mine[c] \in DOMAIN refunds /\ refunds[mine[c]].status # "FAILED"
      BY <1>0, <2>4 DEF Shape, Paired
    <3>2. \A p \in Payments : Refunded(p)' \in Nat /\ Refunded(p)' <= Refunded(p)
      BY <2>4, <3>1, StatusTotals
    <3>3. Remains(c)'
      BY <2>4 DEF Remains, Checked
    <3> QED
      BY <2>1, <3>2, <3>3, LeftKept
  <2>5. CASE RefundPost(c) /\ ~UNCHANGED refunds
    <3>1. SetRefund(mine[c], "FAILED") /\ pc[c] \in Posting /\ pc'[c] = "done"
      BY <1>0, <2>5 DEF RefundPost, Answer, Posting, Shape, TryRefund
    <3> QED
      BY <2>4, <3>1
  <2>6. CASE RefundDone(c)
    <3>1. SetRefund(mine[c], "SUCCEEDED") /\ pc[c] \in Posting /\ pc'[c] = "done"
      BY <1>0, <2>6 DEF RefundDone, Answer, Posting, Shape
    <3> QED
      BY <2>4, <3>1
  <2>7. CASE Looks(c)
    BY <1>0, <2>2, <2>7, LooksAside
  <2>8. CASE SettleCreate(c) \/ ProcessStep(c)
    BY <2>2, <2>8 DEF SettleCreate, ProcessStep, ProcessRead, TakeUp, ProcessFunds, ProcessMark,
         ProviderFails, ProviderPays,
                      ProcessPost, ProcessDone, stored, TrySettlement
  <2> QED
    BY <1>3, <2>2, <2>3, <2>5, <2>6, <2>7, <2>8, Kinds
<1>4. CASE UNCHANGED vars
  <2>1. UNCHANGED <<refunds, pc, req>>
    BY <1>4 DEF vars
  <2>2. \A p \in Payments : Refunded(p)' = Refunded(p)
    BY <1>1, <2>1
  <2>3. ASSUME NEW d \in Calls PROVE Remains(d)'
    <3>1. CASE pc[d] \in Checked
      <4> DEFINE p == req[d].payment
      <4>1. p \in Payments
        BY <1>0, <3>1, Called DEF Checked
      <4>2. Refunded(p)' = Refunded(p)
        BY <2>1, <2>2, <4>1
      <4> QED
        BY <2>1, <3>1, <4>2 DEF Left, Remains
    <3>2. CASE pc[d] \notin Checked
      BY <2>1, <3>2 DEF Remains
    <3> QED
      BY <3>1, <3>2
  <2> QED
    BY <2>2, <2>3 DEF Left
<1> QED
  BY <1>2, <1>3, <1>4 DEF Next

\* On either backend, wherever a call stops and whatever its statements report:
\* as long as no two refunds of one payment are between their check and their
\* insert at the same time, no payer gets back more than was paid.
THEOREM OverRefundIsARace == Spec /\ []~Overlap => []NoOverRefund
<1> DEFINE Inv == Typed /\ RInv /\ Once /\ ToPool /\ Paired /\ Backed /\ Left
<1>1. Init => Inv
  <2> SUFFICES ASSUME Init PROVE Inv
    OBVIOUS
  <2>1. InRefund /\ RefundBooked /\ Once /\ ToPool /\ Paired /\ Backed
    BY DEF Init, InRefund, RefundBooked, Posting, Once, ToPool, Paired, Backed
  <2>2. Left
    <3>1. \A p \in Payments : Refunded(p) = 0
      BY EmptyRefunded
    <3>2. \A c \in Calls : Remains(c)
      BY DEF Init, Remains, Checked
    <3> QED
      BY <3>1, <3>2, PaymentAssumption DEF Left
  <2> QED
    BY <2>1, <2>2, InitTyped DEF RInv, Typed
<1>2. Inv /\ ~Overlap /\ [Next]_vars => Inv'
  BY TypedStep, ShapeStep, RefundSteps, MovesStep, BackedStep, LeftStep DEF RInv
<1>3. Inv => NoOverRefund
  <2> SUFFICES ASSUME Inv, NEW p \in Payments
               PROVE  AmountOf({n \in DOMAIN moves : moves[n].to = p}) <= Amount[p]
    BY DEF NoOverRefund
  <2>1. Accounted
    BY DEF Backed, Accounted, Kept
  <2>2. AmountOf({n \in DOMAIN moves : moves[n].to = p}) <= Refunded(p)
    BY <2>1, BackWithin DEF BackCounted
  <2>3. Refunded(p) <= Amount[p] /\ Amount[p] \in Nat
    BY PaymentAssumption DEF Left
  <2> QED
    BY <2>1, <2>2, <2>3, BackWithin
<1> QED
  BY <1>1, <1>2, <1>3, PTL DEF Spec
-----------------------------------------------------------------------------
(* Of no payment more is paid out than was paid *)

Listing == {"s_refunded", "s_settled", "s_create"}

\* What the settlements that have not failed and are not doubtful take of a payment.
Claims == Live(settlements) \ doubtful
Claimed(p) == Total(ItemsOf(settlements, p), Claims)

\* What is found settleable of a payment is still there to settle, if what is
\* settled of it was read.
Scanned(c) ==
    /\ pc[c] \notin Listing \cup {"done"} => scan[c] = <<>>
    /\ \A j, k \in DOMAIN scan[c] : scan[c][j].payment = scan[c][k].payment => j = k
    /\ pc[c] \in Listing => \A k \in DOMAIN scan[c] :
          /\ scan[c][k].net <= Amount[scan[c][k].payment]
          /\ scan[c][k].read = "yes" =>
                scan[c][k].net <= Amount[scan[c][k].payment] - Claimed(scan[c][k].payment)

\* They take at most what was paid.
Bounded == \A p \in Payments : Claimed(p) <= Amount[p]

Settleable == Bounded /\ \A c \in Calls : Scanned(c)

LEMMA ClaimedType ==
    ASSUME Tables, NEW p \in Payments
    PROVE  /\ Claimed(p) \in Nat /\ Settled(p) \in Nat /\ Claimed(p) <= Settled(p)
           /\ IsFiniteSet(Claims) /\ Claims \in SUBSET DOMAIN settlements
           /\ \A s \in DOMAIN settlements : ItemsOf(settlements, p)[s] \in Nat
<1> DEFINE f == ItemsOf(settlements, p)
           S == Live(settlements)
<1>1. /\ IsFiniteSet(S) /\ S \in SUBSET DOMAIN settlements
      /\ \A s \in DOMAIN settlements : f[s] \in Nat
      /\ Settled(p) = Total(f, S) /\ Settled(p) \in Nat
  BY SettledFold, SumTypes DEF Tables
<1>2. Claims \in SUBSET S
  BY DEF Claims
<1>3. IsFiniteSet(Claims)
  BY <1>1, <1>2, FS_Subset
<1>4. \A s \in S : f[s] \in Nat
  BY <1>1
<1> HIDE DEF f, S
<1>5. Total(f, Claims) \in Nat /\ Total(f, Claims) <= Total(f, S)
  BY <1>1, <1>2, <1>4, TotalNat
<1> QED
  BY <1>1, <1>2, <1>3, <1>5 DEF Claimed, f

LEMMA ScanIn ==
    ASSUME Typed, NEW c \in Calls, NEW k \in DOMAIN scan[c]
    PROVE  /\ scan[c][k].payment \in Payments /\ scan[c][k].net \in Int
           /\ Amount[scan[c][k].payment] \in Nat /\ Claimed(scan[c][k].payment) \in Nat
<1>1. scan[c] \in Seq(ScanRow)
  BY DEF Typed, TypeOK, ScanRow
<1>2. scan[c][k] \in ScanRow
  BY <1>1, RowIn
<1>3. scan[c][k].payment \in Payments /\ scan[c][k].net \in Int
  BY <1>2 DEF ScanRow
<1> QED
  BY <1>3, ClaimedType, PaymentAssumption DEF Typed, TypeOK, Tables

\* A call that lists nothing, or whose list is left alone while the claims do
\* not grow.
LEMMA ScannedKept ==
    ASSUME Typed, NEW c \in Calls, Scanned(c), UNCHANGED scan[c],
           \/ /\ pc'[c] = pc[c]
              /\ \A p \in Payments : Claimed(p)' \in Nat /\ Claimed(p)' <= Claimed(p)
           \/ pc'[c] \notin Listing /\ (pc'[c] = "done" \/ pc[c] \notin Listing \cup {"done"})
           \/ pc[c] \notin Listing \cup {"done"}
    PROVE  Scanned(c)'
<1>1. /\ pc'[c] \notin Listing \cup {"done"} => scan'[c] = <<>>
      /\ \A j, k \in DOMAIN scan'[c] : scan'[c][j].payment = scan'[c][k].payment => j = k
  BY DEF Scanned
<1>2. ASSUME pc'[c] \in Listing, NEW k \in DOMAIN scan'[c]
      PROVE  /\ scan'[c][k].net <= Amount[scan'[c][k].payment]
             /\ scan'[c][k].read = "yes" =>
                   scan'[c][k].net <= Amount[scan'[c][k].payment] - Claimed(scan[c][k].payment)'
  <2>1. CASE pc[c] \notin Listing \cup {"done"}
    <3>1. scan[c] = <<>> /\ k \in DOMAIN scan[c]
      BY <1>2, <2>1 DEF Scanned
    <3> QED
      BY <3>1
  <2>2. CASE pc[c] \in Listing \cup {"done"}
    <3>1. /\ pc'[c] = pc[c] /\ k \in DOMAIN scan[c]
          /\ \A p \in Payments : Claimed(p)' \in Nat /\ Claimed(p)' <= Claimed(p)
      BY <1>2, <2>2 DEF Listing
    <3>2. PICK p : p = scan[c][k].payment /\ p = scan'[c][k].payment
      OBVIOUS
    <3>3. p \in Payments /\ scan[c][k].net \in Int /\ Amount[p] \in Nat /\ Claimed(p) \in Nat
      BY <3>1, <3>2, ScanIn
    <3>4. Claimed(p)' <= Claimed(p) /\ Claimed(p)' \in Nat
      BY <3>1, <3>3
    <3>5. /\ scan[c][k].net <= Amount[p]
          /\ scan[c][k].read = "yes" => scan[c][k].net <= Amount[p] - Claimed(p)
      BY <1>2, <3>1, <3>2 DEF Scanned
    <3>6. /\ scan'[c][k].net <= Amount[p]
          /\ scan'[c][k].read = "yes" => scan'[c][k].net <= Amount[p] - Claimed(p)'
      BY <3>3, <3>4, <3>5
    <3> QED
      BY <3>2, <3>6
  <2> QED
    BY <2>1, <2>2
<1> QED
  BY <1>1, <1>2 DEF Scanned

\* Claims that only fall leave the claimed amounts no larger.
LEMMA ClaimedShrinks ==
    ASSUME Tables, Tables', DOMAIN settlements' = DOMAIN settlements,
           \A s \in DOMAIN settlements : settlements'[s].items = settlements[s].items,
           Claims' \subseteq Claims, NEW p \in Payments
    PROVE  Claimed(p)' \in Nat /\ Claimed(p)' <= Claimed(p)
<1> DEFINE f == ItemsOf(settlements, p)
           g == ItemsOf(settlements', p)
           S == Claims
           T == Claims'
<1>1. IsFiniteSet(S) /\ \A s \in S : f[s] \in Nat
  BY ClaimedType
<1>2. Claimed(p) = Total(f, S) /\ Claimed(p)' = Total(g, T)
  BY DEF Claimed
<1>3. f = g /\ T \in SUBSET S
  BY DEF ItemsOf
<1> HIDE DEF f, g, S, T
<1>4. Total(f, T) \in Nat /\ Total(f, T) <= Total(f, S)
  BY <1>1, <1>3, TotalNat
<1> QED
  BY <1>2, <1>3, <1>4

LEMMA ClaimedSame ==
    ASSUME Typed, UNCHANGED <<settlements, doubtful>>, NEW p \in Payments
    PROVE  Claimed(p)' = Claimed(p) /\ Claimed(p) \in Nat
<1>1. Claimed(p)' = Claimed(p)
  BY DEF Claimed, Claims, ItemsOf, Live
<1> QED
  BY <1>1, ClaimedType DEF Typed, TypeOK, Tables

LEMMA ListNext ==
    ASSUME Typed, NEW c \in Calls, Scanned(c), ScanRefunded(c)
    PROVE  Scanned(c)'
<1>1. PICK p \in Payments \ {scan[c][k].payment : k \in DOMAIN scan[c]} : \E refunded \in Read(Refunded(p)) :
           scan' = [scan EXCEPT ![c] =
                      Append(@, [payment |-> p, net |-> Amount[p] - refunded, read |-> "no"])]
  BY DEF ScanRefunded
<1>2. PICK refunded \in Read(Refunded(p)) :
           scan' = [scan EXCEPT ![c] =
                      Append(@, [payment |-> p, net |-> Amount[p] - refunded, read |-> "no"])]
  BY <1>1
<1>3. refunded \in Nat /\ Amount[p] \in Nat /\ p \in Payments
  BY <1>2, SumTypes, ReadType, PaymentAssumption DEF Typed, TypeOK
<1>4. /\ pc[c] = "s_refunded" /\ pc'[c] = "s_settled" /\ UNCHANGED <<settlements, doubtful>>
  BY DEF ScanRefunded, Goto, stored, Typed, TypeOK
<1> DEFINE row == [payment |-> p, net |-> Amount[p] - refunded, read |-> "no"]
           q == scan[c]
           n == Len(q) + 1
<1>5. /\ row \in ScanRow /\ q \in Seq(ScanRow) /\ row.payment = p /\ row.net <= Amount[p]
      /\ row.net \in Int /\ row.read = "no"
  <2>1. scan[c] \in Seq(ScanRow)
    BY DEF ScanRow, Typed, TypeOK
  <2>2. Amount[p] - refunded <= Amount[p] /\ Amount[p] - refunded \in Int
    BY <1>3
  <2> QED
    BY <1>3, <2>1, <2>2 DEF ScanRow
<1>6. scan'[c] = Append(q, row)
  BY <1>2 DEF Typed, TypeOK
<1> HIDE DEF row
<1>7. /\ DOMAIN scan'[c] = DOMAIN q \cup {n} /\ n \notin DOMAIN q /\ scan'[c][n] = row
      /\ \A k \in DOMAIN q : scan'[c][k] = q[k]
  <2> HIDE DEF q
  <2> QED
    BY <1>5, <1>6
<1>8. \A k \in DOMAIN q : q[k].payment # p
  BY <1>1
<1>9. \A j, k \in DOMAIN scan'[c] : scan'[c][j].payment = scan'[c][k].payment => j = k
  <2>1. \A j, k \in DOMAIN q : q[j].payment = q[k].payment => j = k
    BY DEF Scanned
  <2> HIDE DEF q
  <2> QED
    BY <1>5, <1>7, <1>8, <2>1
<1>10. ASSUME NEW k \in DOMAIN scan'[c]
       PROVE  /\ scan'[c][k].net <= Amount[scan'[c][k].payment]
              /\ scan'[c][k].read = "yes" => scan'[c][k].net <=
                    Amount[scan'[c][k].payment] - Claimed(scan[c][k].payment)'
  <2>1. CASE k = n
    BY <1>5, <1>7, <2>1
  <2>2. CASE k # n
    <3>1. k \in DOMAIN scan[c] /\ scan'[c][k] = scan[c][k]
      BY <1>7, <2>2
    <3>2. PICK t \in Payments : t = scan[c][k].payment
      BY <3>1, ScanIn
    <3>3. t = scan'[c][k].payment /\ Claimed(t)' = Claimed(t)
      BY <1>4, <3>1, <3>2, ClaimedSame
    <3>4. scan[c][k].net <= Amount[t] /\ (scan[c][k].read = "yes" => scan[c][k].net <= Amount[t] - Claimed(t))
      BY <1>4, <3>1, <3>2 DEF Scanned, Listing
    <3>5. /\ scan'[c][k].net <= Amount[t]
          /\ scan'[c][k].read = "yes" => scan'[c][k].net <= Amount[t] - Claimed(t)'
      BY <3>1, <3>3, <3>4
    <3> QED
      BY <3>3, <3>5
  <2> QED
    BY <2>1, <2>2
<1> QED
  BY <1>4, <1>9, <1>10 DEF Scanned, Listing

LEMMA ListSettled ==
    ASSUME Typed, NEW c \in Calls, Scanned(c), ScanSettled(c)
    PROVE  Scanned(c)'
<1> DEFINE q == scan[c]
           last == Len(q)
           p == q[last].payment
<1>1. PICK settled \in Read(Settled(p)) :
         scan' = [scan EXCEPT ![c][last].net = @ - settled,
                              ![c][last].read = IF settled = Settled(p) THEN "yes" ELSE "no"]
  BY DEF ScanSettled
<1> DEFINE row == [q[last] EXCEPT !.net = @ - settled,
                                  !.read = IF settled = Settled(p) THEN "yes" ELSE "no"]
<1>2. pc[c] = "s_settled" /\ pc'[c] \in {"s_create", "s_refunded"} /\ UNCHANGED <<settlements, doubtful>>
  BY DEF ScanSettled, Goto, stored, Typed, TypeOK
<1>3. q \in Seq(ScanRow) /\ q # <<>>
  BY <1>2 DEF Typed, TypeOK, ScanRow
<1>4. last \in DOMAIN q
  <2> HIDE DEF q
  <2> QED
    BY <1>3
<1>5. /\ p \in Payments /\ q[last].net \in Int /\ Amount[p] \in Nat
      /\ q[last] \in ScanRow /\ Claimed(p) \in Nat /\ Settled(p) \in Nat /\ Claimed(p) <= Settled(p)
  BY <1>3, <1>4, ScanIn, RowIn, ClaimedType DEF Typed, TypeOK, Tables
<1>6. settled \in Nat
  BY <1>1, <1>5, ReadType
<1>7. row.payment = p /\ row.net = q[last].net - settled
      /\ (row.read = "yes" => settled = Settled(p))
  BY <1>5 DEF ScanRow
<1>8. scan'[c] = [q EXCEPT ![last] = row]
  BY <1>1 DEF Typed, TypeOK
<1>9. /\ DOMAIN scan'[c] = DOMAIN q /\ scan'[c][last] = row
      /\ \A k \in DOMAIN q \ {last} : scan'[c][k] = q[k]
  <2> HIDE DEF row, q
  <2> QED
    BY <1>3, <1>4, <1>8
<1>10. \A k \in DOMAIN q : scan'[c][k].payment = q[k].payment
  BY <1>7, <1>9
<1> HIDE DEF row
<1>11. ASSUME NEW k \in DOMAIN scan'[c]
       PROVE  /\ scan'[c][k].net <= Amount[scan'[c][k].payment]
              /\ scan'[c][k].read = "yes" => scan'[c][k].net <=
                    Amount[scan'[c][k].payment] - Claimed(scan[c][k].payment)'
  <2>1. PICK t \in Payments : t = scan[c][k].payment
    BY <1>9, ScanIn
  <2>2. t = scan'[c][k].payment /\ Claimed(t)' = Claimed(t)
    BY <1>2, <1>9, <1>10, <2>1, ClaimedSame
  <2>3. scan[c][k].net <= Amount[t] /\ (scan[c][k].read = "yes" => scan[c][k].net <= Amount[t] - Claimed(t))
    BY <1>2, <1>9, <2>1 DEF Scanned, Listing
  <2>4. /\ scan'[c][k].net <= Amount[t]
        /\ scan'[c][k].read = "yes" => scan'[c][k].net <= Amount[t] - Claimed(t)'
    <3>1. CASE k = last
      <4>1. t = p /\ scan'[c][k].net = q[last].net - settled /\ q[last].net <= Amount[p]
            /\ (scan'[c][k].read = "yes" => settled = Settled(p))
        BY <1>6, <1>7, <1>9, <2>1, <2>3, <3>1
      <4> HIDE DEF p, q, last
      <4> QED
        BY <1>5, <1>6, <2>2, <4>1
    <3>2. CASE k # last
      <4>1. scan'[c][k] = scan[c][k]
        BY <1>9, <3>2
      <4> QED
        BY <2>2, <2>3, <4>1
    <3> QED
      BY <3>1, <3>2
  <2> QED
    BY <2>2, <2>4
<1>12. \A j, k \in DOMAIN scan'[c] : scan'[c][j].payment = scan'[c][k].payment => j = k
  BY <1>9, <1>10 DEF Scanned
<1> QED
  BY <1>2, <1>11, <1>12 DEF Scanned, Listing

\* Of every payment the batch takes at most what is still there to settle.
LEMMA BatchBound ==
    ASSUME Typed, Settleable, NEW c \in Calls, pc[c] = "s_create", NEW p \in Payments,
           \A k \in DOMAIN scan[c] : scan[c][k].read = "yes"
    PROVE  Batch(c)[p] \in Nat /\ Claimed(p) + Batch(c)[p] <= Amount[p]
<1> DEFINE S == {k \in DOMAIN scan[c] : scan[c][k].payment = p}
           f == [k \in DOMAIN scan[c] |-> Take(c, k)]
<1>0. /\ scan[c] \in Seq(ScanRow) /\ req[c].amount \in Int /\ Scanned(c)
      /\ Claimed(p) \in Nat /\ Amount[p] \in Nat /\ Claimed(p) <= Amount[p]
  BY Called, ClaimedType, PaymentAssumption DEF Typed, TypeOK, Tables, ScanRow, Settleable, Bounded
<1>1. Batch(c)[p] = Sum(S, LAMBDA k : Take(c, k)) /\ Batch(c)[p] \in Nat
  <2>1. Batch(c)[p] \in Nat
    BY <1>0, BatchType
  <2>2. Batch(c)[p] = Sum(S, LAMBDA k : Take(c, k))
    BY DEF Batch
  <2> HIDE DEF S
  <2> QED
    BY <2>1, <2>2
<1>2. IsFiniteSet(DOMAIN scan[c]) /\ IsFiniteSet(S) /\ S \in SUBSET DOMAIN scan[c]
  BY <1>0, RowsFinite, FS_Subset
<1>3. Batch(c)[p] = Total(f, S)
  <2> HIDE DEF S
  <2> QED
    BY <1>1, <1>2, TakeFold
<1>4. CASE S = {}
  <2>1. Total(f, S) = 0
    BY <1>4, TotalEmpty, Zenon
  <2> QED
    BY <1>0, <1>1, <1>3, <2>1
<1>5. ASSUME NEW k \in S PROVE Claimed(p) + Batch(c)[p] <= Amount[p]
  <2>1. k \in DOMAIN scan[c] /\ scan[c][k].payment = p /\ \A j \in S : j = k
    BY <1>0 DEF Scanned
  <2>2. f[k] = Take(c, k) /\ Take(c, k) \in Nat /\ Take(c, k) <= Net(c, k)
    BY <1>0, <2>1, TakeType
  <2>3. Total(f, S) = f[k]
    <3>1. \A j \in S \ {k} : f[j] = 0
      BY <2>1
    <3>2. f[k] \in Int /\ k \in S
      BY <2>2
    <3> HIDE DEF f, S
    <3> QED
      BY <1>2, <3>1, <3>2, TotalOne
  <2>4. scan[c][k].net <= Amount[p] - Claimed(p) /\ scan[c][k].net \in Int
    BY <1>0, <2>1, ScanIn DEF Scanned, Listing
  <2>5. Net(c, k) <= Amount[p] - Claimed(p) /\ Net(c, k) \in Nat
    BY <1>0, <2>4 DEF Net
  <2> QED
    BY <1>0, <1>1, <1>3, <2>2, <2>3, <2>5
<1> QED
  BY <1>1, <1>4, <1>5

LEMMA CreateBounded ==
    ASSUME Typed, Settleable, NEW c \in Calls, SettleCreate(c)
    PROVE  Bounded'
<1>0. /\ settlements \in Seq(Settlement) /\ settlements' \in Seq(Settlement) /\ pc[c] = "s_create"
      /\ doubtful \subseteq DOMAIN settlements
  BY ProcessTypes DEF Typed, TypeOK, Tables, SettleCreate
<1> DEFINE new == [items |-> Batch(c), key |-> req[c].key, status |-> "PENDING"]
           k == Len(settlements) + 1
           all == \A j \in DOMAIN scan[c] : scan[c][j].read = "yes"
<1>1. CASE UNCHANGED <<settlements, doubtful>>
  BY <1>1, ClaimedSame DEF Settleable, Bounded
<1>2. CASE settlements' = Append(settlements, new) /\ doubtful' = doubtful \cup (IF all THEN {} ELSE {k})
  <2>1. new \in Settlement /\ new.items = Batch(c) /\ new.status = "PENDING"
    <3>1. req[c].key \in Keys \cup {NoKey} /\ req[c].amount \in Int /\ scan[c] \in Seq(ScanRow)
      BY <1>0, Called DEF Typed, TypeOK, ScanRow
    <3> QED
      BY <3>1, BatchType DEF Settlement
  <2> HIDE DEF new
  <2>2. /\ DOMAIN settlements' = DOMAIN settlements \cup {k} /\ k \notin DOMAIN settlements
        /\ settlements'[k] = new /\ \A s \in DOMAIN settlements : settlements'[s] = settlements[s]
    BY <1>0, <1>2, <2>1
  <2> HIDE DEF k, all
  <2>3. /\ Claims' = Claims \cup (IF all THEN {k} ELSE {}) /\ k \notin Claims
        /\ Claims \subseteq DOMAIN settlements
    BY <1>0, <1>2, <2>1, <2>2 DEF Claims, Live
  <2>4. ASSUME NEW p \in Payments PROVE Claimed(p)' <= Amount[p]
    <3> DEFINE f == ItemsOf(settlements, p)
               g == ItemsOf(settlements', p)
               S == Claims
               T == Claims'
    <3>1. /\ IsFiniteSet(S) /\ (\A s \in S : f[s] \in Nat) /\ Claimed(p) = Total(f, S)
          /\ Claimed(p)' = Total(g, T) /\ Claimed(p) <= Amount[p] /\ Claimed(p) \in Nat
          /\ Amount[p] \in Nat
      BY ClaimedType, PaymentAssumption DEF Typed, TypeOK, Tables, Claimed, Settleable, Bounded
    <3>2. (\A s \in S : g[s] = f[s]) /\ g[k] = Batch(c)[p]
      BY <2>1, <2>2, <2>3 DEF ItemsOf
    <3>3. T = S \cup (IF all THEN {k} ELSE {}) /\ k \notin S
      BY <2>3
    <3>4. all => Batch(c)[p] \in Nat /\ Claimed(p) + Batch(c)[p] <= Amount[p]
      BY <1>0, BatchBound DEF all
    <3> HIDE DEF f, g, S, T
    <3>5. Total(g, S) = Total(f, S)
      BY <3>1, <3>2, TotalSame
    <3>6. CASE all
      <4>1. T = S \cup {k} /\ k \in T \ S /\ S \in SUBSET T /\ IsFiniteSet(T)
        BY <3>1, <3>3, <3>6, FS_AddElement
      <4>2. \A s \in T : g[s] \in Int
        BY <3>1, <3>2, <3>4, <3>6, <4>1
      <4>3. Total(g, S \cup {k}) = Total(g, S) + g[k]
        BY <4>1, <4>2, TotalInsert
      <4>4. Total(g, T) = Total(g, S \cup {k})
        BY <4>1, Zenon
      <4> QED
        BY <3>1, <3>2, <3>4, <3>5, <3>6, <4>3, <4>4
    <3>7. CASE ~all
      <4>1. T = S
        BY <3>3, <3>7
      <4> QED
        BY <3>1, <3>5, <4>1
    <3> QED
      BY <3>6, <3>7
  <2> QED
    BY <2>4 DEF Bounded
<1> QED
  BY <1>1, <1>2 DEF SettleCreate

\* No claim comes up but by a new settlement: the status of a settlement that is
\* not doubtful is set by the one call that works on it, and it has not failed.
LEMMA StatusShrinks ==
    ASSUME Typed, PInv, NEW c \in Calls, ProcessStep(c), NEW p \in Payments
    PROVE  Claimed(p)' \in Nat /\ Claimed(p)' <= Claimed(p)
<1>0. Tables /\ Tables' /\ doubtful \subseteq doubtful'
  BY ProcessTypes, DoubtStep DEF Typed, TypeOK, Tables, Step
<1>1. CASE UNCHANGED settlements
  <2>1. Claims' \subseteq Claims
    BY <1>0, <1>1 DEF Claims
  <2> QED
    BY <1>0, <1>1, <2>1, ClaimedShrinks
<1>2. CASE ~UNCHANGED settlements
  <2>0. \/ ProcessFunds(c) \/ ProcessMark(c) \/ ProviderFails(c) \/ ProviderPays(c)
        \/ ProcessPost(c) \/ ProcessDone(c)
    BY <1>2 DEF ProcessStep, ProcessRead
  <2>1. PICK s0 \in DOMAIN settlements : s0 = mine[c] /\ pc[c] \in Working
    BY <2>0, ProcessSets DEF PInv
  <2>2. PICK status \in SettlementStatuses : SetSettlement(s0, status)
    BY <1>2, <2>0, <2>1, ProcessSets DEF PInv
  <2>3. /\ DOMAIN settlements' = DOMAIN settlements
        /\ \A t \in DOMAIN settlements \ {s0} : settlements'[t] = settlements[t]
    BY <2>2, StatusShape DEF PInv
  <2>4. settlements'[s0].items = settlements[s0].items
    <3>1. settlements[s0] \in Settlement
      BY <1>0, RowIn DEF Tables
    <3>2. [settlements[s0] EXCEPT !.status = status].items = settlements[s0].items
      BY <3>1 DEF Settlement
    <3>3. settlements'[s0] = [settlements[s0] EXCEPT !.status = status]
      BY <1>0, <2>2 DEF SetSettlement, Tables
    <3> QED
      BY <3>2, <3>3
  <2>5. s0 \notin doubtful => settlements[s0].status \in {"PENDING", "PROCESSING"}
    BY <2>1 DEF PInv, InProcess, InStep, Working
  <2>6. Claims' \subseteq Claims
    BY <1>0, <2>3, <2>5 DEF Claims, Live
  <2>7. \A s \in DOMAIN settlements : settlements'[s].items = settlements[s].items
    BY <2>3, <2>4
  <2> QED
    BY <1>0, <2>3, <2>6, <2>7, ClaimedShrinks
<1> QED
  BY <1>1, <1>2

LEMMA SettleableStep ==
    ASSUME Typed, PInv, Settleable, [Next]_vars
    PROVE  Settleable'
<1>0. \A d \in Calls : pc[d] \in Listing => settlementMu = d
  BY DEF Typed, TypeOK, Listing, UnderMutex
<1>1. ASSUME NEW c \in Calls, UNCHANGED <<settlements, doubtful>>,
             \A d \in Calls \ {c} : pc'[d] = pc[d] /\ scan'[d] = scan[d], Scanned(c)'
      PROVE  Settleable'
  <2>1. \A p \in Payments : Claimed(p)' = Claimed(p) /\ Claimed(p) \in Nat
    BY <1>1, ClaimedSame
  <2>2. \A d \in Calls \ {c} : Scanned(d)'
    BY <1>1, <2>1, ScannedKept DEF Settleable
  <2> QED
    BY <1>1, <2>1, <2>2 DEF Settleable, Bounded
<1>2. ASSUME NEW c \in Calls, NEW r \in Requests, Begin(c, r) PROVE Settleable'
  <2>1. /\ UNCHANGED <<settlements, doubtful>> /\ pc[c] = "idle" /\ pc'[c] \notin Listing
        /\ \A d \in Calls : scan'[d] = scan[d] /\ (d # c => pc'[d] = pc[d])
    BY <1>2, RequestAssumption DEF Begin, Answer, Goto, stored, Typed, TypeOK, RequestType, Listing
  <2>2. Scanned(c)'
    BY <2>1, ScannedKept DEF Settleable, Listing
  <2> QED
    BY <1>1, <2>1, <2>2
<1>3. ASSUME NEW c \in Calls, Step(c) \/ Stop(c) PROVE Settleable'
  <2>1. /\ \A d \in Calls \ {c} : pc'[d] = pc[d] /\ scan'[d] = scan[d]
        /\ Scanned(c)
    BY <1>3, LabelStep, ScanTypes DEF Typed, Settleable
  <2>2. CASE ScanRefunded(c)
    BY <1>1, <2>1, <2>2, ListNext DEF ScanRefunded, stored
  <2>3. CASE ScanSettled(c)
    BY <1>1, <2>1, <2>3, ListSettled DEF ScanSettled, stored
  <2>4. CASE SettleLock(c) \/ SettleKey(c)
    <3>1. /\ UNCHANGED <<settlements, doubtful, scan>> /\ pc[c] \notin Listing \cup {"done"}
      BY <2>4 DEF SettleLock, SettleKey, stored, Listing
    <3> QED
      BY <1>1, <2>1, <3>1, ScannedKept
  <2>5. CASE Stop(c)
    <3>1. UNCHANGED <<settlements, doubtful, scan>> /\ pc'[c] = "done"
      BY <2>5 DEF Stop, Answer, stored, Typed, TypeOK
    <3> QED
      BY <1>1, <2>1, <3>1, ScannedKept DEF Listing
  <2>6. CASE RefundStep(c)
    <3>1. UNCHANGED <<settlements, doubtful, scan>> /\ pc[c] \notin Listing \cup {"done"}
      BY <2>6 DEF RefundStep, RefundKey, RefundTotal, RefundFunds, RefundCreate, RefundInsert,
                  RefundPost, RefundDone, stored, Listing
    <3> QED
      BY <1>1, <2>1, <3>1, ScannedKept
  <2>7. CASE SettleCreate(c)
    <3>1. UNCHANGED scan /\ pc[c] = "s_create" /\ pc'[c] = "done"
      BY <2>7 DEF SettleCreate, Return, Answer, Typed, TypeOK
    <3>2. Scanned(c)'
      BY <2>1, <3>1, ScannedKept DEF Listing
    <3>3. ASSUME NEW d \in Calls \ {c} PROVE Scanned(d)'
      <4>1. pc[d] \notin Listing /\ pc'[d] = pc[d] /\ scan'[d] = scan[d]
        BY <1>0, <2>1, <3>1 DEF Listing
      <4> QED
        BY <4>1, ScannedKept DEF Settleable
    <3> QED
      BY <2>7, <3>2, <3>3, CreateBounded DEF Settleable
  <2>8. CASE ProcessStep(c)
    <3>1. UNCHANGED scan /\ pc[c] \notin Listing \cup {"done"}
      BY <2>8 DEF ProcessStep, ProcessRead, ProcessFunds, ProcessMark, ProviderFails, ProviderPays,
                  ProcessPost, ProcessDone, stored, Listing
    <3>2. \A p \in Payments : Claimed(p)' \in Nat /\ Claimed(p)' <= Claimed(p)
      BY <2>8, StatusShrinks
    <3>3. Bounded'
      <4>1. ASSUME NEW p \in Payments PROVE Claimed(p)' <= Amount[p]
        <5>1. /\ Claimed(p) <= Amount[p] /\ Amount[p] \in Nat /\ Claimed(p) \in Nat
              /\ Claimed(p)' \in Nat /\ Claimed(p)' <= Claimed(p)
          BY <3>2, ClaimedType, PaymentAssumption DEF Settleable, Bounded, Typed, TypeOK, Tables
        <5> QED
          BY <5>1
      <4> QED
        BY <4>1 DEF Bounded
    <3>4. \A d \in Calls : Scanned(d)'
      BY <2>1, <3>1, <3>2, ScannedKept DEF Settleable
    <3> QED
      BY <3>3, <3>4 DEF Settleable
  <2> QED
    BY <1>3, <2>2, <2>3, <2>4, <2>5, <2>6, <2>7, <2>8 DEF Step, SettleStep
<1>4. ASSUME UNCHANGED vars PROVE Settleable'
  <2>1. UNCHANGED <<settlements, doubtful, pc, scan>>
    BY <1>4 DEF vars
  <2>2. \A p \in Payments : Claimed(p)' = Claimed(p) /\ Claimed(p) \in Nat
    BY <2>1, ClaimedSame
  <2>3. \A d \in Calls : Scanned(d)'
    BY <2>1, <2>2, ScannedKept DEF Settleable
  <2> QED
    BY <2>2, <2>3 DEF Settleable, Bounded
<1> QED
  BY <1>2, <1>3, <1>4 DEF Next

\* On either repository, wherever calls stop and whatever is not stored: the
\* settlements that were paid out take of no payment more than was paid, but for
\* those that two calls processed at once, whose mark was lost, or which were
\* created while the query of what is settled failed.
THEOREM NotPaidOutTwice == Spec => []PaidOutOnce
<1> DEFINE Inv == Typed /\ PInv /\ Settleable
<1>1. Init => Inv
  <2> SUFFICES ASSUME Init PROVE Inv
    OBVIOUS
  <2>1. Claims = {}
    BY DEF Init, Claims, Live
  <2>2. ASSUME NEW p \in Payments PROVE Claimed(p) = 0
    BY <2>1, TotalEmpty, Zenon DEF Claimed
  <2>3. Bounded
    BY <2>2, PaymentAssumption DEF Bounded
  <2>4. ASSUME NEW c \in Calls PROVE Scanned(c)
    <3>1. scan[c] = <<>> /\ pc[c] = "idle"
      BY DEF Init
    <3> QED
      BY <3>1 DEF Scanned, Listing
  <2> QED
    BY <2>3, <2>4, InitTyped, PInvInit DEF Settleable
<1>2. Inv /\ [Next]_vars => Inv'
  BY TypedStep, ShapeStep, ProcessStays, SettleableStep DEF PInv
<1>3. Inv => PaidOutOnce
  <2> SUFFICES ASSUME Inv, NEW p \in Payments
               PROVE  Sum({s \in DOMAIN settlements \ doubtful : MovesOf(SettlementRef(s)) # {}},
                          LAMBDA s : settlements[s].items[p]) <= Amount[p]
    BY DEF PaidOutOnce
  <2> DEFINE S == {s \in DOMAIN settlements \ doubtful : MovesOf(SettlementRef(s)) # {}}
             f == ItemsOf(settlements, p)
             T == Claims
  <2>0. settlements \in Seq(Settlement)
    BY DEF Typed, TypeOK
  <2>1. /\ IsFiniteSet(T) /\ T \in SUBSET DOMAIN settlements /\ Claimed(p) \in Nat
        /\ \A s \in DOMAIN settlements : f[s] \in Nat
    BY ClaimedType DEF Typed, TypeOK, Tables
  <2>2. S \in SUBSET T
    <3>1. ASSUME NEW s \in S PROVE s \in T
      <4>1. s \in DOMAIN settlements /\ s \in Nat /\ Paid(s) /\ Booked(s) /\ s \notin doubtful
        BY PaidMoves, SettlementsDomain DEF PInv, InProcess
      <4>2. settlements[s].status \in {"PENDING", "PROCESSING", "SUCCEEDED", "FAILED"}
        <5>1. settlements[s] \in Settlement
          BY <2>0, <4>1, RowIn
        <5> QED
          BY <5>1 DEF Settlement
      <4> QED
        BY <4>1, <4>2 DEF Booked, Live, Claims
    <3> QED
      BY <3>1
  <2>3. IsFiniteSet(S) /\ S \in SUBSET DOMAIN settlements
    BY <2>1, <2>2, FS_Subset
  <2>4. Claimed(p) <= Amount[p] /\ Amount[p] \in Nat /\ Claimed(p) = Total(f, T)
    BY PaymentAssumption DEF Settleable, Bounded, Claimed
  <2> HIDE DEF S, T
  <2>5. Sum(S, LAMBDA s : settlements[s].items[p]) = Total(f, S)
    BY <2>3, ItemsFold
  <2> HIDE DEF f
  <2>6. \A s \in T : f[s] \in Nat
    BY <2>1
  <2>7. Total(f, S) \in Nat /\ Total(f, S) <= Total(f, T)
    BY <2>1, <2>2, <2>6, TotalNat
  <2>8. Sum(S, LAMBDA s : settlements[s].items[p]) <= Amount[p]
    BY <2>1, <2>4, <2>5, <2>7
  <2> QED
    BY <2>8 DEF S
<1> QED
  BY <1>1, <1>2, <1>3, PTL DEF Spec
=============================================================================
