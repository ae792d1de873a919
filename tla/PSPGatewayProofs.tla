-------------------------- MODULE PSPGatewayProofs --------------------------
(***************************************************************************)
(* Proofs about the PSP gateway, for any number of calls, keys, events and *)
(* transactions: what the rail executed is on record, the statuses shown   *)
(* implement StatusBoard, and a retry of what is on record is not executed.*)
(***************************************************************************)
EXTENDS PSPGateway, FiniteSetTheorems, SequenceTheorems, TLAPS

Executing == {"key", "rail", "blind", "store"}
Polling == {"read", "ask", "update"}
Handling == {"known", "record", "find", "apply"}
Labels == {"idle", "done"} \cup Executing \cup Polling \cup Handling

LEMMA LabelSets ==
    /\ {"idle", "done"} \cup UNION {LabelsOf(op) : op \in Operations \cup {"poll", "event"}} = Labels
    /\ \A op \in Operations : LabelsOf(op) = Executing
    /\ LabelsOf("poll") = Polling
    /\ LabelsOf("event") = Handling
<1>1. \A op \in Operations : LabelsOf(op) = Executing
  BY DEF LabelsOf, Operations, Executing
<1>2. LabelsOf("poll") = Polling
  BY DEF LabelsOf, Operations, Polling
<1>3. LabelsOf("event") = Handling
  BY DEF LabelsOf, Operations, Handling
<1>4. UNION {LabelsOf(op) : op \in Operations \cup {"poll", "event"}} = Executing \cup Polling \cup Handling
  <2>1. "payment" \in Operations
    BY DEF Operations
  <2> QED
    BY <1>1, <1>2, <1>3, <2>1
<1> QED
  BY <1>1, <1>2, <1>3, <1>4 DEF Labels

LEMMA RequestFields ==
    /\ \A r \in RequestType : r.op \in Operations \cup {"poll", "event"}
    /\ \A r \in RequestType : r.op \in Operations => r.key \in Keys \cup {NoKey}
    /\ \A r \in RequestType : r.op = "poll" => r.tx \in Nat
    /\ \A r \in RequestType : r.op = "event" =>
          r.id \in EventIds \cup {NoId} /\ r.tx \in Nat /\ r.raw \in RawStatuses
BY DEF RequestType, Operations

\* What a call at a label works on.
Working(c) ==
    /\ pc[c] \in {"idle", "key", "rail", "blind"} => mine[c] = NoTx
    /\ pc[c] = "store" => mine[c] \in DOMAIN rail
    /\ pc[c] # "idle" => req[c] \in Requests

\* The variables of one call.
Placed(c) ==
    /\ pc[c] \in {"idle", "done"} \cup LabelsOf(req[c].op)
    /\ pc[c] \in {"ask", "update", "apply"} => mine[c] \in RowsOfTx(req[c].tx)

TInv == TypeOK /\ \A c \in Calls : Working(c)

LEMMA AtLabel ==
    ASSUME TypeOK, NEW c \in Calls
    PROVE  /\ pc[c] \in Labels
           /\ pc[c] \in Executing => req[c].op \in Operations /\ req[c].key \in Keys \cup {NoKey}
           /\ pc[c] \in Polling => req[c].op = "poll" /\ req[c].tx \in Nat
           /\ pc[c] \in Handling => /\ req[c].op = "event" /\ req[c].id \in EventIds \cup {NoId}
                                    /\ req[c].tx \in Nat /\ req[c].raw \in RawStatuses
<1>1. req[c] \in RequestType
  BY DEF TypeOK
<1>2. pc[c] \in Labels /\ pc[c] \in {"idle", "done"} \cup LabelsOf(req[c].op)
  BY LabelSets DEF TypeOK
<1>3. CASE req[c].op \in Operations
  BY <1>1, <1>2, <1>3, LabelSets, RequestFields DEF Executing, Polling, Handling
<1>4. CASE req[c].op = "poll"
  BY <1>1, <1>2, <1>4, LabelSets, RequestFields DEF Executing, Polling, Handling
<1>5. CASE req[c].op = "event"
  BY <1>1, <1>2, <1>5, LabelSets, RequestFields DEF Executing, Polling, Handling
<1> QED
  BY <1>1, <1>3, <1>4, <1>5, RequestFields
-----------------------------------------------------------------------------
(* The types *)

\* A step of c changes the variables of c alone, and keeps what is stored.
Frame(c) ==
    /\ pc' \in [Calls -> Labels] /\ req' \in [Calls -> RequestType] /\ mine' \in [Calls -> Nat]
    /\ seen' \in [Calls -> Statuses \cup RawStatuses]
    /\ outcome' \in [Calls -> {"none", "ok", "existing", "refused", "lost"}]
    /\ \A d \in Calls \ {c} : /\ pc'[d] = pc[d] /\ req'[d] = req[d] /\ mine'[d] = mine[d]
                              /\ outcome'[d] = outcome[d]

Kept ==
    /\ rail' \in Seq(RailTx) /\ DOMAIN rail \subseteq DOMAIN rail'
    /\ rows' \in Seq(Row) /\ DOMAIN rows \subseteq DOMAIN rows'
    /\ \A i \in DOMAIN rows : rows'[i].tx = rows[i].tx
    /\ \A i \in DOMAIN rows' : rows'[i].tx \in DOMAIN rail'
    /\ events' \subseteq EventIds

LEMMA TypedFrame ==
    ASSUME TInv, NEW c \in Calls, Frame(c), Kept, Placed(c)', Working(c)'
    PROVE  TInv'
<1>1. ASSUME NEW d \in Calls \ {c} PROVE Working(d)' /\ Placed(d)'
  <2>1. Working(d)'
    BY DEF TInv, Working, Frame, Kept
  <2>2. Placed(d)'
    BY DEF TInv, TypeOK, Placed, Frame, Kept, RowsOfTx
  <2> QED
    BY <2>1, <2>2
<1>2. \A d \in Calls : Working(d)' /\ Placed(d)'
  BY <1>1
<1>3. TypeOK'
  <2>1. pc' \in [Calls -> {"idle", "done"} \cup UNION {LabelsOf(op) : op \in Operations \cup {"poll", "event"}}]
    BY LabelSets DEF Frame
  <2> QED
    BY <1>2, <2>1 DEF TypeOK, Frame, Kept, Placed, RowsOfTx
<1> QED
  BY <1>2, <1>3 DEF TInv

LEMMA KeptSame ==
    ASSUME TypeOK, UNCHANGED <<rail, rows>>, events' \subseteq EventIds
    PROVE  Kept
BY DEF TypeOK, Kept

\* A step to a label, with or without an answer.
LEMMA FrameGoto ==
    ASSUME TypeOK, NEW c \in Calls, NEW l \in Labels,
           \/ Goto(c, l)
           \/ l = "done" /\ \E what \in {"ok", "existing", "refused", "lost"} : Answer(c, what)
    PROVE  /\ pc' \in [Calls -> Labels] /\ pc'[c] = l
           /\ outcome' \in [Calls -> {"none", "ok", "existing", "refused", "lost"}]
           /\ \A d \in Calls \ {c} : pc'[d] = pc[d] /\ outcome'[d] = outcome[d]
<1>1. pc \in [Calls -> Labels]
  BY LabelSets DEF TypeOK
<1> QED
  BY <1>1 DEF TypeOK, Goto, Answer, Labels

LEMMA StatusKept ==
    ASSUME TypeOK, NEW i \in DOMAIN rows, NEW status \in Statuses \cup RawStatuses,
           rows' = [rows EXCEPT ![i].status = status], UNCHANGED rail, UNCHANGED events
    PROVE  Kept /\ DOMAIN rows' = DOMAIN rows
<1>1. rows \in Seq(Row) /\ rows[i] \in Row
  BY DEF TypeOK
<1>2. [rows[i] EXCEPT !.status = status] \in Row
  BY <1>1 DEF Row
<1>3. PICK x \in Row : x = [rows[i] EXCEPT !.status = status] /\ x.tx = rows[i].tx
  BY <1>1, <1>2 DEF Row
<1>4. rows' = [rows EXCEPT ![i] = x]
  BY <1>3
<1>5. rows' \in Seq(Row) /\ DOMAIN rows' = DOMAIN rows
  BY <1>1, <1>4
<1>6. \A j \in DOMAIN rows : rows'[j].tx = rows[j].tx
  BY <1>1, <1>3, <1>4
<1> QED
  BY <1>5, <1>6 DEF TypeOK, Kept

LEMMA BeginTyped ==
    ASSUME TInv, NEW c \in Calls, NEW r \in Requests, Begin(c, r)
    PROVE  TInv'
<1>1. r \in RequestType
  BY RequestAssumption
<1>2. FirstLabel(r) \in Labels /\ FirstLabel(r) \in LabelsOf(r.op) \ {"store", "ask", "update", "apply"}
  <2>1. CASE r.op \in Operations
    <3>1. FirstLabel(r) \in {"rail", "key"}
      BY <2>1 DEF FirstLabel, Operations
    <3> QED
      BY <2>1, <3>1, LabelSets DEF Executing, Labels
  <2>2. CASE r.op = "poll"
    BY <2>2, LabelSets DEF FirstLabel, Polling, Labels, Operations
  <2>3. CASE r.op = "event"
    BY <2>3, LabelSets DEF FirstLabel, Handling, Labels, Operations
  <2> QED
    BY <1>1, <2>1, <2>2, <2>3, RequestFields
<1>3. /\ pc' \in [Calls -> Labels] /\ pc'[c] = FirstLabel(r)
      /\ outcome' \in [Calls -> {"none", "ok", "existing", "refused", "lost"}]
      /\ \A d \in Calls \ {c} : pc'[d] = pc[d] /\ outcome'[d] = outcome[d]
  BY <1>2, FrameGoto DEF TInv, Begin
<1>4. req' \in [Calls -> RequestType] /\ req'[c] = r /\ \A d \in Calls \ {c} : req'[d] = req[d]
  BY <1>1 DEF TInv, TypeOK, Begin
<1>5. UNCHANGED <<rail, rows, events, mine, seen>> /\ pc[c] = "idle"
  BY DEF Begin, stored
<1>6. Frame(c)
  BY <1>3, <1>4, <1>5 DEF Frame, TInv, TypeOK
<1>7. Placed(c)'
  BY <1>2, <1>3, <1>4, <1>5 DEF Placed
<1>8. Working(c)'
  BY <1>2, <1>3, <1>4, <1>5 DEF Working, TInv
<1> QED
  BY <1>5, <1>6, <1>7, <1>8, KeptSame, TypedFrame DEF TInv, TypeOK

LEMMA ExecuteTyped ==
    ASSUME TInv, NEW c \in Calls, ExecuteStep(c) \/ (LookupFails(c) /\ pc[c] = "key")
    PROVE  TInv'
<1> USE DEF Labels, Executing
<1>1. TypeOK /\ Working(c) /\ UNCHANGED <<req, seen, events>>
  BY DEF TInv, ExecuteStep, CheckKey, CallProvider, Store, LookupFails, stored, locals
<1>2. pc[c] \in Executing /\ req[c].op \in Operations /\ req[c].key \in Keys \cup {NoKey}
  BY <1>1, AtLabel DEF ExecuteStep, CheckKey, CallProvider, Store, LookupFails
<1>3. LabelsOf(req[c].op) = Executing
  BY <1>2, LabelSets
<1>4. CASE pc[c] = "key"
  <2>1. UNCHANGED <<rail, rows, mine>>
    BY <1>4 DEF ExecuteStep, CheckKey, CallProvider, Store, LookupFails, stored, locals
  <2>2. PICK l \in {"rail", "blind", "done"} : 
           \/ Goto(c, l)
           \/ l = "done" /\ \E what \in {"ok", "existing", "refused", "lost"} : Answer(c, what)
    BY <1>4 DEF ExecuteStep, CheckKey, CallProvider, Store, LookupFails
  <2>3. /\ pc' \in [Calls -> Labels] /\ pc'[c] = l
        /\ outcome' \in [Calls -> {"none", "ok", "existing", "refused", "lost"}]
        /\ \A d \in Calls \ {c} : pc'[d] = pc[d] /\ outcome'[d] = outcome[d]
    BY <1>1, <2>2, FrameGoto
  <2>4. Frame(c) /\ Placed(c)' /\ Working(c)'
    BY <1>1, <1>3, <1>4, <2>1, <2>3 DEF Frame, Placed, Working, TypeOK
  <2> QED
    BY <1>1, <2>1, <2>4, KeptSame, TypedFrame DEF TypeOK
<1>5. CASE CallProvider(c)
  <2>1. CASE Answer(c, "refused") /\ UNCHANGED <<rail, rows, mine>>
    <3>1. /\ pc' \in [Calls -> Labels] /\ pc'[c] = "done"
          /\ outcome' \in [Calls -> {"none", "ok", "existing", "refused", "lost"}]
          /\ \A d \in Calls \ {c} : pc'[d] = pc[d] /\ outcome'[d] = outcome[d]
      BY <1>1, <2>1, FrameGoto
    <3>2. Frame(c) /\ Placed(c)' /\ Working(c)'
      BY <1>1, <1>2, <2>1, <3>1 DEF Frame, Placed, Working, TypeOK
    <3> QED
      BY <1>1, <2>1, <3>2, KeptSame, TypedFrame DEF TypeOK
  <2>2. ASSUME NEW status \in RailStatuses(req[c].op),
               rail' = Append(rail, [op |-> req[c].op, status |-> status]),
               mine' = [mine EXCEPT ![c] = Len(rail) + 1], Goto(c, "store"), UNCHANGED rows
        PROVE  TInv'
    <3>1. [op |-> req[c].op, status |-> status] \in RailTx
      BY <1>2 DEF RailStatuses, RailTx, Statuses
    <3>2. /\ rail' \in Seq(RailTx) /\ DOMAIN rail \subseteq DOMAIN rail'
          /\ Len(rail) + 1 \in DOMAIN rail' /\ Len(rail) + 1 \in Nat
      BY <1>1, <2>2, <3>1 DEF TypeOK
    <3>3. Kept
      BY <1>1, <2>2, <3>2 DEF Kept, TypeOK
    <3>4. /\ pc' \in [Calls -> Labels] /\ pc'[c] = "store"
          /\ outcome' \in [Calls -> {"none", "ok", "existing", "refused", "lost"}]
          /\ \A d \in Calls \ {c} : pc'[d] = pc[d] /\ outcome'[d] = outcome[d]
      BY <1>1, <2>2, FrameGoto
    <3>5. Frame(c) /\ Placed(c)' /\ Working(c)'
      BY <1>1, <1>2, <1>3, <2>2, <3>2, <3>4 DEF Frame, Placed, Working, TypeOK
    <3> QED
      BY <3>3, <3>5, TypedFrame
  <2> QED
    BY <1>5, <2>1, <2>2 DEF CallProvider
<1>6. CASE Store(c)
  <2>1. pc[c] = "store" /\ rows' = Append(rows, NewRow(c)) /\ Answer(c, "ok") /\ UNCHANGED <<rail, mine>>
    BY <1>6 DEF Store, locals
  <2>2. mine[c] \in DOMAIN rail /\ mine[c] \in Nat /\ rail[mine[c]] \in RailTx
    BY <1>1, <2>1 DEF Working, TypeOK
  <2>3. NewRow(c) \in Row /\ NewRow(c).tx = mine[c]
    BY <1>2, <2>2 DEF NewRow, Row, RailTx
  <2>4. Kept
    <3> DEFINE new == NewRow(c)
    <3>1. rows \in Seq(Row) /\ rail \in Seq(RailTx) /\ \A i \in DOMAIN rows : rows[i].tx \in DOMAIN rail
      BY <1>1 DEF TypeOK
    <3>2. new \in Row /\ new.tx \in DOMAIN rail /\ rows' = Append(rows, new) /\ rail' = rail
      BY <2>1, <2>2, <2>3
    <3> HIDE DEF new
    <3>3. /\ rows' \in Seq(Row) /\ DOMAIN rows \subseteq DOMAIN rows'
          /\ \A i \in DOMAIN rows : rows'[i] = rows[i]
          /\ \A i \in DOMAIN rows' : i \in DOMAIN rows \/ rows'[i] = new
      BY <3>1, <3>2
    <3> QED
      BY <1>1, <3>1, <3>2, <3>3 DEF Kept, TypeOK
  <2>5. /\ pc' \in [Calls -> Labels] /\ pc'[c] = "done"
        /\ outcome' \in [Calls -> {"none", "ok", "existing", "refused", "lost"}]
        /\ \A d \in Calls \ {c} : pc'[d] = pc[d] /\ outcome'[d] = outcome[d]
    BY <1>1, <2>1, FrameGoto
  <2>6. Frame(c) /\ Placed(c)' /\ Working(c)'
    BY <1>1, <2>1, <2>5 DEF Frame, Placed, Working, TypeOK
  <2> QED
    BY <2>4, <2>6, TypedFrame
<1> QED
  BY <1>4, <1>5, <1>6 DEF ExecuteStep, CheckKey, LookupFails

\* The steps that change no table but events.
LEMMA QuietTyped ==
    ASSUME TInv, NEW c \in Calls, NEW l \in {"record", "find", "done"},
           \/ Goto(c, l)
           \/ l = "done" /\ \E what \in {"ok", "existing", "refused", "lost"} : Answer(c, what),
           l = "done" \/ pc[c] \in Handling, pc[c] # "idle",
           UNCHANGED <<rail, rows, req, seen>>, mine' = mine, events' \subseteq EventIds
    PROVE  TInv'
<1>1. TypeOK /\ Working(c)
  BY DEF TInv
<1>2. /\ pc' \in [Calls -> Labels] /\ pc'[c] = l
      /\ outcome' \in [Calls -> {"none", "ok", "existing", "refused", "lost"}]
      /\ \A d \in Calls \ {c} : pc'[d] = pc[d] /\ outcome'[d] = outcome[d]
  BY <1>1, FrameGoto DEF Labels, Handling
<1>3. pc[c] \in Handling => LabelsOf(req[c].op) = Handling
  BY <1>1, AtLabel, LabelSets
<1>4. Frame(c) /\ Placed(c)' /\ Working(c)'
  BY <1>1, <1>2, <1>3 DEF Frame, Placed, Working, TypeOK, Handling
<1> QED
  BY <1>1, <1>4, KeptSame, TypedFrame

\* The steps that set the status of the row a call has found.
LEMMA SetTyped ==
    ASSUME TInv, NEW c \in Calls, NEW status \in Statuses \cup RawStatuses,
           pc[c] \in {"update", "apply"},
           rows' = [rows EXCEPT ![mine[c]].status = status], Answer(c, "ok"),
           UNCHANGED <<rail, events, req, mine, seen>>
    PROVE  TInv'
<1>1. TypeOK /\ Working(c) /\ mine[c] \in DOMAIN rows
  BY DEF TInv, TypeOK, RowsOfTx
<1>2. Kept
  BY <1>1, StatusKept
<1>3. /\ pc' \in [Calls -> Labels] /\ pc'[c] = "done"
      /\ outcome' \in [Calls -> {"none", "ok", "existing", "refused", "lost"}]
      /\ \A d \in Calls \ {c} : pc'[d] = pc[d] /\ outcome'[d] = outcome[d]
  BY <1>1, FrameGoto DEF Labels
<1>4. Frame(c) /\ Placed(c)' /\ Working(c)'
  BY <1>1, <1>3 DEF Frame, Placed, Working, TypeOK
<1> QED
  BY <1>2, <1>4, TypedFrame

\* The steps that find a row.
LEMMA FoundTyped ==
    ASSUME TInv, NEW c \in Calls, NEW i \in RowsOfTx(req[c].tx), NEW l \in {"ask", "apply"},
           mine' = [mine EXCEPT ![c] = i], Goto(c, l), l \in LabelsOf(req[c].op), pc[c] # "idle",
           \/ UNCHANGED seen
           \/ seen' = [seen EXCEPT ![c] = rows[i].status],
           UNCHANGED <<rail, rows, events, req>>
    PROVE  TInv'
<1>1. TypeOK /\ Working(c) /\ i \in DOMAIN rows
  BY DEF TInv, RowsOfTx
<1>2. rows[i] \in Row /\ i \in Nat
  BY <1>1 DEF TypeOK
<1>3. rows[i].status \in Statuses \cup RawStatuses
  BY <1>2 DEF Row
<1>4. Kept
  BY <1>1, KeptSame DEF TypeOK
<1>5. /\ pc' \in [Calls -> Labels] /\ pc'[c] = l
      /\ outcome' \in [Calls -> {"none", "ok", "existing", "refused", "lost"}]
      /\ \A d \in Calls \ {c} : pc'[d] = pc[d] /\ outcome'[d] = outcome[d]
  BY <1>1, FrameGoto DEF Labels, Polling, Handling
<1>6. mine' \in [Calls -> Nat] /\ mine'[c] = i /\ \A d \in Calls \ {c} : mine'[d] = mine[d]
  BY <1>1, <1>2 DEF TypeOK
<1>7. Frame(c)
  BY <1>1, <1>3, <1>5, <1>6 DEF Frame, TypeOK
<1>8. Placed(c)' /\ Working(c)'
  BY <1>1, <1>5, <1>6 DEF Placed, Working, RowsOfTx
<1> QED
  BY <1>4, <1>7, <1>8, TypedFrame

LEMMA PollTyped ==
    ASSUME TInv, NEW c \in Calls, PollStep(c)
    PROVE  TInv'
<1>1. TypeOK /\ pc[c] \in Polling /\ LabelsOf(req[c].op) = Polling /\ events \subseteq EventIds
  BY AtLabel, LabelSets DEF TInv, PollStep, ReadRow, AskProvider, Update, Polling, TypeOK
<1>2. CASE ReadRow(c)
  <2>1. CASE RowsOfTx(req[c].tx) = {}
    BY <1>1, <1>2, <2>1, QuietTyped DEF ReadRow, stored, Polling
  <2>2. CASE RowsOfTx(req[c].tx) # {}
    BY <1>1, <1>2, <2>2, FoundTyped DEF ReadRow, stored, Polling
  <2> QED
    BY <2>1, <2>2
<1>3. CASE AskProvider(c)
  <2>1. CASE Goto(c, "update")
    <3>1. /\ pc' \in [Calls -> Labels] /\ pc'[c] = "update"
          /\ outcome' \in [Calls -> {"none", "ok", "existing", "refused", "lost"}]
          /\ \A d \in Calls \ {c} : pc'[d] = pc[d] /\ outcome'[d] = outcome[d]
      BY <1>1, <2>1, FrameGoto DEF Labels, Polling
    <3>2. UNCHANGED <<rail, rows, events, req, mine, seen>> /\ pc[c] = "ask"
      BY <1>3 DEF AskProvider, stored, locals
    <3>3. Frame(c) /\ Placed(c)' /\ Working(c)'
      BY <1>1, <3>1, <3>2 DEF Frame, Placed, Working, TypeOK, TInv, Polling, RowsOfTx
    <3> QED
      BY <1>1, <3>2, <3>3, KeptSame, TypedFrame
  <2>2. CASE Answer(c, "refused") \/ Answer(c, "ok")
    BY <1>1, <1>3, <2>2, QuietTyped DEF AskProvider, stored, locals
  <2> QED
    BY <1>3, <2>1, <2>2 DEF AskProvider
<1>4. CASE Update(c)
  <2>1. pc[c] = "update" /\ req[c].tx \in DOMAIN rail
    BY <1>1, <1>4 DEF Update, TypeOK, RowsOfTx
  <2>2. rail[req[c].tx] \in RailTx
    BY <1>1, <2>1 DEF TypeOK
  <2>3. rail[req[c].tx].status \in Statuses
    BY <2>2 DEF RailTx
  <2> QED
    BY <1>4, <2>1, <2>3, SetTyped DEF Update, locals
<1> QED
  BY <1>2, <1>3, <1>4 DEF PollStep

LEMMA NormalisedType == \A raw \in RawStatuses : Normalised(raw) \in Statuses \cup RawStatuses
BY DEF Normalised, Statuses, RawStatuses, NoStatus

LEMMA EventTyped ==
    ASSUME TInv, NEW c \in Calls, EventStep(c) \/ (LookupFails(c) /\ pc[c] \in Handling)
    PROVE  TInv'
<1>1. /\ TypeOK /\ pc[c] \in Handling /\ LabelsOf(req[c].op) = Handling /\ pc[c] # "idle"
      /\ events \subseteq EventIds /\ req[c].id \in EventIds \cup {NoId} /\ req[c].raw \in RawStatuses
  <2>1. TypeOK /\ pc[c] \in Handling
    BY DEF TInv, EventStep, CheckEvent, Record, FindRow, Apply, StorageFails, LookupFails, Handling
  <2> QED
    BY <2>1, AtLabel, LabelSets DEF TypeOK, Handling
<1>2. CASE CheckEvent(c)
  BY <1>1, <1>2, QuietTyped DEF CheckEvent, stored, locals
<1>3. CASE Record(c)
  <2>1. events' \subseteq EventIds /\ UNCHANGED <<rail, rows, req, seen, mine>>
    BY <1>1, <1>3 DEF Record, locals
  <2>2. \/ Goto(c, "find")
        \/ \E what \in {"ok", "existing", "refused", "lost"} : Answer(c, what)
    BY <1>3 DEF Record
  <2> QED
    BY <1>1, <2>1, <2>2, QuietTyped
<1>4. CASE FindRow(c)
  <2>1. CASE RowsOfTx(req[c].tx) = {}
    BY <1>1, <1>4, <2>1, QuietTyped DEF FindRow, stored
  <2>2. CASE RowsOfTx(req[c].tx) # {}
    BY <1>1, <1>4, <2>2, FoundTyped DEF FindRow, stored, Handling
  <2> QED
    BY <2>1, <2>2
<1>5. CASE Apply(c)
  BY <1>1, <1>5, NormalisedType, SetTyped DEF Apply, locals
<1>6. CASE StorageFails(c)
  BY <1>1, <1>6, QuietTyped DEF StorageFails, stored, locals
<1>7. CASE LookupFails(c) /\ pc[c] \in Handling
  BY <1>1, <1>7, QuietTyped DEF LookupFails, stored, locals, Handling
<1> QED
  BY <1>2, <1>3, <1>4, <1>5, <1>6, <1>7 DEF EventStep

LEMMA TypedStep == TInv /\ [Next]_vars => TInv'
<1> SUFFICES ASSUME TInv, [Next]_vars PROVE TInv'
  OBVIOUS
<1>1. ASSUME NEW c \in Calls, NEW r \in Requests, Begin(c, r) PROVE TInv'
  BY <1>1, BeginTyped
<1>2. ASSUME NEW c \in Calls,
             ExecuteStep(c) \/ PollStep(c) \/ EventStep(c) \/ LookupFails(c) \/ Stop(c)
      PROVE  TInv'
  <2>1. CASE Stop(c)
    BY <2>1, QuietTyped DEF Stop, stored, locals, TInv, TypeOK
  <2>2. LookupFails(c) => pc[c] = "key" \/ pc[c] \in Handling
    BY DEF LookupFails, Handling
  <2> QED
    BY <1>2, <2>1, <2>2, ExecuteTyped, PollTyped, EventTyped
<1>3. CASE UNCHANGED vars
  BY <1>3 DEF vars, TInv, TypeOK, Working, RowsOfTx
<1> QED
  BY <1>1, <1>2, <1>3 DEF Next

LEMMA InitTyped == Init => TInv
<1> SUFFICES ASSUME Init PROVE TInv
  OBVIOUS
<1>1. (CHOOSE r \in Requests : TRUE) \in RequestType
  BY RequestAssumption
<1>2. /\ rail \in Seq(RailTx) /\ rows \in Seq(Row) /\ DOMAIN rows = {}
  BY DEF Init
<1>3. pc \in [Calls -> {"idle"}] /\ req \in [Calls -> RequestType] /\ mine \in [Calls -> Nat]
      /\ \A c \in Calls : mine[c] = NoTx /\ pc[c] = "idle"
  BY <1>1 DEF Init, NoTx
<1>4. "UNKNOWN" \in Statuses
  BY DEF Statuses
<1> QED
  BY <1>2, <1>3, <1>4 DEF Init, TInv, TypeOK, Working, RowsOfTx

\* The type invariant, with the agreement of the labels, the requests and the
\* rows that are held: no update ever writes to a row of another transaction
\* than the one its poll or its event is about.
THEOREM Typing == Spec => []TypeOK
<1>1. TInv => TypeOK
  BY DEF TInv
<1> QED
  BY <1>1, InitTyped, TypedStep, PTL DEF Spec
-----------------------------------------------------------------------------
(* What the rail executed is recorded *)

Steps(c) == ExecuteStep(c) \/ PollStep(c) \/ EventStep(c) \/ LookupFails(c) \/ Stop(c)

LEMMA OthersAlone ==
    ASSUME TypeOK, NEW c \in Calls, Steps(c) \/ \E r \in Requests : Begin(c, r)
    PROVE  \A d \in Calls \ {c} : /\ pc'[d] = pc[d] /\ req'[d] = req[d] /\ mine'[d] = mine[d]
                                  /\ outcome'[d] = outcome[d]
<1> USE DEF TypeOK, Goto, Answer, stored, locals
<1>1. CASE \E r \in Requests : Begin(c, r)
  BY <1>1 DEF Begin
<1>2. CASE ExecuteStep(c)
  BY <1>2 DEF ExecuteStep, CheckKey, CallProvider, Store
<1>3. CASE PollStep(c)
  BY <1>3 DEF PollStep, ReadRow, AskProvider, Update
<1>4. CASE EventStep(c)
  BY <1>4 DEF EventStep, CheckEvent, Record, FindRow, Apply, StorageFails
<1>5. CASE LookupFails(c) \/ Stop(c)
  BY <1>5 DEF LookupFails, Stop
<1> QED
  BY <1>1, <1>2, <1>3, <1>4, <1>5 DEF Steps

\* A call that is not done has no answer.
Open(c) == pc[c] # "done" => outcome[c] = "none"

\* A transaction belongs to the call that executed it, and has no row while
\* that call is about to store it.
Owns ==
    /\ \A c, d \in Calls : Executed(c) /\ Executed(d) /\ mine[c] = mine[d] => c = d
    /\ \A c \in Calls : Executed(c) => mine[c] \in DOMAIN rail
    /\ \A c \in Calls : pc[c] = "store" => RowsOfTx(mine[c]) = {}
    /\ \A c \in Calls : Open(c)

Unstored(n) ==
    /\ RowsOfTx(n) = {}
    /\ \E c \in Calls : Executed(c) /\ mine[c] = n /\ (pc[c] = "store" \/ outcome[c] = "lost")

Recorded(n) == (\E i \in DOMAIN rows : RowsOfTx(n) = {i}) \/ Unstored(n)

XInv == TInv /\ Owns /\ \A n \in DOMAIN rail : Recorded(n)

\* What the rows say of the transactions is as it was.
SameTxs == DOMAIN rows' = DOMAIN rows /\ \A i \in DOMAIN rows : rows'[i].tx = rows[i].tx

LEMMA SameRows ==
    ASSUME SameTxs
    PROVE  \A n : RowsOfTx(n)' = RowsOfTx(n)
BY DEF SameTxs, RowsOfTx

LEMMA StoreExecuted ==
    ASSUME TInv, NEW c \in Calls, pc[c] = "store"
    PROVE  Executed(c)
<1>1. req[c].op \in Operations /\ mine[c] \in DOMAIN rail /\ rail \in Seq(RailTx)
  BY AtLabel DEF TInv, TypeOK, Executing, Working
<1>2. mine[c] # 0
  BY <1>1
<1> QED
  BY <1>1, <1>2 DEF Executed, NoTx

\* A step of a call that executed nothing, or that is cut off.
LEMMA AsideRecorded ==
    ASSUME XInv, NEW c \in Calls, Steps(c) \/ \E r \in Requests : Begin(c, r),
           rail' = rail, SameTxs, pc'[c] # "store", Open(c)',
           Executed(c)' => Executed(c) /\ mine'[c] = mine[c],
           Executed(c) => Executed(c)' /\ mine'[c] = mine[c] /\ outcome'[c] = "lost"
    PROVE  Owns' /\ \A n \in DOMAIN rail' : Recorded(n)'
<1>1. \A d \in Calls \ {c} : /\ pc'[d] = pc[d] /\ req'[d] = req[d] /\ mine'[d] = mine[d]
                             /\ outcome'[d] = outcome[d]
  BY OthersAlone DEF XInv, TInv
<1>2. \A d \in Calls \ {c} : Executed(d)' <=> Executed(d)
  BY <1>1 DEF Executed
<1>3. \A n : RowsOfTx(n)' = RowsOfTx(n)
  BY SameRows
<1>4. Owns'
  <2>1. \A d, e \in Calls : Executed(d)' /\ Executed(e)' /\ mine'[d] = mine'[e] => d = e
    BY <1>1, <1>2 DEF XInv, Owns
  <2>2. \A d \in Calls : Executed(d)' => mine'[d] \in DOMAIN rail'
    BY <1>1, <1>2 DEF XInv, Owns
  <2>3. \A d \in Calls : pc'[d] = "store" => RowsOfTx(mine[d])' = {}
    <3> SUFFICES ASSUME NEW d \in Calls, pc'[d] = "store" PROVE RowsOfTx(mine[d])' = {}
      OBVIOUS
    <3>1. d # c /\ mine'[d] = mine[d] /\ pc[d] = "store"
      BY <1>1
    <3>2. RowsOfTx(mine[d]) = {}
      BY <3>1 DEF XInv, Owns
    <3> QED
      BY <3>1, <3>2 DEF RowsOfTx, SameTxs
  <2>4. \A d \in Calls : Open(d)'
    BY <1>1 DEF XInv, Owns, Open
  <2> QED
    BY <2>1, <2>2, <2>3, <2>4 DEF Owns
<1>5. ASSUME NEW n \in DOMAIN rail PROVE Recorded(n)'
  <2>1. CASE \E i \in DOMAIN rows : RowsOfTx(n) = {i}
    BY <1>3, <2>1 DEF Recorded, SameTxs
  <2>2. CASE Unstored(n)
    <3>1. PICK d \in Calls : Executed(d) /\ mine[d] = n /\ (pc[d] = "store" \/ outcome[d] = "lost")
      BY <2>2 DEF Unstored
    <3>2. Executed(d)' /\ mine'[d] = n /\ (pc'[d] = "store" \/ outcome'[d] = "lost")
      BY <1>1, <1>2, <3>1
    <3> QED
      BY <1>3, <2>2, <3>2 DEF Recorded, Unstored
  <2> QED
    BY <2>1, <2>2 DEF XInv, Recorded
<1> QED
  BY <1>4, <1>5

LEMMA ExecutesRecorded ==
    ASSUME XInv, NEW c \in Calls, CallProvider(c), rail' # rail
    PROVE  Owns' /\ \A n \in DOMAIN rail' : Recorded(n)'
<1> DEFINE k == Len(rail) + 1
<1>1. /\ \A d \in Calls \ {c} : /\ pc'[d] = pc[d] /\ req'[d] = req[d] /\ mine'[d] = mine[d]
                                /\ outcome'[d] = outcome[d]
      /\ TypeOK /\ pc[c] \in {"rail", "blind"}
  BY OthersAlone DEF XInv, TInv, Steps, ExecuteStep, CallProvider
<1>2. PICK x \in RailTx : rail' = Append(rail, x)
  <2>1. req[c].op \in Operations
    BY <1>1, AtLabel DEF Executing
  <2>2. PICK status \in RailStatuses(req[c].op) : rail' = Append(rail, [op |-> req[c].op, status |-> status])
    BY DEF CallProvider
  <2>3. [op |-> req[c].op, status |-> status] \in RailTx
    BY <2>1 DEF RailStatuses, RailTx, Statuses
  <2> QED
    BY <2>2, <2>3
<1>3. /\ mine' = [mine EXCEPT ![c] = k] /\ pc'[c] = "store" /\ UNCHANGED <<rows, req, outcome>>
      /\ mine'[c] = k /\ req[c].op \in Operations
  BY <1>1, AtLabel DEF CallProvider, Goto, TypeOK, Executing
<1>4. /\ DOMAIN rail' = DOMAIN rail \cup {k} /\ k \notin DOMAIN rail /\ k # 0 /\ 0 \notin DOMAIN rail'
  BY <1>1, <1>2 DEF TypeOK
<1> HIDE DEF k
<1>5. \A n : RowsOfTx(n)' = RowsOfTx(n)
  BY <1>3 DEF RowsOfTx
<1>6. RowsOfTx(k) = {}
  BY <1>1, <1>4 DEF RowsOfTx, TypeOK
<1>7. Executed(c)' /\ ~Executed(c) /\ \A d \in Calls \ {c} : Executed(d)' <=> Executed(d)
  BY <1>1, <1>3, <1>4 DEF Executed, NoTx, XInv, TInv, Working
<1>8. Owns'
  <2>1. \A d \in Calls \ {c} : Executed(d) => mine[d] \in DOMAIN rail /\ mine[d] # k
    BY <1>4 DEF XInv, Owns
  <2>2. \A d, e \in Calls : Executed(d)' /\ Executed(e)' /\ mine'[d] = mine'[e] => d = e
    BY <1>1, <1>3, <1>7, <2>1 DEF XInv, Owns
  <2>3. \A d \in Calls : Executed(d)' => mine'[d] \in DOMAIN rail'
    BY <1>1, <1>3, <1>4, <1>7, <2>1
  <2>4. \A d \in Calls : pc'[d] = "store" => RowsOfTx(mine[d])' = {}
    <3> SUFFICES ASSUME NEW d \in Calls, pc'[d] = "store" PROVE RowsOfTx(mine[d])' = {}
      OBVIOUS
    <3>1. RowsOfTx(mine'[d]) = {}
      BY <1>1, <1>3, <1>6 DEF XInv, Owns
    <3> QED
      BY <1>3, <3>1 DEF RowsOfTx
  <2>5. \A d \in Calls : Open(d)'
    BY <1>1, <1>3 DEF XInv, Owns, Open
  <2> QED
    BY <2>2, <2>3, <2>4, <2>5 DEF Owns
<1>9. ASSUME NEW n \in DOMAIN rail' PROVE Recorded(n)'
  <2>1. CASE n = k
    BY <1>3, <1>5, <1>6, <1>7, <2>1 DEF Recorded, Unstored
  <2>2. CASE n \in DOMAIN rail /\ \E i \in DOMAIN rows : RowsOfTx(n) = {i}
    BY <1>3, <1>5, <2>2 DEF Recorded
  <2>3. CASE n \in DOMAIN rail /\ Unstored(n)
    <3>1. PICK d \in Calls : Executed(d) /\ mine[d] = n /\ (pc[d] = "store" \/ outcome[d] = "lost")
      BY <2>3 DEF Unstored
    <3>2. Executed(d)' /\ mine'[d] = n /\ (pc'[d] = "store" \/ outcome'[d] = "lost")
      BY <1>1, <1>7, <3>1
    <3> QED
      BY <1>5, <2>3, <3>2 DEF Recorded, Unstored
  <2> QED
    BY <1>4, <2>1, <2>2, <2>3 DEF XInv, Recorded
<1> QED
  BY <1>8, <1>9

LEMMA StoreRecorded ==
    ASSUME XInv, NEW c \in Calls, Store(c)
    PROVE  Owns' /\ \A n \in DOMAIN rail' : Recorded(n)'
<1> DEFINE k == Len(rows) + 1
<1>0. PICK m : m = mine[c]
  OBVIOUS
<1>1. /\ \A d \in Calls \ {c} : /\ pc'[d] = pc[d] /\ req'[d] = req[d] /\ mine'[d] = mine[d]
                                /\ outcome'[d] = outcome[d]
      /\ TypeOK /\ pc[c] = "store" /\ pc'[c] = "done" /\ UNCHANGED <<rail, req, mine>>
  BY OthersAlone DEF XInv, TInv, Steps, ExecuteStep, Store, Answer, TypeOK, locals
<1>2. Executed(c) /\ m \in DOMAIN rail /\ RowsOfTx(m) = {}
  BY <1>0, <1>1, StoreExecuted DEF XInv, Owns
<1>3. PICK x \in Row : rows' = Append(rows, x) /\ x.tx = m
  <2>1. req[c].key \in Keys \cup {NoKey} /\ mine[c] \in Nat /\ rail[mine[c]] \in RailTx
    BY <1>0, <1>1, <1>2, AtLabel DEF Executing, TypeOK
  <2> QED
    BY <1>0, <2>1 DEF Store, NewRow, Row, RailTx
<1>4. /\ DOMAIN rows' = DOMAIN rows \cup {k} /\ k \notin DOMAIN rows /\ rows'[k] = x
      /\ \A i \in DOMAIN rows : rows'[i] = rows[i]
  BY <1>1, <1>3 DEF TypeOK
<1> HIDE DEF k
<1>5. \A n : n # m => RowsOfTx(n)' = RowsOfTx(n)
  BY <1>3, <1>4 DEF RowsOfTx
<1>6. RowsOfTx(m)' = {k}
  BY <1>2, <1>3, <1>4 DEF RowsOfTx
<1>7. \A d \in Calls : Executed(d)' <=> Executed(d)
  BY <1>1 DEF Executed
<1>8. Owns'
  <2>1. \A d, e \in Calls : Executed(d)' /\ Executed(e)' /\ mine'[d] = mine'[e] => d = e
    BY <1>1, <1>7 DEF XInv, Owns
  <2>2. \A d \in Calls : Executed(d)' => mine'[d] \in DOMAIN rail'
    BY <1>1, <1>7 DEF XInv, Owns
  <2>3. \A d \in Calls : pc'[d] = "store" => RowsOfTx(mine[d])' = {}
    <3> SUFFICES ASSUME NEW d \in Calls, pc'[d] = "store" PROVE RowsOfTx(mine[d])' = {}
      OBVIOUS
    <3>0. PICK n : n = mine[d]
      OBVIOUS
    <3>1. d # c /\ pc[d] = "store" /\ Executed(d) /\ mine'[d] = n
      BY <1>1, <3>0, StoreExecuted DEF XInv
    <3>2. n # m /\ RowsOfTx(n) = {}
      BY <1>0, <1>2, <3>0, <3>1 DEF XInv, Owns
    <3>3. RowsOfTx(n)' = {}
      BY <1>5, <3>2
    <3> QED
      BY <3>1, <3>3 DEF RowsOfTx
  <2>4. \A d \in Calls : Open(d)'
    BY <1>1 DEF XInv, Owns, Open
  <2> QED
    BY <2>1, <2>2, <2>3, <2>4 DEF Owns
<1>9. ASSUME NEW n \in DOMAIN rail' PROVE Recorded(n)'
  <2>1. CASE n = m
    BY <1>4, <1>6, <2>1 DEF Recorded
  <2>2. CASE n # m /\ \E i \in DOMAIN rows : RowsOfTx(n) = {i}
    BY <1>4, <1>5, <2>2 DEF Recorded
  <2>3. CASE n # m /\ Unstored(n)
    <3>1. PICK d \in Calls : Executed(d) /\ mine[d] = n /\ (pc[d] = "store" \/ outcome[d] = "lost")
      BY <2>3 DEF Unstored
    <3>2. d # c /\ Executed(d)' /\ mine'[d] = n /\ (pc'[d] = "store" \/ outcome'[d] = "lost")
      BY <1>0, <1>1, <1>7, <2>3, <3>1
    <3> QED
      BY <1>5, <2>3, <3>2 DEF Recorded, Unstored
  <2> QED
    BY <1>1, <2>1, <2>2, <2>3 DEF XInv, Recorded
<1> QED
  BY <1>8, <1>9

LEMMA RecordedStep == XInv /\ [Next]_vars => XInv'
<1> SUFFICES ASSUME XInv, [Next]_vars PROVE Owns' /\ \A n \in DOMAIN rail' : Recorded(n)'
  BY TypedStep DEF XInv
<1>0. TypeOK /\ TInv
  BY DEF XInv, TInv
<1>1. ASSUME NEW c \in Calls, NEW r \in Requests, Begin(c, r)
      PROVE  Owns' /\ \A n \in DOMAIN rail' : Recorded(n)'
  <2>1. /\ UNCHANGED <<rail, rows, outcome, mine>> /\ pc[c] = "idle" /\ pc'[c] = FirstLabel(r)
        /\ outcome[c] = "none" /\ mine[c] = NoTx
    BY <1>0, <1>1 DEF Begin, Goto, stored, TypeOK, XInv, Owns, Open, TInv, Working
  <2>2. FirstLabel(r) \in {"rail", "key", "read", "known"}
    <3>1. r.op \in Operations \cup {"poll", "event"}
      BY RequestAssumption, RequestFields
    <3> QED
      BY <3>1 DEF FirstLabel, Operations
  <2>3. ~Executed(c) /\ ~Executed(c)' /\ SameTxs /\ Open(c)'
    BY <2>1, <2>2 DEF Executed, SameTxs, Open
  <2> QED
    BY <1>1, <2>1, <2>2, <2>3, AsideRecorded
<1>2. ASSUME NEW c \in Calls, Stop(c)
      PROVE  Owns' /\ \A n \in DOMAIN rail' : Recorded(n)'
  <2>1. /\ UNCHANGED <<rail, rows, mine, req>> /\ pc[c] # "idle" /\ pc'[c] = "done"
        /\ outcome'[c] = "lost"
    BY <1>0, <1>2 DEF Stop, Answer, stored, locals, TypeOK
  <2>2. (Executed(c)' <=> Executed(c)) /\ SameTxs /\ Open(c)'
    BY <2>1 DEF Executed, SameTxs, Open
  <2> QED
    BY <1>2, <2>1, <2>2, AsideRecorded DEF Steps
<1>3. ASSUME NEW c \in Calls, PollStep(c) \/ EventStep(c) \/ LookupFails(c) \/ CheckKey(c),
             pc[c] # "key" \/ mine[c] = NoTx
      PROVE  Owns' /\ \A n \in DOMAIN rail' : Recorded(n)'
  <2>1. pc[c] \in Polling \cup Handling \cup {"key"} /\ req'[c] = req[c]
    BY <1>3 DEF PollStep, ReadRow, AskProvider, Update, EventStep, CheckEvent, Record, FindRow, Apply,
                StorageFails, LookupFails, CheckKey, Polling, Handling, stored, locals
  <2>2. rail' = rail
    BY <1>3 DEF PollStep, ReadRow, AskProvider, Update, EventStep, CheckEvent, Record, FindRow, Apply,
                StorageFails, LookupFails, CheckKey, stored
  <2>3. SameTxs
    <3>1. CASE UNCHANGED rows
      BY <3>1 DEF SameTxs
    <3>2. ASSUME NEW i \in DOMAIN rows, NEW status \in Statuses \cup RawStatuses,
                 rows' = [rows EXCEPT ![i].status = status], UNCHANGED <<rail, events>>
          PROVE  SameTxs
      BY <1>0, <3>2, StatusKept DEF Kept, SameTxs
    <3>3. ASSUME Update(c) PROVE SameTxs
      <4>1. mine[c] \in DOMAIN rows /\ req[c].tx \in DOMAIN rail
        BY <1>0, <3>3 DEF Update, TypeOK, RowsOfTx
      <4>2. rail[req[c].tx] \in RailTx
        BY <1>0, <4>1 DEF TypeOK
      <4>3. rail[req[c].tx].status \in Statuses
        BY <4>2 DEF RailTx
      <4> QED
        BY <3>2, <3>3, <4>1, <4>3 DEF Update
    <3>4. ASSUME Apply(c) PROVE SameTxs
      <4>1. mine[c] \in DOMAIN rows /\ req[c].raw \in RawStatuses
        BY <1>0, <3>4, AtLabel DEF Apply, TypeOK, RowsOfTx, Handling
      <4> QED
        BY <3>2, <3>4, <4>1, NormalisedType DEF Apply
    <3> QED
      BY <1>3, <3>1, <3>3, <3>4 DEF PollStep, ReadRow, AskProvider, EventStep, CheckEvent, Record,
            FindRow, StorageFails, LookupFails, CheckKey, stored
  <2>4. pc'[c] \notin {"store", "idle"} /\ Open(c)'
    BY <1>0, <1>3 DEF PollStep, ReadRow, AskProvider, Update, EventStep, CheckEvent, Record, FindRow,
                Apply, StorageFails, LookupFails, CheckKey, Goto, Answer, TypeOK, XInv, Owns, Open
  <2>5. ~Executed(c) /\ ~Executed(c)'
    <3>1. CASE pc[c] = "key"
      <4>1. mine'[c] = mine[c]
        BY <1>3, <3>1 DEF PollStep, ReadRow, AskProvider, Update, EventStep, CheckEvent, Record,
              FindRow, Apply, StorageFails, LookupFails, CheckKey, locals
      <4> QED
        BY <1>3, <3>1, <4>1 DEF Executed
    <3>2. CASE pc[c] \in Polling \cup Handling
      BY <1>0, <2>1, <3>2, AtLabel DEF Executed, Operations
    <3> QED
      BY <2>1, <3>1, <3>2
  <2> QED
    BY <1>3, <2>2, <2>3, <2>4, <2>5, AsideRecorded DEF Steps, ExecuteStep
<1>4. ASSUME NEW c \in Calls PROVE pc[c] \in {"key", "rail", "blind"} => mine[c] = NoTx
  BY <1>0 DEF TInv, Working
<1>5. ASSUME NEW c \in Calls, CallProvider(c), rail' = rail
      PROVE  Owns' /\ \A n \in DOMAIN rail' : Recorded(n)'
  <2>1. Answer(c, "refused") /\ mine' = mine
    <3>1. rail \in Seq(RailTx)
      BY <1>0 DEF TypeOK
    <3>2. \A x : Append(rail, x) # rail
      BY <3>1
    <3> QED
      BY <1>5, <3>2 DEF CallProvider
  <2>2. pc'[c] = "done" /\ Open(c)' /\ SameTxs /\ mine[c] = NoTx
    BY <1>0, <1>4, <1>5, <2>1 DEF CallProvider, Answer, Open, SameTxs, TypeOK
  <2>3. ~Executed(c) /\ ~Executed(c)'
    BY <2>1, <2>2 DEF Executed
  <2> QED
    BY <1>5, <2>2, <2>3, AsideRecorded DEF Steps, ExecuteStep
<1>6. CASE UNCHANGED vars
  <2>1. UNCHANGED <<rail, rows, pc, req, mine, outcome>>
    BY <1>6 DEF vars
  <2>2. \A n : RowsOfTx(n)' = RowsOfTx(n)
    BY <2>1 DEF RowsOfTx
  <2>3. \A d \in Calls : Executed(d)' <=> Executed(d)
    BY <2>1 DEF Executed
  <2>4. Owns'
    BY <2>1 DEF XInv, Owns, Executed, RowsOfTx, Open
  <2>5. \A n \in DOMAIN rail' : Recorded(n)'
    BY <2>1, <2>2, <2>3 DEF XInv, Recorded, Unstored
  <2> QED
    BY <2>4, <2>5
<1> QED
  BY <1>1, <1>2, <1>3, <1>4, <1>5, <1>6, ExecutesRecorded, StoreRecorded DEF Next, ExecuteStep

LEMMA InitRecorded == Init => XInv
<1> SUFFICES ASSUME Init PROVE XInv
  OBVIOUS
<1>1. \A c \in Calls : pc[c] = "idle" /\ outcome[c] = "none" /\ mine[c] = NoTx
  BY DEF Init
<1>2. DOMAIN rail = {}
  BY DEF Init
<1> QED
  BY <1>1, <1>2, InitTyped DEF XInv, Owns, Executed, Open

\* Every transaction that the rail executed has exactly one row, but for those
\* whose call is about to store it or was cut off before.
THEOREM RailOnRecord == Spec => []RailRecorded
<1>1. XInv => RailRecorded
  <2> SUFFICES ASSUME XInv, NEW n \in DOMAIN rail
               PROVE  \/ Cardinality(RowsOfTx(n)) = 1
                      \/ /\ RowsOfTx(n) = {}
                         /\ \E c \in Calls : /\ Executed(c) /\ mine[c] = n
                                             /\ pc[c] = "store" \/ outcome[c] = "lost"
    BY DEF RailRecorded
  <2>1. CASE \E i \in DOMAIN rows : RowsOfTx(n) = {i}
    BY <2>1, FS_Singleton
  <2>2. CASE Unstored(n)
    BY <2>2 DEF Unstored
  <2> QED
    BY <2>1, <2>2 DEF XInv, Recorded
<1> QED
  BY <1>1, InitRecorded, RecordedStep, PTL DEF Spec
-----------------------------------------------------------------------------
(* The gateway implements StatusBoard *)

InHands(c) == pc[c] \in {"find", "apply"}

\* An event with an identity is in the hands of one call, and is recorded.
Handed ==
    /\ \A c, d \in Calls : InHands(c) /\ InHands(d) /\ req[c].id = req[d].id /\ req[c].id # NoId => c = d
    /\ \A c \in Calls : InHands(c) => req[c].id \in events \cup {NoId}

BInv == XInv /\ Handed

LEMMA InHandIs == \A x : x \in InHand <=> \E d \in Calls : InHands(d) /\ req[d].id = x
BY DEF InHand, InHands

LEMMA HandedStep == BInv /\ [Next]_vars => BInv'
<1> SUFFICES ASSUME BInv, [Next]_vars PROVE Handed'
  BY RecordedStep DEF BInv
<1>0. TypeOK /\ TInv
  BY DEF BInv, XInv, TInv
<1>1. ASSUME NEW c \in Calls,
             \A d \in Calls \ {c} : pc'[d] = pc[d] /\ req'[d] = req[d],
             events \subseteq events',
             InHands(c)' => /\ req'[c].id \in events' \cup {NoId}
                            /\ (InHands(c) /\ req'[c].id = req[c].id) \/ req'[c].id \notin events
      PROVE  Handed'
  BY <1>1 DEF BInv, Handed, InHands
<1>2. ASSUME NEW c \in Calls, NEW r \in Requests, Begin(c, r) PROVE Handed'
  <2>1. pc'[c] = FirstLabel(r) /\ events' = events
    BY <1>0, <1>2 DEF Begin, Goto, TypeOK, stored
  <2>2. r.op \in Operations \cup {"poll", "event"}
    BY RequestAssumption, RequestFields
  <2>3. ~InHands(c)'
    BY <2>1, <2>2 DEF InHands, FirstLabel, Operations
  <2> QED
    BY <1>0, <1>1, <1>2, <2>1, <2>3, OthersAlone
<1>3. ASSUME NEW c \in Calls, Steps(c) PROVE Handed'
  <2>1. CASE Record(c)
    <3>1. /\ req' = req /\ events \subseteq events' /\ req[c].id \in events' \cup {NoId}
          /\ req[c].id \notin events \/ ~InHands(c)'
      BY <1>0, <2>1 DEF Record, Answer, Goto, locals, InHands, TypeOK
    <3> QED
      BY <1>0, <1>1, <1>3, <3>1, OthersAlone
  <2>2. CASE FindRow(c)
    <3>1. req' = req /\ events' = events /\ InHands(c)
      BY <2>2 DEF FindRow, stored, InHands
    <3>2. req[c].id \in events \cup {NoId}
      BY <3>1 DEF BInv, Handed
    <3> QED
      BY <1>0, <1>1, <1>3, <3>1, <3>2, OthersAlone
  <2>3. CASE ~Record(c) /\ ~FindRow(c)
    <3>1. req' = req /\ events' = events /\ ~InHands(c)'
      <4> USE <1>0 DEF Goto, Answer, InHands, stored, locals, TypeOK
      <4>1. CASE ExecuteStep(c)
        BY <4>1 DEF ExecuteStep, CheckKey, CallProvider, Store
      <4>2. CASE PollStep(c)
        BY <4>2 DEF PollStep, ReadRow, AskProvider, Update
      <4>3. CASE EventStep(c)
        BY <2>3, <4>3 DEF EventStep, CheckEvent, Apply, StorageFails
      <4>4. CASE LookupFails(c) \/ Stop(c)
        BY <4>4 DEF LookupFails, Stop
      <4> QED
        BY <1>3, <4>1, <4>2, <4>3, <4>4 DEF Steps
    <3> QED
      BY <1>0, <1>1, <1>3, <3>1, OthersAlone
  <2> QED
    BY <2>1, <2>2, <2>3
<1>4. CASE UNCHANGED vars
  BY <1>4 DEF vars, BInv, Handed, InHands
<1> QED
  BY <1>2, <1>3, <1>4 DEF Next, Steps

LEMMA ShownIs ==
    ASSUME TypeOK
    PROVE  /\ Shown \in Seq([tx : Nat, status : Statuses \cup RawStatuses])
           /\ Len(Shown) = Len(rows) /\ DOMAIN Shown = DOMAIN rows
           /\ \A i \in DOMAIN rows : Shown[i] = [tx |-> rows[i].tx, status |-> rows[i].status]
<1>1. rows \in Seq(Row) /\ DOMAIN rows = 1..Len(rows) /\ Len(rows) \in Nat
  BY DEF TypeOK
<1>2. \A i \in DOMAIN rows : [tx |-> rows[i].tx, status |-> rows[i].status]
                             \in [tx : Nat, status : Statuses \cup RawStatuses]
  <2> SUFFICES ASSUME NEW i \in DOMAIN rows
               PROVE  rows[i].tx \in Nat /\ rows[i].status \in Statuses \cup RawStatuses
    OBVIOUS
  <2>1. rows[i] \in Row
    BY <1>1
  <2> QED
    BY <2>1 DEF Row
<1>3. Shown \in [1..Len(rows) -> [tx : Nat, status : Statuses \cup RawStatuses]]
  BY <1>1, <1>2 DEF Shown
<1> QED
  BY <1>1, <1>3 DEF Shown

LEMMA ShownAppend ==
    ASSUME TypeOK, NEW x \in Row, rows' = Append(rows, x)
    PROVE  Shown' = Append(Shown, [tx |-> x.tx, status |-> x.status])
<1> DEFINE y == [tx |-> x.tx, status |-> x.status]
           n == Len(rows) + 1
           S == [tx : Nat, status : Statuses \cup RawStatuses]
<1>1. /\ rows \in Seq(Row) /\ Len(rows) \in Nat
      /\ DOMAIN rows = 1..Len(rows) /\ DOMAIN rows' = 1..n
      /\ rows'[n] = x /\ \A i \in 1..Len(rows) : rows'[i] = rows[i]
  BY DEF TypeOK
<1>2. y \in S
  BY DEF Row
<1>3. Shown' = [i \in 1..n |-> IF i = n THEN y ELSE Shown[i]]
  BY <1>1 DEF Shown
<1>4. Shown \in Seq(S) /\ Len(Shown) = Len(rows)
  BY ShownIs
<1> HIDE DEF y, S
<1>5. \A i \in 1..Len(rows) : Shown[i] \in S
  BY <1>4
<1>6. Shown' \in [1..n -> S]
  BY <1>1, <1>2, <1>3, <1>5
<1>7. Shown' \in Seq(S) /\ Len(Shown') = n
  BY <1>1, <1>6
<1>8. /\ Append(Shown, y) \in Seq(S) /\ Len(Append(Shown, y)) = n
      /\ Append(Shown, y)[n] = y /\ \A i \in 1..Len(rows) : Append(Shown, y)[i] = Shown[i]
  BY <1>2, <1>4, AppendProperties
<1>9. \A i \in 1..Len(Shown') : Shown'[i] = Append(Shown, y)[i]
  BY <1>1, <1>3, <1>7, <1>8
<1>10. Shown' = Append(Shown, y)
  <2> HIDE DEF n
  <2> QED
    BY <1>7, <1>8, <1>9, SeqEqual
<1> QED
  BY <1>10 DEF y

LEMMA ShownSet ==
    ASSUME TypeOK, NEW j \in DOMAIN rows, NEW status, rows' = [rows EXCEPT ![j].status = status]
    PROVE  Shown' = [Shown EXCEPT ![j].status = status]
<1>1. rows[j] \in Row
  BY DEF TypeOK
<1>2. PICK x : x = [rows[j] EXCEPT !.status = status]
  OBVIOUS
<1>3. x.tx = rows[j].tx /\ x.status = status
  BY <1>1, <1>2 DEF Row
<1>4. rows' = [rows EXCEPT ![j] = x]
  BY <1>2
<1>5. Shown' = [i \in DOMAIN rows |-> IF i = j THEN [tx |-> x.tx, status |-> x.status] ELSE Shown[i]]
  BY <1>4 DEF Shown
<1>6. [Shown[j] EXCEPT !.status = status] = [tx |-> x.tx, status |-> x.status]
  BY <1>3, ShownIs
<1> QED
  BY <1>5, <1>6, ShownIs

\* The used events after a step of c that records nothing.
LEMMA UsedSame ==
    ASSUME BInv, NEW c \in Calls, \A d \in Calls \ {c} : pc'[d] = pc[d] /\ req'[d] = req[d],
           events' = events,
           InHands(c)' <=> InHands(c), InHands(c) => req'[c].id = req[c].id
    PROVE  Used' = Used
<1>1. \A x : x \in InHand' <=> \E d \in Calls : InHands(d)' /\ req'[d].id = x
  BY DEF InHand, InHands
<1>2. \A d \in Calls : /\ InHands(d)' <=> InHands(d)
                       /\ InHands(d) => req'[d].id = req[d].id
  BY DEF InHands
<1>3. InHand' = InHand
  BY <1>1, <1>2, InHandIs
<1> QED
  BY <1>3 DEF Used

\* A report of an event in the hands of c, or about to be.
Report(c) == [id |-> req[c].id, tx |-> req[c].tx, status |-> Normalised(req[c].raw)]

LEMMA ReportIsOne ==
    ASSUME BInv, NEW c \in Calls, pc[c] \in Handling
    PROVE  Report(c) \in Reported
<1>1. req[c] \in Requests /\ req[c].op = "event"
  BY AtLabel DEF BInv, XInv, TInv, Working, Handling
<1> QED
  BY <1>1 DEF Report, Reported

\* A call lets go of its event, which is used by then.
LEMMA LetGo ==
    ASSUME BInv, NEW c \in Calls, InHands(c), ~InHands(c)', events' = events, rail' = rail,
           \A d \in Calls \ {c} : pc'[d] = pc[d] /\ req'[d] = req[d],
           \/ Shown' = Shown
           \/ \E i \in DOMAIN Shown : /\ Shown[i].tx = req[c].tx
                                      /\ Shown' = [Shown EXCEPT ![i].status = Normalised(req[c].raw)]
    PROVE  Board!BoardNext
<1>0. PICK e : e = req[c].id
  OBVIOUS
<1>1. \A x : x \in InHand' <=> \E d \in Calls : InHands(d)' /\ req'[d].id = x
  BY DEF InHand, InHands
<1>2. \A d \in Calls \ {c} : InHands(d)' <=> InHands(d)
  BY DEF InHands
<1>3. e # NoId => \A d \in Calls \ {c} : InHands(d) => req[d].id # e
  BY <1>0 DEF BInv, Handed
<1>4. NoId \notin events /\ e \in events \cup {NoId} /\ e \in InHand
  BY <1>0, FreshAssumption, InHandIs DEF BInv, XInv, TInv, TypeOK, Handed
<1>5. \A x : x # e => (x \in InHand' <=> x \in InHand)
  BY <1>0, <1>1, <1>2, InHandIs
<1>6. e # NoId => e \notin InHand'
  BY <1>1, <1>2, <1>3
<1>7. Used' = IF e = NoId THEN Used ELSE Used \cup {e}
  BY <1>4, <1>5, <1>6 DEF Used
<1>8. e \notin Used
  BY <1>4 DEF Used
<1>9. Report(c) \in Reported /\ Report(c).id = e /\ Report(c).tx = req[c].tx
      /\ Report(c).status = Normalised(req[c].raw)
  BY <1>0, ReportIsOne DEF InHands, Handling, Report
<1>10. Board!Use(Report(c))
  BY <1>7, <1>8, <1>9 DEF Board!Use
<1> QED
  BY <1>9, <1>10 DEF Board!BoardNext

LEMMA RecordBoard ==
    ASSUME BInv, NEW c \in Calls, Record(c), Shown' = Shown,
           \A d \in Calls \ {c} : pc'[d] = pc[d] /\ req'[d] = req[d]
    PROVE  [Board!BoardNext]_Board!board_vars
<1>0. PICK e : e = req[c].id
  OBVIOUS
<1>1. /\ pc[c] = "record" /\ req' = req /\ rail' = rail /\ ~InHands(c)
      /\ e \in EventIds \cup {NoId} /\ NoId \notin EventIds /\ events \subseteq EventIds
      /\ pc \in [Calls -> Labels]
  BY <1>0, AtLabel, FreshAssumption, LabelSets
     DEF Record, locals, InHands, Handling, BInv, XInv, TInv, TypeOK
<1>2. \A x : x \in InHand' <=> \E d \in Calls : InHands(d)' /\ req'[d].id = x
  BY DEF InHand, InHands
<1>3. \A d \in Calls \ {c} : InHands(d)' <=> InHands(d)
  BY DEF InHands
<1>4. \A x \in InHand : x \in events \cup {NoId}
  BY InHandIs DEF BInv, Handed
<1>5. CASE e \in events
  <2>1. events' = events /\ ~InHands(c)'
    BY <1>0, <1>1, <1>5 DEF Record, Answer, InHands
  <2> QED
    BY <1>1, <2>1, UsedSame DEF Board!board_vars
<1>6. CASE e \notin events
  <2>1. events' = IF e = NoId THEN events ELSE events \cup {e}
    BY <1>0, <1>6 DEF Record
  <2>2. CASE InHands(c)'
    <3>1. \A x : x \in InHand' <=> x \in InHand \/ x = e
      BY <1>0, <1>1, <1>2, <1>3, <2>2, InHandIs
    <3>2. Used' = Used
      BY <1>1, <1>6, <2>1, <3>1 DEF Used
    <3> QED
      BY <1>1, <3>2 DEF Board!board_vars
  <2>3. CASE ~InHands(c)'
    <3>1. InHand' = InHand
      BY <1>1, <1>2, <1>3, <2>3, InHandIs
    <3>2. Used' = IF e = NoId THEN Used ELSE Used \cup {e}
      BY <1>1, <1>4, <1>6, <2>1, <3>1 DEF Used
    <3>3. e \notin Used
      BY <1>6 DEF Used
    <3>4. Report(c) \in Reported /\ Report(c).id = e
      BY <1>0, <1>1, ReportIsOne DEF Handling, Report
    <3>5. Board!Use(Report(c))
      BY <1>1, <3>2, <3>3, <3>4 DEF Board!Use
    <3> QED
      BY <3>4, <3>5 DEF Board!BoardNext
  <2> QED
    BY <2>2, <2>3
<1> QED
  BY <1>5, <1>6

\* A step of c outside of the handling of events.
LEMMA HandsEmpty ==
    ASSUME BInv, NEW c \in Calls, \A d \in Calls \ {c} : pc'[d] = pc[d] /\ req'[d] = req[d],
           events' = events, ~InHands(c), ~InHands(c)'
    PROVE  Used' = Used
BY UsedSame

LEMMA ExecuteBoard ==
    ASSUME BInv, NEW c \in Calls, ExecuteStep(c),
           \A d \in Calls \ {c} : pc'[d] = pc[d] /\ req'[d] = req[d]
    PROVE  [Board!BoardNext]_Board!board_vars
<1>1. TypeOK /\ pc \in [Calls -> Labels]
  BY LabelSets DEF BInv, XInv, TInv, TypeOK
<1>2. events' = events /\ ~InHands(c) /\ ~InHands(c)'
  BY <1>1 DEF ExecuteStep, CheckKey, CallProvider, Store, InHands, Goto, Answer, stored
<1>3. Used' = Used
  BY <1>2, HandsEmpty
<1>4. CASE CheckKey(c)
  BY <1>3, <1>4 DEF CheckKey, stored, Shown, Board!board_vars
<1>5. CASE CallProvider(c)
  <2>1. Shown' = Shown
    BY <1>5 DEF CallProvider, Shown
  <2>2. CASE rail' = rail
    BY <1>3, <2>1, <2>2 DEF Board!board_vars
  <2>3. CASE rail' # rail
    <3>1. PICK status \in RailStatuses(req[c].op) : rail' = Append(rail, [op |-> req[c].op, status |-> status])
      BY <1>5, <2>3 DEF CallProvider
    <3>2. rail \in Seq(RailTx) /\ [op |-> req[c].op, status |-> status] \in RailTx
      <4>1. req[c].op \in Operations
        BY <1>1, <1>5, AtLabel DEF CallProvider, Executing
      <4> QED
        BY <1>1, <4>1 DEF TypeOK, RailStatuses, RailTx, Statuses
    <3>3. Len(rail') = Len(rail) + 1 /\ \A n \in DOMAIN rail : rail'[n] = rail[n]
      <4> DEFINE t == [op |-> req[c].op, status |-> status]
      <4>1. rail' = Append(rail, t) /\ t \in RailTx
        BY <3>1, <3>2
      <4> HIDE DEF t
      <4> QED
        BY <3>2, <4>1
    <3> QED
      BY <1>3, <2>1, <3>3 DEF Board!BoardNext, Board!Execute
  <2> QED
    BY <2>2, <2>3
<1>6. CASE Store(c)
  <2>0. PICK n : n = mine[c]
    OBVIOUS
  <2>1. pc[c] = "store" /\ rail' = rail /\ rows' = Append(rows, NewRow(c)) /\ mine[c] \in DOMAIN rail
    BY <1>6 DEF Store, BInv, XInv, TInv, Working
  <2>2. NewRow(c) \in Row /\ NewRow(c).tx = n /\ NewRow(c).status = rail[n].status
    <3>1. req[c].key \in Keys \cup {NoKey} /\ mine[c] \in Nat /\ rail[mine[c]] \in RailTx
      BY <1>1, <2>1, AtLabel DEF Executing, TypeOK
    <3> QED
      BY <2>0, <3>1 DEF NewRow, Row, RailTx
  <2>3. Shown' = Append(Shown, [tx |-> n, status |-> rail[n].status])
    BY <1>1, <2>1, <2>2, ShownAppend
  <2>4. \A i \in DOMAIN Shown : Shown[i].tx # n
    <3>1. RowsOfTx(n) = {}
      BY <2>0, <2>1 DEF BInv, XInv, Owns
    <3> QED
      BY <1>1, <3>1, ShownIs DEF RowsOfTx
  <2>5. Board!Enter(n)
    BY <1>3, <2>1, <2>3, <2>4 DEF Board!Enter
  <2> QED
    BY <2>0, <2>1, <2>5 DEF Board!BoardNext
<1> QED
  BY <1>4, <1>5, <1>6 DEF ExecuteStep

LEMMA PollBoard ==
    ASSUME BInv, NEW c \in Calls, PollStep(c),
           \A d \in Calls \ {c} : pc'[d] = pc[d] /\ req'[d] = req[d]
    PROVE  [Board!BoardNext]_Board!board_vars
<1>1. TypeOK /\ pc \in [Calls -> Labels]
  BY LabelSets DEF BInv, XInv, TInv, TypeOK
<1>2. events' = events /\ ~InHands(c) /\ ~InHands(c)' /\ rail' = rail
  BY <1>1 DEF PollStep, ReadRow, AskProvider, Update, InHands, Goto, Answer, stored
<1>3. Used' = Used
  BY <1>2, HandsEmpty
<1>4. CASE ~Update(c)
  BY <1>2, <1>3, <1>4 DEF PollStep, ReadRow, AskProvider, stored, Shown, Board!board_vars
<1>5. CASE Update(c)
  <2>0. PICK i : i = mine[c]
    OBVIOUS
  <2>1. i \in DOMAIN rows /\ rows[i].tx = req[c].tx
    BY <1>1, <1>5, <2>0 DEF Update, TypeOK, RowsOfTx
  <2>2. rows' = [rows EXCEPT ![i].status = rail[req[c].tx].status]
    BY <1>5, <2>0 DEF Update
  <2>3. Shown' = [Shown EXCEPT ![i].status = rail[req[c].tx].status]
    BY <1>1, <2>1, <2>2, ShownSet
  <2>4. i \in DOMAIN Shown /\ Shown[i].tx = req[c].tx
    BY <1>1, <2>1, ShownIs
  <2>5. Board!Ask(i)
    BY <1>2, <1>3, <2>3, <2>4 DEF Board!Ask
  <2> QED
    BY <2>4, <2>5 DEF Board!BoardNext
<1> QED
  BY <1>4, <1>5

LEMMA EventBoard ==
    ASSUME BInv, NEW c \in Calls, EventStep(c) \/ LookupFails(c) \/ Stop(c),
           \A d \in Calls \ {c} : pc'[d] = pc[d] /\ req'[d] = req[d]
    PROVE  [Board!BoardNext]_Board!board_vars
<1>1. TypeOK /\ pc \in [Calls -> Labels]
  BY LabelSets DEF BInv, XInv, TInv, TypeOK
<1>2. CASE Record(c)
  <2>1. Shown' = Shown
    BY <1>2 DEF Record, Shown
  <2> QED
    BY <1>2, <2>1, RecordBoard
<1>3. CASE Apply(c)
  <2>0. PICK i : i = mine[c]
    OBVIOUS
  <2>1. i \in DOMAIN rows /\ rows[i].tx = req[c].tx
    BY <1>1, <1>3, <2>0 DEF Apply, TypeOK, RowsOfTx
  <2>2. rows' = [rows EXCEPT ![i].status = Normalised(req[c].raw)]
    BY <1>3, <2>0 DEF Apply
  <2>3. Shown' = [Shown EXCEPT ![i].status = Normalised(req[c].raw)]
    BY <1>1, <2>1, <2>2, ShownSet
  <2>4. i \in DOMAIN Shown /\ Shown[i].tx = req[c].tx
    BY <1>1, <2>1, ShownIs
  <2>5. InHands(c) /\ ~InHands(c)' /\ events' = events /\ rail' = rail
    BY <1>1, <1>3 DEF Apply, Answer, InHands
  <2> QED
    BY <2>3, <2>4, <2>5, LetGo
<1>4. CASE ~Record(c) /\ ~Apply(c)
  <2>1. /\ UNCHANGED <<rail, rows, events, req>> /\ Shown' = Shown
        /\ InHands(c)' => FindRow(c)
    BY <1>1, <1>4 DEF EventStep, CheckEvent, FindRow, StorageFails, LookupFails, Stop, Goto, Answer,
                      InHands, stored, locals, Shown
  <2>2. CASE InHands(c)'
    <3>1. InHands(c) /\ Used' = Used
      BY <2>1, <2>2, UsedSame DEF FindRow, InHands
    <3> QED
      BY <2>1, <3>1 DEF Board!board_vars
  <2>3. CASE ~InHands(c)' /\ InHands(c)
    BY <2>1, <2>3, LetGo
  <2>4. CASE ~InHands(c)' /\ ~InHands(c)
    BY <2>1, <2>4, HandsEmpty DEF Board!board_vars
  <2> QED
    BY <2>2, <2>3, <2>4
<1> QED
  BY <1>2, <1>3, <1>4

LEMMA BoardStep == BInv /\ [Next]_vars => [Board!BoardNext]_Board!board_vars
<1> SUFFICES ASSUME BInv, [Next]_vars PROVE [Board!BoardNext]_Board!board_vars
  OBVIOUS
<1>0. TypeOK
  BY DEF BInv, XInv, TInv
<1>1. ASSUME NEW c \in Calls, NEW r \in Requests, Begin(c, r)
      PROVE  [Board!BoardNext]_Board!board_vars
  <2>1. /\ UNCHANGED <<rail, events>> /\ Shown' = Shown
        /\ \A d \in Calls \ {c} : pc'[d] = pc[d] /\ req'[d] = req[d]
        /\ pc[c] = "idle" /\ pc'[c] = FirstLabel(r)
    BY <1>0, <1>1, OthersAlone DEF Begin, stored, Shown, Goto, TypeOK
  <2>2. r.op \in Operations \cup {"poll", "event"}
    BY RequestAssumption, RequestFields
  <2>3. ~InHands(c) /\ ~InHands(c)'
    BY <2>1, <2>2 DEF InHands, FirstLabel, Operations
  <2> QED
    BY <2>1, <2>3, HandsEmpty DEF Board!board_vars
<1>2. ASSUME NEW c \in Calls, Steps(c) PROVE [Board!BoardNext]_Board!board_vars
  BY <1>0, <1>2, OthersAlone, ExecuteBoard, PollBoard, EventBoard DEF Steps
<1>3. CASE UNCHANGED vars
  BY <1>3 DEF vars, Shown, Used, InHand, Board!board_vars
<1> QED
  BY <1>1, <1>2, <1>3 DEF Next, Steps

LEMMA BoardOpens == Init => BInv /\ Board!BoardInit
<1> SUFFICES ASSUME Init PROVE BInv /\ Board!BoardInit
  OBVIOUS
<1>1. Handed
  BY DEF Init, Handed, InHands
<1>2. Used = {} /\ Shown = <<>> /\ rail = <<>>
  BY DEF Init, Used, Shown
<1> QED
  BY <1>1, <1>2, InitRecorded DEF BInv, Board!BoardInit

\* The statuses shown are those of a status board: each is what the provider
\* answered or an event reported, for this transaction, and each event with an
\* identity is used once.
THEOREM ImplementsBoard == Spec => BoardSpec
<1>1. Spec => Board!BoardInit /\ [][Board!BoardNext]_Board!board_vars
  BY BoardOpens, HandedStep, BoardStep, PTL DEF Spec
<1> QED
  BY <1>1 DEF BoardSpec, Board!BoardSpec
-----------------------------------------------------------------------------
(* A retry of what is stored does not come to the rail *)

\* There is a row with the key k, and the call c is not about to execute it.
Spared(c, k) == RowsOfKey(k) # {} /\ (pc[c] = "rail" => req[c].key # k)

\* Rows are added, and change their status only.
LEMMA KeysKept ==
    ASSUME TInv, [Next]_vars, NEW k, RowsOfKey(k) # {}
    PROVE  RowsOfKey(k)' # {}
<1>1. PICK i \in DOMAIN rows : rows[i].key = k
  BY DEF RowsOfKey
<1>2. rows \in Seq(Row) /\ rows[i] \in Row
  BY DEF TInv, TypeOK
<1>3. \/ rows' = rows
      \/ \E d \in Calls : rows' = Append(rows, NewRow(d))
      \/ \E d \in Calls : \E status : rows' = [rows EXCEPT ![mine[d]].status = status]
  BY DEF Next, vars, Begin, ExecuteStep, CheckKey, CallProvider, Store, PollStep, ReadRow, AskProvider,
         Update, EventStep, CheckEvent, Record, FindRow, Apply, StorageFails, LookupFails, Stop, stored
<1>4. CASE rows' = rows
  BY <1>4 DEF RowsOfKey
<1>5. ASSUME NEW d \in Calls, rows' = Append(rows, NewRow(d)) PROVE RowsOfKey(k)' # {}
  <2>1. i \in DOMAIN rows' /\ rows'[i] = rows[i]
    <3> DEFINE new == NewRow(d)
    <3> HIDE DEF new
    <3> QED
      BY <1>2, <1>5 DEF new
  <2> QED
    BY <1>1, <2>1 DEF RowsOfKey
<1>6. ASSUME NEW d \in Calls, NEW status, rows' = [rows EXCEPT ![mine[d]].status = status]
      PROVE  RowsOfKey(k)' # {}
  <2>1. i \in DOMAIN rows' /\ rows'[i].key = k
    BY <1>1, <1>2, <1>6 DEF Row
  <2> QED
    BY <2>1 DEF RowsOfKey
<1> QED
  BY <1>3, <1>4, <1>5, <1>6

LEMMA SparedStep ==
    ASSUME TInv, NEW c \in Calls, NEW k \in Keys, Spared(c, k), [Next]_vars
    PROVE  Spared(c, k)'
<1>1. RowsOfKey(k)' # {}
  BY KeysKept DEF Spared
<1>2. ASSUME NEW d \in Calls, Steps(d) \/ \E r \in Requests : Begin(d, r)
      PROVE  pc'[c] = "rail" => req'[c].key # k
  <2>1. CASE c # d
    BY <1>2, <2>1, OthersAlone DEF TInv, Spared
  <2>2. CASE c = d /\ \E r \in Requests : Begin(c, r)
    <3>1. PICK r \in Requests : Begin(c, r)
      BY <2>2
    <3>2. pc'[c] = FirstLabel(r) /\ req'[c] = r
      BY <3>1 DEF Begin, Goto, TInv, TypeOK
    <3>3. r \in RequestType
      BY RequestAssumption
    <3>4. FirstLabel(r) = "rail" => r.key = NoKey
      BY <3>3 DEF FirstLabel, RequestType, Operations
    <3> QED
      BY <3>2, <3>4, FreshAssumption
  <2>3. CASE c = d /\ Steps(c)
    <3> USE DEF TInv, TypeOK, Goto, Answer, stored, locals
    <3>1. CASE CheckKey(c)
      BY <3>1 DEF CheckKey, Spared
    <3>2. CASE ~CheckKey(c)
      <4>1. pc'[c] # "rail"
        BY <2>3, <3>2 DEF Steps, ExecuteStep, CallProvider, Store, PollStep, ReadRow, AskProvider, Update,
              EventStep, CheckEvent, Record, FindRow, Apply, StorageFails, LookupFails, Stop
      <4> QED
        BY <4>1
    <3> QED
      BY <3>1, <3>2
  <2> QED
    BY <1>2, <2>1, <2>2, <2>3
<1>3. CASE UNCHANGED vars
  BY <1>1, <1>3 DEF vars, Spared
<1> QED
  BY <1>1, <1>2, <1>3 DEF Next, Steps, Spared

\* Once a transaction with its key is stored, a call that begins executes the key
\* again only if its look-up failed.
THEOREM RetriesAreFree == Spec => RetryIsFree
<1>1. ASSUME NEW c \in Calls, NEW k \in Keys
      PROVE  Spec => []((pc[c] = "idle" /\ RowsOfKey(k) # {}) => [](pc[c] = "rail" => req[c].key # k))
  <2>1. TInv /\ Spared(c, k) /\ [Next]_vars => Spared(c, k)'
    BY SparedStep
  <2>2. pc[c] = "idle" /\ RowsOfKey(k) # {} => Spared(c, k)
    BY DEF Spared
  <2>3. Spared(c, k) => (pc[c] = "rail" => req[c].key # k)
    BY DEF Spared
  <2> QED
    BY <2>1, <2>2, <2>3, InitTyped, TypedStep, PTL DEF Spec
<1> QED
  BY <1>1 DEF RetryIsFree
=============================================================================
