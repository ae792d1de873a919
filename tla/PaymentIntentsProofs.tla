------------------------ MODULE PaymentIntentsProofs ------------------------
(***************************************************************************)
(* What the merchant payments guarantee for any number of users, calls,    *)
(* requests and intents.  The argument: a status is only changed by the    *)
(* call that holds paymentMu, and only from CREATED; an entry is only      *)
(* posted under a reference that has none; so an intent is paid once, and  *)
(* marked succeeded only when it is.  Until a call is cut off between the  *)
(* two, only the call that paid an intent can end it; on MemoryRepository  *)
(* no call is cut off.                                                     *)
(***************************************************************************)
EXTENDS PaymentIntents, Sums

Creating == {"check_key", "validate", "insert"}
Labels == {"idle", "check_key", "validate", "insert", "lock", "done"} \cup Critical
Statuses == {"CREATED", "SUCCEEDED", "FAILED", "EXPIRED"}

\* What is known of a call from how far it is.
PhaseOf(c) ==
    /\ pc[c] # "done" => outcome[c] = "none"
    /\ pc[c] \in Creating => req[c].op = "create" /\ req[c].amount > 0
    /\ pc[c] \in {"lock"} \cup Critical => req[c].op = "confirm"
    /\ pc[c] \in Critical => /\ req[c].intent \in DOMAIN intents
                             /\ intents[req[c].intent].status = "CREATED"
                             /\ intents[req[c].intent].payer = req[c].payer
    /\ pc[c] = "finish" => IsPaid(req[c].intent)

Phases == \A c \in Calls : PhaseOf(c)

\* Entries are posted for intents that exist.
NoStrayEntry == \A i \in Nat : IsPaid(i) => i \in DOMAIN intents

IInv == TypeOK /\ Phases /\ NoStrayEntry /\ CapturedOnce /\ SucceededIsPaid
-----------------------------------------------------------------------------
(* The two variables that grow: the intents and the journal. *)

LEMMA StatusSet ==
    ASSUME intents \in Seq(Intent), NEW i \in DOMAIN intents, NEW s \in Statuses,
           SetStatus(i, s)
    PROVE  /\ intents' \in Seq(Intent) /\ DOMAIN intents' = DOMAIN intents
           /\ intents'[i].status = s
           /\ \A j \in DOMAIN intents :
                /\ j # i => intents'[j] = intents[j]
                /\ intents'[j].payer = intents[j].payer
                /\ intents'[j].amount = intents[j].amount
<1>1. intents[i] \in Intent
  OBVIOUS
<1>2. [intents[i] EXCEPT !.status = s] \in Intent
  BY <1>1 DEF Intent, Statuses
<1>3. intents' = [intents EXCEPT ![i] = [intents[i] EXCEPT !.status = s]]
  BY DEF SetStatus
<1>4. intents' \in Seq(Intent) /\ DOMAIN intents' = DOMAIN intents
  BY <1>2, <1>3
<1>5. /\ intents'[i] = [intents[i] EXCEPT !.status = s]
      /\ \A j \in DOMAIN intents : j # i => intents'[j] = intents[j]
  BY <1>3
<1> QED
  BY <1>1, <1>4, <1>5 DEF Intent

LEMMA LateSet ==
    ASSUME intents \in Seq(Intent), NEW i \in DOMAIN intents,
           intents' = [intents EXCEPT ![i].late = TRUE]
    PROVE  /\ intents' \in Seq(Intent) /\ DOMAIN intents' = DOMAIN intents
           /\ \A j \in DOMAIN intents : /\ intents'[j].payer = intents[j].payer
                                        /\ intents'[j].amount = intents[j].amount
                                        /\ intents'[j].status = intents[j].status
<1>1. intents[i] \in Intent
  OBVIOUS
<1>2. [intents[i] EXCEPT !.late = TRUE] \in Intent
  BY <1>1 DEF Intent
<1>3. intents' = [intents EXCEPT ![i] = [intents[i] EXCEPT !.late = TRUE]]
  OBVIOUS
<1>4. intents' \in Seq(Intent) /\ DOMAIN intents' = DOMAIN intents
  BY <1>2, <1>3
<1>5. /\ intents'[i] = [intents[i] EXCEPT !.late = TRUE]
      /\ \A j \in DOMAIN intents : j # i => intents'[j] = intents[j]
  BY <1>3
<1> QED
  BY <1>1, <1>4, <1>5 DEF Intent

LEMMA MoveAppended ==
    ASSUME moves \in Seq(MoveType(Refs)), NEW m \in MoveType(Refs), moves' = Append(moves, m)
    PROVE  /\ moves' \in Seq(MoveType(Refs))
           /\ \A n \in DOMAIN moves : n \in DOMAIN moves' /\ moves'[n] = moves[n]
           /\ moves'[Len(moves) + 1] = m
           /\ \A ref : m.ref # ref => MovesOf(ref)' = MovesOf(ref)
           /\ m.ref # Unnamed => MovesOf(m.ref)' = MovesOf(m.ref) \cup {Len(moves) + 1}
<1>1. /\ Len(moves) \in Nat /\ DOMAIN moves = 1..Len(moves)
      /\ DOMAIN moves' = 1..(Len(moves) + 1)
      /\ moves'[Len(moves) + 1] = m
      /\ \A n \in 1..Len(moves) : moves'[n] = moves[n]
      /\ moves' \in Seq(MoveType(Refs))
  OBVIOUS
<1>2. ASSUME NEW ref
      PROVE  /\ m.ref # ref => MovesOf(ref)' = MovesOf(ref)
             /\ m.ref = ref /\ ref # Unnamed
                  => MovesOf(ref)' = MovesOf(ref) \cup {Len(moves) + 1}
  BY <1>1 DEF MovesOf, Unnamed
<1> QED
  BY <1>1, <1>2

LEMMA SameMoves ==
    ASSUME moves' = moves
    PROVE  /\ \A ref : MovesOf(ref)' = MovesOf(ref)
           /\ \A i : IsPaid(i)' = IsPaid(i)
BY DEF MovesOf, IsPaid
-----------------------------------------------------------------------------
(* The steps that leave the journal alone. *)

LEMMA InitIInv == Init => IInv
<1> SUFFICES ASSUME Init PROVE IInv
  OBVIOUS
<1> USE DEF Init
<1>1. NoRequest \in RequestType /\ NoIntent \in Nat
  BY PayerAssumption DEF NoRequest, RequestType, NoIntent
<1>2. \A i : ~IsPaid(i)
  BY DEF IsPaid, MovesOf
<1>3. TypeOK
  BY <1>1, FreshAssumption DEF TypeOK, Critical
<1>4. Phases /\ NoStrayEntry /\ CapturedOnce /\ SucceededIsPaid
  BY <1>2 DEF Phases, PhaseOf, NoStrayEntry, CapturedOnce, SucceededIsPaid, Creating, Critical
<1> QED
  BY <1>3, <1>4 DEF IInv

\* What a step of call c must show when it leaves the journal alone and changes
\* at most the status of the intent it confirms.
LEMMA CallStep ==
    ASSUME IInv, NEW c \in Calls, NEW what \in {"none", "ok", "refused", "lost"},
           NEW i \in Nat, NEW label \in Labels, NEW r \in RequestType,
           UNCHANGED <<moves, business>>,
           req' = [req EXCEPT ![c] = r], pc' = [pc EXCEPT ![c] = label],
           outcome' = [outcome EXCEPT ![c] = what], receipt' = [receipt EXCEPT ![c] = i],
           intents' \in Seq(Intent), DOMAIN intents \subseteq DOMAIN intents',
           \A j \in DOMAIN intents : /\ intents'[j].payer = intents[j].payer
                                     /\ intents'[j].amount = intents[j].amount,
           \A j \in DOMAIN intents' : intents'[j].status = "SUCCEEDED" => IsPaid(j),
           \A d \in Calls \ {c} : pc[d] \in Critical =>
               intents'[req[d].intent].status = intents[req[d].intent].status,
           paymentMu' \in Calls \cup {Free},
           label \in Critical <=> paymentMu' = c,
           \A d \in Calls \ {c} : paymentMu = d <=> paymentMu' = d,
           r.op = "confirm" /\ what = "ok" => IsPaid(i),
           PhaseOf(c)'
    PROVE  IInv'
<1> USE DEF IInv
<1>1. TypeOK'
  BY DEF TypeOK, Labels
<1>2. \A d \in Calls \ {c} : req'[d] = req[d] /\ pc'[d] = pc[d] /\ outcome'[d] = outcome[d]
                             /\ receipt'[d] = receipt[d]
  BY DEF TypeOK
<1>3. /\ req'[c] = r /\ outcome'[c] = what /\ receipt'[c] = i
  BY DEF TypeOK
<1>4. \A d \in Calls \ {c} : PhaseOf(d)'
  BY <1>2, SameMoves DEF Phases, PhaseOf
<1>5. Phases'
  BY <1>4 DEF Phases
<1>6. NoStrayEntry'
  BY SameMoves DEF NoStrayEntry
<1>7. CapturedOnce'
  <2> SUFFICES ASSUME NEW j \in DOMAIN intents', NEW m \in MovesOf(RefOf(j))',
                      NEW n \in MovesOf(RefOf(j))'
               PROVE  m = n /\ moves'[n] = Move(RefOf(j), intents'[j].payer, Shop, intents'[j].amount)
    BY DEF CapturedOnce
  <2>1. m \in MovesOf(RefOf(j)) /\ n \in MovesOf(RefOf(j)) /\ IsPaid(j)
    BY SameMoves DEF IsPaid
  <2>2. j \in DOMAIN intents
    BY <2>1 DEF NoStrayEntry
  <2> QED
    BY <2>1, <2>2 DEF CapturedOnce
<1>8. SucceededIsPaid'
  BY <1>2, <1>3, SameMoves DEF SucceededIsPaid
<1> QED
  BY <1>1, <1>5, <1>6, <1>7, <1>8

LEMMA Typed ==
    ASSUME IInv, NEW c \in Calls
    PROVE  /\ req[c] \in RequestType /\ receipt[c] \in Nat /\ req[c].intent \in Nat
           /\ outcome[c] \in {"none", "ok", "refused", "lost"}
           /\ intents \in Seq(Intent) /\ moves \in Seq(MoveType(Refs))
           /\ paymentMu \in Calls \cup {Free} /\ PhaseOf(c)
           /\ req = [req EXCEPT ![c] = req[c]]
           /\ outcome = [outcome EXCEPT ![c] = outcome[c]]
           /\ receipt = [receipt EXCEPT ![c] = receipt[c]]
           /\ \A d \in Calls : pc[d] \in Critical <=> paymentMu = d
           /\ \A j \in DOMAIN intents : j \in Nat /\ intents[j] \in Intent
           /\ \A j \in DOMAIN intents : intents[j].status = "SUCCEEDED" => IsPaid(j)
BY DEF IInv, TypeOK, Phases, SucceededIsPaid, RequestType

\* The answer of a call that touches neither the intents nor the mutex.
LEMMA AnswerStep ==
    ASSUME IInv, NEW c \in Calls, NEW what \in {"ok", "refused"}, NEW i \in Nat,
           NEW r \in RequestType, Answer(c, what, i), req' = [req EXCEPT ![c] = r],
           pc[c] \notin Critical, UNCHANGED <<moves, intents, business, paymentMu>>,
           r.op = "confirm" /\ what = "ok" => IsPaid(i)
    PROVE  IInv'
<1> USE Typed
<1>1. pc' = [pc EXCEPT ![c] = "done"] /\ pc'[c] = "done"
  BY DEF Answer, Goto, IInv, TypeOK
<1>2. PhaseOf(c)'
  BY <1>1 DEF PhaseOf, Creating, Critical
<1>3. "done" \in Labels /\ "done" \notin Critical /\ what \in {"none", "ok", "refused", "lost"}
  BY DEF Labels, Critical
<1>4. outcome' = [outcome EXCEPT ![c] = what] /\ receipt' = [receipt EXCEPT ![c] = i]
  BY DEF Answer
<1> QED
  BY <1>1, <1>2, <1>3, <1>4, CallStep

LEMMA ContinueStep ==
    ASSUME IInv, NEW c \in Calls, NEW label \in Labels, NEW r \in RequestType,
           Continue(c, label), req' = [req EXCEPT ![c] = r], pc[c] # "done",
           UNCHANGED <<moves, intents, business>>,
           paymentMu' \in Calls \cup {Free}, label \in Critical <=> paymentMu' = c,
           \A d \in Calls \ {c} : paymentMu = d <=> paymentMu' = d,
           PhaseOf(c)'
    PROVE  IInv'
<1> USE Typed
<1>1. outcome[c] = "none"
  BY DEF PhaseOf
<1> DEFINE i == receipt[c]
<1>2. /\ pc' = [pc EXCEPT ![c] = label] /\ outcome' = [outcome EXCEPT ![c] = "none"]
      /\ receipt' = [receipt EXCEPT ![c] = i] /\ i \in Nat
  BY <1>1 DEF Continue, Goto
<1> HIDE DEF i
<1> QED
  BY <1>2, CallStep

LEMMA BeginStep ==
    ASSUME IInv, NEW c \in Calls, NEW r \in Requests, Begin(c, r)
    PROVE  IInv'
<1> USE Typed
<1>1. r \in RequestType /\ NoIntent \in Nat
  BY RequestAssumption DEF NoIntent
<1>2. pc[c] = "idle" /\ pc[c] \notin Critical /\ req'[c] = r
  BY DEF Begin, Critical, IInv, TypeOK
<1>3. CASE r.op = "create" /\ r.amount <= 0
  BY <1>1, <1>2, <1>3, AnswerStep DEF Begin
<1>4. CASE ~(r.op = "create" /\ r.amount <= 0)
  <2> DEFINE label == IF r.op = "confirm" THEN "lock"
                      ELSE IF r.key = NoKey THEN "validate" ELSE "check_key"
  <2>1. Continue(c, label) /\ UNCHANGED <<moves, intents, business, paymentMu>>
    BY <1>4 DEF Begin
  <2>2. label \in Labels /\ label \notin Critical /\ label # "done"
    BY DEF Labels, Critical
  <2>3. pc'[c] = label /\ outcome'[c] = outcome[c]
    BY <2>1 DEF Continue, Goto, IInv, TypeOK
  <2>4. r.op \in {"create", "confirm"} /\ r.amount \in Int
    BY <1>1 DEF RequestType
  <2>5. PhaseOf(c)'
    BY <1>2, <1>4, <2>2, <2>3, <2>4 DEF PhaseOf, Creating, Critical
  <2>6. req' = [req EXCEPT ![c] = r] /\ pc[c] # "done" /\ paymentMu # c
    BY <1>2 DEF Begin
  <2> HIDE DEF label
  <2> QED
    BY <1>1, <2>1, <2>2, <2>5, <2>6, ContinueStep
<1> QED
  BY <1>3, <1>4

LEMMA CreateStep ==
    ASSUME IInv, NEW c \in Calls, CheckKey(c) \/ Validate(c)
    PROVE  IInv'
<1> USE Typed
<1>1. /\ pc[c] \in {"check_key", "validate"} /\ pc[c] \notin Critical /\ pc[c] # "done"
      /\ req[c].op = "create" /\ req[c].amount > 0 /\ paymentMu # c
  BY DEF CheckKey, Validate, Critical, PhaseOf, Creating
<1>2. req' = [req EXCEPT ![c] = req[c]] /\ UNCHANGED <<moves, intents, business, paymentMu>>
  BY DEF CheckKey, Validate
<1>3. ASSUME NEW what \in {"ok", "refused"}, NEW i \in Nat, Answer(c, what, i) PROVE IInv'
  BY <1>1, <1>2, <1>3, AnswerStep
<1>4. ASSUME NEW label \in {"validate", "insert"}, Continue(c, label) PROVE IInv'
  <2>1. label \in Labels /\ label \notin Critical /\ label \in Creating
    BY <1>4 DEF Labels, Critical, Creating
  <2>2. pc'[c] = label /\ outcome'[c] = outcome[c] /\ req'[c] = req[c]
    BY <1>2, <1>4 DEF Continue, Goto, IInv, TypeOK
  <2>3. PhaseOf(c)'
    BY <1>1, <2>1, <2>2 DEF PhaseOf, Creating, Critical
  <2> QED
    BY <1>1, <1>2, <1>4, <2>1, <2>3, ContinueStep
<1>5. IntentsOfKey(req[c].key) \subseteq Nat /\ NoIntent \in Nat
  BY DEF IntentsOfKey, NoIntent
<1> QED
  BY <1>3, <1>4, <1>5 DEF CheckKey, Validate

LEMMA InsertStep ==
    ASSUME IInv, NEW c \in Calls, Insert(c)
    PROVE  IInv'
<1> USE Typed
<1> DEFINE r == req[c]
           new == [payer |-> r.payer, amount |-> r.amount, key |-> r.key, late |-> FALSE,
                   status |-> "CREATED"]
<1>1. /\ pc[c] = "insert" /\ pc[c] \notin Critical /\ r.op = "create" /\ r.amount > 0
      /\ paymentMu # c
  BY DEF Insert, Critical, PhaseOf, Creating
<1>2. new \in Intent
  BY <1>1 DEF RequestType, Intent
<1>3. /\ intents' = Append(intents, new) /\ Len(intents) + 1 \in Nat
      /\ DOMAIN intents = 1..Len(intents) /\ DOMAIN intents' = 1..(Len(intents) + 1)
      /\ intents' \in Seq(Intent) /\ intents'[Len(intents) + 1] = new
      /\ \A j \in DOMAIN intents : intents'[j] = intents[j]
  BY <1>2 DEF Insert
<1>4. \A j \in DOMAIN intents' : intents'[j].status = "SUCCEEDED" => IsPaid(j)
  <2>1. new.status # "SUCCEEDED"
    OBVIOUS
  <2> HIDE DEF new
  <2> QED
    BY <1>3, <2>1
<1>5. /\ UNCHANGED <<moves, business, paymentMu>> /\ req' = [req EXCEPT ![c] = r]
      /\ pc' = [pc EXCEPT ![c] = "done"] /\ outcome' = [outcome EXCEPT ![c] = "ok"]
      /\ receipt' = [receipt EXCEPT ![c] = Len(intents) + 1]
  BY DEF Insert, Answer, Goto
<1>6. "done" \in Labels /\ "done" \notin Critical /\ pc'[c] = "done" /\ r \in RequestType
  BY <1>5 DEF Labels, Critical, IInv, TypeOK
<1>7. PhaseOf(c)'
  BY <1>6 DEF PhaseOf, Creating, Critical
<1>8. \A d \in Calls \ {c} : pc[d] \in Critical =>
          intents'[req[d].intent].status = intents[req[d].intent].status
  BY <1>3 DEF IInv, Phases, PhaseOf
<1> DEFINE k == Len(intents) + 1
<1>9. /\ k \in Nat /\ receipt' = [receipt EXCEPT ![c] = k] /\ UNCHANGED <<moves, business>>
      /\ intents' \in Seq(Intent) /\ DOMAIN intents \subseteq DOMAIN intents'
      /\ \A j \in DOMAIN intents : /\ intents'[j].payer = intents[j].payer
                                   /\ intents'[j].amount = intents[j].amount
      /\ (r.op = "confirm" /\ "ok" = "ok" => IsPaid(k))
      /\ paymentMu' \in Calls \cup {Free}
      /\ ("done" \in Critical <=> paymentMu' = c)
      /\ \A d \in Calls \ {c} : paymentMu = d <=> paymentMu' = d
  BY <1>1, <1>3, <1>5, <1>6
<1>10. "ok" \in {"none", "ok", "refused", "lost"}
  OBVIOUS
<1> HIDE DEF r, new, k
<1> QED
  BY <1>4, <1>5, <1>6, <1>7, <1>8, <1>9, <1>10, CallStep

\* A confirmation ends its intent and answers.
LEMMA EndStep ==
    ASSUME IInv, NEW c \in Calls, NEW s \in {"SUCCEEDED", "FAILED", "EXPIRED"},
           NEW what \in {"ok", "refused"}, NEW k \in Nat,
           req[c].intent \in DOMAIN intents, SetStatus(req[c].intent, s), Answer(c, what, k),
           UNCHANGED <<moves, business, req>>, paymentMu \in {Free, c}, paymentMu' = Free,
           s = "SUCCEEDED" => IsPaid(req[c].intent), what = "ok" => IsPaid(k)
    PROVE  IInv'
<1> USE Typed
<1> DEFINE i == req[c].intent
           r == req[c]
<1>1. /\ intents' \in Seq(Intent) /\ DOMAIN intents' = DOMAIN intents /\ intents'[i].status = s
      /\ \A j \in DOMAIN intents : /\ j # i => intents'[j] = intents[j]
                                   /\ intents'[j].payer = intents[j].payer
                                   /\ intents'[j].amount = intents[j].amount
  BY StatusSet DEF Statuses
<1>2. \A j \in DOMAIN intents' : intents'[j].status = "SUCCEEDED" => IsPaid(j)
  BY <1>1
<1>3. /\ pc' = [pc EXCEPT ![c] = "done"] /\ outcome' = [outcome EXCEPT ![c] = what]
      /\ receipt' = [receipt EXCEPT ![c] = k] /\ req' = [req EXCEPT ![c] = r] /\ r \in RequestType
  BY DEF Answer, Goto
<1>4. "done" \in Labels /\ "done" \notin Critical /\ pc'[c] = "done"
  BY <1>3 DEF Labels, Critical, IInv, TypeOK
<1>5. PhaseOf(c)'
  BY <1>4 DEF PhaseOf, Creating, Critical
<1>6. /\ \A d \in Calls \ {c} : pc[d] \notin Critical
      /\ paymentMu' \in Calls \cup {Free} /\ ("done" \in Critical <=> paymentMu' = c)
      /\ \A d \in Calls \ {c} : paymentMu = d <=> paymentMu' = d
  BY <1>4, FreshAssumption
<1>7. what \in {"none", "ok", "refused", "lost"} /\ (r.op = "confirm" /\ what = "ok" => IsPaid(k))
  OBVIOUS
<1>8. \A d \in Calls \ {c} : pc[d] \in Critical =>
          intents'[req[d].intent].status = intents[req[d].intent].status
  BY <1>6
<1>9. UNCHANGED <<moves, business>> /\ DOMAIN intents \subseteq DOMAIN intents' /\ IInv
  BY <1>1
<1> HIDE DEF i, r
<1> QED
  BY ONLY <1>1, <1>2, <1>3, <1>4, <1>5, <1>6, <1>7, <1>8, <1>9, CallStep

\* A confirmation passes a check.
LEMMA PassStep ==
    ASSUME IInv, NEW c \in Calls, NEW label \in Critical, Continue(c, label),
           pc[c] \in {"lock"} \cup Critical, paymentMu \in {Free, c}, paymentMu' = c,
           UNCHANGED <<moves, intents, business, req>>, Confirmable(c),
           label = "finish" => IsPaid(req[c].intent)
    PROVE  IInv'
<1> USE Typed
<1>1. label \in Labels /\ label \notin Creating /\ label \notin {"done", "lock"}
  BY DEF Labels, Critical, Creating
<1>2. pc'[c] = label /\ outcome'[c] = outcome[c] /\ pc[c] # "done" /\ outcome[c] = "none"
  BY DEF Continue, Goto, IInv, TypeOK, PhaseOf, Critical
<1>3. PhaseOf(c)'
  BY <1>1, <1>2, SameMoves DEF PhaseOf, Confirmable
<1>4. /\ paymentMu' \in Calls \cup {Free} /\ (label \in Critical <=> paymentMu' = c)
      /\ \A d \in Calls \ {c} : paymentMu = d <=> paymentMu' = d
  BY FreshAssumption
<1>5. req' = [req EXCEPT ![c] = req[c]] /\ UNCHANGED <<moves, intents, business>>
  OBVIOUS
<1> QED
  BY <1>1, <1>2, <1>3, <1>4, <1>5, ContinueStep

\* A call between the acquisition and the release of the mutex works on an
\* intent of its payer that is still created, and no other call does.
LEMMA Holder ==
    ASSUME IInv, NEW c \in Calls, pc[c] \in Critical
    PROVE  Confirmable(c) /\ paymentMu = c /\ req[c].op = "confirm"
BY Typed DEF PhaseOf, Confirmable

LEMMA FailStep ==
    ASSUME IInv, NEW c \in Calls, pc[c] \in Critical, Fail(c), UNCHANGED <<moves, business, req>>
    PROVE  IInv'
<1>1. NoIntent \in Nat /\ req[c].intent \in DOMAIN intents /\ paymentMu = c
  BY Holder DEF NoIntent, Confirmable
<1> QED
  BY <1>1, EndStep DEF Fail

LEMMA LockStep ==
    ASSUME IInv, NEW c \in Calls, Lock(c)
    PROVE  IInv'
<1> USE Typed
<1> DEFINE i == req[c].intent
<1>1. /\ pc[c] = "lock" /\ pc[c] \notin Critical /\ paymentMu = Free /\ NoIntent \in Nat
      /\ UNCHANGED <<moves, business, req>> /\ ReadIntent(c)
  BY DEF Lock, Critical, NoIntent
<1>2. CASE ~Confirmable(c)
  <2>1. ASSUME NEW what \in {"ok", "refused"}, NEW k \in Nat, Answer(c, what, k),
               what = "ok" => IsPaid(k), UNCHANGED <<intents, paymentMu>>
        PROVE  IInv'
    BY <1>1, <2>1, AnswerStep
  <2>2. i \in DOMAIN intents /\ intents[i].status = "SUCCEEDED" => i \in Nat /\ IsPaid(i)
    OBVIOUS
  <2> QED
    BY <1>1, <1>2, <2>1, <2>2 DEF ReadIntent
<1>3. CASE Confirmable(c) /\ intents[i].late
  <2>1. SetStatus(i, "EXPIRED") /\ Answer(c, "refused", NoIntent) /\ paymentMu' = Free
    BY <1>1, <1>3 DEF ReadIntent
  <2> QED
    BY <1>1, <1>3, <2>1, EndStep DEF Confirmable
<1>4. CASE Confirmable(c) /\ ~intents[i].late
  <2>1. paymentMu' = c /\ Continue(c, "business") /\ UNCHANGED intents
    BY <1>1, <1>4 DEF ReadIntent
  <2>2. "business" \in Critical /\ "business" # "finish"
    BY DEF Critical
  <2> QED
    BY <1>1, <1>4, <2>1, <2>2, PassStep
<1> QED
  BY <1>2, <1>3, <1>4

LEMMA CheckStep ==
    ASSUME IInv, NEW c \in Calls, CheckBusiness(c) \/ CheckFunds(c)
    PROVE  IInv'
<1>1. pc[c] \in Critical /\ UNCHANGED <<moves, business, req>>
  BY DEF CheckBusiness, CheckFunds, Critical
<1>2. CASE Fail(c)
  BY <1>1, <1>2, FailStep
<1>3. ASSUME NEW label \in {"funds", "post"}, Continue(c, label), UNCHANGED <<intents, paymentMu>>
      PROVE  IInv'
  <2>1. label \in Critical /\ label # "finish"
    BY <1>3 DEF Critical
  <2> QED
    BY <1>1, <1>3, <2>1, Holder, PassStep
<1> QED
  BY <1>2, <1>3 DEF CheckBusiness, CheckFunds

LEMMA FinishStep ==
    ASSUME IInv, NEW c \in Calls, Finish(c)
    PROVE  IInv'
<1>1. pc[c] = "finish" /\ pc[c] \in Critical /\ UNCHANGED <<moves, business, req>>
  BY DEF Finish, Critical
<1>2. /\ req[c].intent \in DOMAIN intents /\ req[c].intent \in Nat /\ IsPaid(req[c].intent)
      /\ paymentMu = c
  BY <1>1, Holder, Typed DEF Confirmable, PhaseOf
<1> QED
  BY <1>1, <1>2, EndStep DEF Finish

LEMMA StopStep ==
    ASSUME IInv, NEW c \in Calls, Stop(c)
    PROVE  IInv'
<1> USE Typed
<1> DEFINE r == req[c]
           k == receipt[c]
<1>1. /\ pc' = [pc EXCEPT ![c] = "done"] /\ outcome' = [outcome EXCEPT ![c] = "lost"]
      /\ receipt' = [receipt EXCEPT ![c] = k] /\ req' = [req EXCEPT ![c] = r]
      /\ UNCHANGED <<moves, intents, business>> /\ r \in RequestType /\ k \in Nat
      /\ paymentMu' = IF paymentMu = c THEN Free ELSE paymentMu
  BY DEF Stop, Goto
<1>2. "done" \in Labels /\ "done" \notin Critical /\ pc'[c] = "done"
  BY <1>1 DEF Labels, Critical, IInv, TypeOK
<1>3. PhaseOf(c)'
  BY <1>2 DEF PhaseOf, Creating, Critical
<1>4. /\ paymentMu' \in Calls \cup {Free} /\ ("done" \in Critical <=> paymentMu' = c)
      /\ \A d \in Calls \ {c} : paymentMu = d <=> paymentMu' = d
  BY <1>1, <1>2, FreshAssumption
<1>5. "lost" \in {"none", "ok", "refused", "lost"} /\ "lost" # "ok"
  OBVIOUS
<1> HIDE DEF r, k
<1> QED
  BY <1>1, <1>2, <1>3, <1>4, <1>5, CallStep

LEMMA ExpireStep ==
    ASSUME IInv, NEW i \in DOMAIN intents, Expire(i)
    PROVE  IInv'
<1> USE Typed DEF IInv
<1>1. /\ UNCHANGED <<moves, business, paymentMu, pc, req, outcome, receipt>>
      /\ intents \in Seq(Intent) /\ intents' = [intents EXCEPT ![i].late = TRUE]
  BY DEF Expire, calls, TypeOK
<1>2. /\ intents' \in Seq(Intent) /\ DOMAIN intents' = DOMAIN intents
      /\ \A j \in DOMAIN intents : /\ intents'[j].payer = intents[j].payer
                                   /\ intents'[j].amount = intents[j].amount
                                   /\ intents'[j].status = intents[j].status
  BY <1>1, LateSet
<1>3. TypeOK'
  BY <1>1, <1>2 DEF TypeOK
<1>4. Phases'
  BY <1>1, <1>2, SameMoves DEF Phases, PhaseOf
<1>5. NoStrayEntry'
  BY <1>1, <1>2, SameMoves DEF NoStrayEntry
<1>6. CapturedOnce'
  BY <1>1, <1>2, SameMoves DEF CapturedOnce
<1>7. SucceededIsPaid'
  BY <1>1, <1>2, SameMoves DEF SucceededIsPaid
<1> QED
  BY <1>3, <1>4, <1>5, <1>6, <1>7

LEMMA BusinessStep ==
    ASSUME IInv, NEW status \in {"ACTIVE", "SUSPENDED", "CLOSED"}, UpdateBusiness(status)
    PROVE  IInv'
<1> USE DEF IInv
<1>1. /\ UNCHANGED <<moves, intents, paymentMu, pc, req, outcome, receipt>> /\ business' = status
  BY DEF UpdateBusiness, calls
<1>2. TypeOK'
  BY <1>1 DEF TypeOK
<1>3. Phases' /\ NoStrayEntry' /\ CapturedOnce' /\ SucceededIsPaid'
  BY <1>1, SameMoves DEF Phases, PhaseOf, NoStrayEntry, CapturedOnce, SucceededIsPaid
<1> QED
  BY <1>2, <1>3
-----------------------------------------------------------------------------
(* The steps that post. *)

LEMMA RefOfIntent ==
    ASSUME NEW i \in Nat
    PROVE  /\ RefOf(i) \in Refs /\ RefOf(i) # Unnamed
           /\ \A j : j # i => RefOf(j) # RefOf(i)
BY DEF RefOf, Refs, Unnamed

LEMMA SpendStep ==
    ASSUME IInv, NEW p \in Payers, WalletSpend(p)
    PROVE  IInv'
<1> USE DEF IInv
<1> DEFINE m == Move(Unnamed, p, ShopOwner, 1)
<1>1. /\ moves' = Append(moves, m) /\ moves \in Seq(MoveType(Refs))
      /\ UNCHANGED <<intents, business, paymentMu, pc, req, outcome, receipt>>
  BY DEF WalletSpend, calls, TypeOK
<1>2. m \in MoveType(Refs) /\ m.ref = Unnamed
  BY PayerAssumption DEF Move, MoveType, Refs
<1> HIDE DEF m
<1>3. /\ moves' \in Seq(MoveType(Refs))
      /\ \A n \in DOMAIN moves : n \in DOMAIN moves' /\ moves'[n] = moves[n]
      /\ \A ref : ref # Unnamed => MovesOf(ref)' = MovesOf(ref)
  BY <1>1, <1>2, MoveAppended
<1>4. \A i : RefOf(i) # Unnamed /\ MovesOf(RefOf(i))' = MovesOf(RefOf(i)) /\ IsPaid(i)' = IsPaid(i)
  BY <1>3 DEF RefOf, Unnamed, IsPaid
<1>5. TypeOK'
  BY <1>1, <1>3 DEF TypeOK
<1>6. Phases' /\ NoStrayEntry' /\ SucceededIsPaid'
  BY <1>1, <1>4 DEF Phases, PhaseOf, NoStrayEntry, SucceededIsPaid
<1>7. CapturedOnce'
  <2>1. \A ref : MovesOf(ref) \subseteq DOMAIN moves
    BY DEF MovesOf
  <2> QED
    BY <1>1, <1>3, <1>4, <2>1 DEF CapturedOnce
<1> QED
  BY <1>5, <1>6, <1>7

\* The entry of an intent is new: the journal grows by it.
LEMMA Captures ==
    ASSUME IInv, NEW c \in Calls, Post(c), ~IsPaid(req[c].intent),
           ~(Fail(c) /\ UNCHANGED moves)
    PROVE  LET i == req[c].intent
               m == Move(RefOf(i), intents[i].payer, Shop, intents[i].amount)
           IN  /\ moves' = Append(moves, m) /\ m \in MoveType(Refs) /\ m.ref = RefOf(i)
               /\ i \in DOMAIN intents /\ i \in Nat /\ Continue(c, "finish")
               /\ UNCHANGED <<intents, paymentMu, business, req>>
               /\ paymentMu = c
<1> USE Typed
<1> DEFINE i == req[c].intent
           m == Move(RefOf(i), intents[i].payer, Shop, intents[i].amount)
<1>1. pc[c] \in Critical /\ Confirmable(c) /\ paymentMu = c
  BY Holder DEF Post, Critical
<1>2. i \in DOMAIN intents /\ i \in Nat /\ intents[i] \in Intent /\ intents[i].payer = req[c].payer
  BY <1>1 DEF Confirmable
<1>3. m \in MoveType(Refs) /\ m.ref = RefOf(i)
  BY <1>2, RefOfIntent, PayerAssumption DEF Move, MoveType, Intent
<1>4. PostResult(m) = "posted"
  BY <1>3 DEF PostResult, IsPaid
<1>5. /\ PostMove(m) /\ Continue(c, "finish")
      /\ UNCHANGED <<intents, paymentMu, business, req>>
  BY <1>2, <1>4 DEF Post
<1> QED
  BY <1>1, <1>2, <1>3, <1>4, <1>5 DEF PostMove

LEMMA PostStep ==
    ASSUME IInv, NEW c \in Calls, Post(c)
    PROVE  IInv'
<1> USE Typed
<1> DEFINE i == req[c].intent
           m == Move(RefOf(i), req[c].payer, Shop, intents[i].amount)
<1>1. pc[c] = "post" /\ pc[c] \in Critical /\ Confirmable(c) /\ paymentMu = c
  BY Holder DEF Post, Critical
<1>2. CASE IsPaid(i)
  <2>1. m.ref = RefOf(i) /\ PostResult(m) \in {"duplicate", "error"}
    BY <1>2 DEF Move, PostResult, IsPaid
  <2>2. UNCHANGED <<moves, business, req>>
    BY <2>1 DEF Post, PostMove
  <2>3. \/ Fail(c)
        \/ Continue(c, "finish") /\ UNCHANGED <<intents, paymentMu>>
    BY DEF Post
  <2>4. "finish" \in Critical
    BY DEF Critical
  <2> QED
    BY <1>1, <1>2, <2>2, <2>3, <2>4, FailStep, PassStep
<1>3. CASE Fail(c) /\ UNCHANGED moves
  <2>1. UNCHANGED <<business, req>>
    BY DEF Post
  <2> QED
    BY <1>1, <1>3, <2>1, FailStep
<1>4. CASE ~IsPaid(i) /\ ~(Fail(c) /\ UNCHANGED moves)
  <2> DEFINE e == Move(RefOf(i), intents[i].payer, Shop, intents[i].amount)
             last == Len(moves) + 1
  <2>1. /\ moves' = Append(moves, e) /\ e \in MoveType(Refs) /\ e.ref = RefOf(i)
        /\ i \in DOMAIN intents /\ i \in Nat /\ Continue(c, "finish")
        /\ UNCHANGED <<intents, paymentMu, business, req>>
    BY <1>4, Captures
  <2>2. RefOf(i) # Unnamed /\ \A j : j # i => RefOf(j) # RefOf(i)
    BY <2>1, RefOfIntent
  <2> HIDE DEF e
  <2>3. /\ moves' \in Seq(MoveType(Refs)) /\ moves'[last] = e
        /\ \A n \in DOMAIN moves : moves'[n] = moves[n]
        /\ \A j : j # i => MovesOf(RefOf(j))' = MovesOf(RefOf(j))
        /\ MovesOf(RefOf(i))' = MovesOf(RefOf(i)) \cup {last}
    BY <2>1, <2>2, MoveAppended
  <2> HIDE DEF last
  <2>4. MovesOf(RefOf(i))' = {last} /\ IsPaid(i)' /\ \A j : j # i => IsPaid(j)' = IsPaid(j)
    BY <1>4, <2>3 DEF IsPaid
  <2>5. pc'[c] = "finish" /\ outcome' = outcome /\ receipt' = receipt
        /\ \A d \in Calls : d # c => pc'[d] = pc[d]
    BY <2>1 DEF Continue, Goto, IInv, TypeOK
  <2>6. TypeOK'
    BY <1>1, <2>1, <2>3, <2>5 DEF Continue, Goto, IInv, TypeOK, Critical
  <2>7. Phases'
    <3> SUFFICES ASSUME NEW d \in Calls PROVE PhaseOf(d)'
      BY DEF Phases
    <3>1. CASE d = c
      BY <1>1, <2>1, <2>4, <2>5, <3>1 DEF PhaseOf, Confirmable, Critical, Creating
    <3>2. CASE d # c
      BY <2>1, <2>4, <2>5, <3>2 DEF PhaseOf
    <3> QED
      BY <3>1, <3>2
  <2>8. NoStrayEntry'
    BY <2>1, <2>4 DEF NoStrayEntry, IInv
  <2>9. CapturedOnce'
    <3>1. \A ref : MovesOf(ref) \subseteq DOMAIN moves
      BY DEF MovesOf
    <3> SUFFICES ASSUME NEW j \in DOMAIN intents', NEW k \in MovesOf(RefOf(j))',
                        NEW n \in MovesOf(RefOf(j))'
                 PROVE  k = n /\ moves'[n] = Move(RefOf(j), intents'[j].payer, Shop, intents'[j].amount)
      BY DEF CapturedOnce
    <3>2. CASE j = i
      <4>1. k = last /\ n = last /\ moves'[last] = e /\ intents' = intents
        BY <2>1, <2>3, <2>4, <3>2
      <4> QED
        BY <3>2, <4>1 DEF e
    <3>3. CASE j # i
      BY <2>1, <2>3, <3>1, <3>3 DEF CapturedOnce, IInv
    <3> QED
      BY <3>2, <3>3
  <2>10. SucceededIsPaid'
    BY <2>1, <2>4, <2>5 DEF SucceededIsPaid, IInv
  <2> QED
    BY <2>6, <2>7, <2>8, <2>9, <2>10 DEF IInv
<1> QED
  BY <1>2, <1>3, <1>4
-----------------------------------------------------------------------------
(* The theorems for either repository. *)

LEMMA NextIInv == IInv /\ [Next]_vars => IInv'
<1> SUFFICES ASSUME IInv, [Next]_vars PROVE IInv'
  OBVIOUS
<1>1. ASSUME NEW c \in Calls, NEW r \in Requests, Begin(c, r) PROVE IInv'
  BY <1>1, BeginStep
<1>2. ASSUME NEW c \in Calls, Step(c) PROVE IInv'
  BY <1>2, CreateStep, InsertStep, LockStep, CheckStep, PostStep, FinishStep, StopStep DEF Step
<1>3. CASE Around
  BY <1>3, ExpireStep, BusinessStep, SpendStep DEF Around
<1>4. CASE UNCHANGED vars
  <2>1. \A ref : MovesOf(ref)' = MovesOf(ref)
    BY <1>4, SameMoves DEF vars
  <2>2. \A i : IsPaid(i)' = IsPaid(i)
    BY <1>4, SameMoves DEF vars
  <2>3. TypeOK'
    BY <1>4 DEF vars, IInv, TypeOK
  <2>4. Phases' /\ NoStrayEntry' /\ CapturedOnce' /\ SucceededIsPaid'
    BY <1>4, <2>1, <2>2 DEF vars, IInv, Phases, PhaseOf, NoStrayEntry, CapturedOnce, SucceededIsPaid
  <2> QED
    BY <2>3, <2>4 DEF IInv
<1> QED
  BY <1>1, <1>2, <1>3, <1>4 DEF Next

LEMMA Invariance == Spec => []IInv
<1>1. Init => IInv
  BY InitIInv
<1>2. IInv /\ [Next]_vars => IInv'
  BY NextIInv
<1> QED
  BY <1>1, <1>2, PTL DEF Spec

\* The variables keep their types, and paymentMu is held exactly by the call
\* between ConfirmPaymentIntent's Lock and its deferred Unlock.
THEOREM Typing == Spec => []TypeOK
<1>1. IInv => TypeOK
  BY DEF IInv
<1> QED
  BY <1>1, Invariance, PTL

\* Racing or retried confirmations never take the money of an intent twice, nor
\* another amount, nor from another user.
THEOREM CaptureOnce == Spec => []CapturedOnce
<1>1. IInv => CapturedOnce
  BY DEF IInv
<1> QED
  BY <1>1, Invariance, PTL

\* An intent recorded or answered as succeeded has been paid.
THEOREM SuccessIsPaid == Spec => []SucceededIsPaid
<1>1. IInv => SucceededIsPaid
  BY DEF IInv
<1> QED
  BY <1>1, Invariance, PTL
-----------------------------------------------------------------------------
(* What a step may do to an intent, and what holds until a call is cut off   *)
(* between the posting of its payment and the status update.                 *)

InHand(i) == IsPaid(i) /\ intents[i].status = "CREATED"

\* A call stops that has paid its intent and not recorded it.
CutOff == \E c \in Calls : pc[c] = "finish" /\ Stop(c)

\* A paid intent that is still created is in the hand of the call that is about
\* to finish it.
PaidInHand ==
    \A i \in DOMAIN intents : InHand(i) => \E c \in Calls : pc[c] = "finish" /\ req[c].intent = i

Hands == PaidIsNotRefused /\ PaidInHand

SamePaid == \A i : IsPaid(i)' <=> IsPaid(i)
SameStatus == /\ DOMAIN intents' = DOMAIN intents
              /\ \A i \in DOMAIN intents : intents'[i].status = intents[i].status
HandsKept ==
    ~CutOff => \A c \in Calls : pc[c] = "finish" => pc'[c] = "finish" /\ req'[c] = req[c]

Quiet == SameStatus /\ SamePaid /\ HandsKept

Asks ==
    /\ DOMAIN intents' = 1..(Len(intents) + 1)
    /\ intents'[Len(intents) + 1].status = "CREATED"
    /\ \A i \in DOMAIN intents : intents'[i] = intents[i]
    /\ SamePaid /\ HandsKept

Ends(i) ==
    /\ intents[i].status = "CREATED"
    /\ DOMAIN intents' = DOMAIN intents /\ SamePaid
    /\ intents'[i].status \in {"SUCCEEDED", "FAILED", "EXPIRED"}
    /\ \A j \in DOMAIN intents : j # i => intents'[j] = intents[j]
    /\ intents'[i].status = "SUCCEEDED" => IsPaid(i)
    /\ Hands => /\ IsPaid(i) => intents'[i].status = "SUCCEEDED"
                /\ \A j \in DOMAIN intents : j # i => ~InHand(j)

Pays(i) ==
    /\ intents[i].status = "CREATED" /\ ~IsPaid(i) /\ IsPaid(i)'
    /\ intents' = intents /\ \A j : j # i => (IsPaid(j)' <=> IsPaid(j))
    /\ \E c \in Calls : pc'[c] = "finish" /\ req'[c].intent = i
    /\ Hands => \A j \in DOMAIN intents : ~InHand(j)

Effect == Quiet \/ Asks \/ \E i \in DOMAIN intents : Ends(i) \/ Pays(i)

\* Only the holder of the mutex, when it is about to finish, has a paid intent
\* in its hand, and only the one it confirms.
LEMMA OnlyHolder ==
    ASSUME IInv, Hands, NEW j \in DOMAIN intents, InHand(j)
    PROVE  \E c \in Calls : /\ pc[c] = "finish" /\ paymentMu = c /\ req[c].intent = j
<1>1. PICK c \in Calls : pc[c] = "finish" /\ req[c].intent = j
  BY DEF Hands, PaidInHand
<1>2. pc[c] \in Critical
  BY <1>1 DEF Critical
<1> QED
  BY <1>1, <1>2, Holder

\* Call c does not touch the intents, nor finishes.
LEMMA QuietCall ==
    ASSUME IInv, NEW c \in Calls, pc[c] # "finish", UNCHANGED <<moves, intents>>,
           NEW label, Goto(c, label), NEW r, req' = [req EXCEPT ![c] = r]
    PROVE  Quiet
<1>1. \A d \in Calls : d # c => pc'[d] = pc[d] /\ req'[d] = req[d]
  BY DEF Goto, IInv, TypeOK
<1>2. SamePaid
  BY SameMoves DEF SamePaid
<1> QED
  BY <1>1, <1>2 DEF Quiet, SameStatus, HandsKept

LEMMA EndEffect ==
    ASSUME IInv, NEW c \in Calls, NEW s \in {"SUCCEEDED", "FAILED", "EXPIRED"},
           Confirmable(c), SetStatus(req[c].intent, s), moves' = moves,
           paymentMu \in {Free, c},
           s = "SUCCEEDED" <=> pc[c] = "finish"
    PROVE  Ends(req[c].intent)
<1> USE Typed
<1> DEFINE i == req[c].intent
<1>1. i \in DOMAIN intents /\ intents[i].status = "CREATED"
  BY DEF Confirmable
<1>2. /\ DOMAIN intents' = DOMAIN intents /\ intents'[i].status = s
      /\ \A j \in DOMAIN intents : j # i => intents'[j] = intents[j]
  BY <1>1, StatusSet DEF Statuses
<1>3. SamePaid
  BY SameMoves DEF SamePaid
<1>4. ASSUME Hands, NEW j \in DOMAIN intents, InHand(j)
      PROVE  j = i /\ s = "SUCCEEDED"
  BY <1>4, OnlyHolder, FreshAssumption
<1>5. s = "SUCCEEDED" => IsPaid(i)
  BY DEF PhaseOf
<1> QED
  BY <1>1, <1>2, <1>3, <1>4, <1>5 DEF Ends, InHand

LEMMA CriticalEffect ==
    ASSUME IInv, NEW c \in Calls,
           CheckBusiness(c) \/ CheckFunds(c) \/ Post(c) \/ Finish(c)
    PROVE  Effect
<1> USE Typed
<1> DEFINE i == req[c].intent
<1>1. pc[c] \in Critical /\ Confirmable(c) /\ paymentMu = c /\ i \in DOMAIN intents
  BY Holder DEF CheckBusiness, CheckFunds, Post, Finish, Critical, Confirmable
<1>2. ASSUME Fail(c), moves' = moves, pc[c] # "finish" PROVE Effect
  BY <1>1, <1>2, EndEffect DEF Fail, Effect
<1>3. ASSUME NEW label, Continue(c, label), UNCHANGED <<moves, intents, req>>, pc[c] # "finish"
      PROVE  Effect
  <2>1. req' = [req EXCEPT ![c] = req[c]]
    BY <1>3
  <2> QED
    BY <1>3, <2>1, QuietCall DEF Continue, Effect
<1>4. CASE CheckBusiness(c) \/ CheckFunds(c)
  BY <1>2, <1>3, <1>4 DEF CheckBusiness, CheckFunds
<1>5. CASE Finish(c)
  BY <1>1, <1>5, EndEffect DEF Finish, Effect
<1>6. CASE Post(c) /\ IsPaid(i)
  <2> DEFINE m == Move(RefOf(i), req[c].payer, Shop, intents[i].amount)
  <2>1. PostResult(m) \in {"duplicate", "error"}
    BY <1>6 DEF Move, PostResult, IsPaid
  <2>2. UNCHANGED <<moves, req>> /\ pc[c] # "finish"
    BY <1>6, <2>1 DEF Post, PostMove
  <2> QED
    BY <1>2, <1>3, <1>6, <2>2 DEF Post
<1>7. CASE Post(c) /\ Fail(c) /\ UNCHANGED moves
  BY <1>2, <1>7 DEF Post
<1>8. CASE Post(c) /\ ~IsPaid(i) /\ ~(Fail(c) /\ UNCHANGED moves)
  <2> DEFINE e == Move(RefOf(i), intents[i].payer, Shop, intents[i].amount)
             last == Len(moves) + 1
  <2>1. /\ moves' = Append(moves, e) /\ e \in MoveType(Refs) /\ e.ref = RefOf(i)
        /\ i \in Nat /\ Continue(c, "finish") /\ intents' = intents /\ req' = req
    BY <1>8, Captures
  <2>2. RefOf(i) # Unnamed /\ \A j : j # i => RefOf(j) # RefOf(i)
    BY <2>1, RefOfIntent
  <2> HIDE DEF e
  <2>3. /\ \A j : j # i => MovesOf(RefOf(j))' = MovesOf(RefOf(j))
        /\ MovesOf(RefOf(i))' = MovesOf(RefOf(i)) \cup {last}
    BY <2>1, <2>2, MoveAppended
  <2> HIDE DEF last
  <2>4. IsPaid(i)' /\ \A j : j # i => (IsPaid(j)' <=> IsPaid(j))
    BY <2>3 DEF IsPaid
  <2>5. pc'[c] = "finish" /\ req'[c].intent = i
    BY <2>1 DEF Continue, Goto, IInv, TypeOK
  <2>6. ASSUME Hands, NEW j \in DOMAIN intents, InHand(j) PROVE FALSE
    BY <1>1, <1>8, <2>6, OnlyHolder DEF Post
  <2>7. Pays(i)
    BY <1>1, <1>8, <2>1, <2>4, <2>5, <2>6 DEF Pays, Confirmable
  <2> QED
    BY <1>1, <2>7 DEF Effect
<1> QED
  BY <1>4, <1>5, <1>6, <1>7, <1>8

LEMMA OtherEffect ==
    ASSUME IInv, NEW c \in Calls,
           (\E r \in Requests : Begin(c, r)) \/ CheckKey(c) \/ Validate(c) \/ Insert(c) \/ Lock(c)
             \/ Stop(c)
    PROVE  Effect
<1> USE Typed
<1> DEFINE i == req[c].intent
<1>1. ASSUME NEW label, Goto(c, label), UNCHANGED <<moves, intents>>, pc[c] # "finish",
             NEW r, req' = [req EXCEPT ![c] = r]
      PROVE  Effect
  BY <1>1, QuietCall DEF Effect
<1>2. CASE \E r \in Requests : Begin(c, r)
  <2>1. PICK r \in Requests : Begin(c, r)
    BY <1>2
  <2>2. /\ UNCHANGED <<moves, intents>> /\ pc[c] # "finish" /\ req' = [req EXCEPT ![c] = r]
        /\ \E label : Goto(c, label)
    BY <2>1 DEF Begin, Answer, Continue
  <2> QED
    BY <1>1, <2>2
<1>3. CASE CheckKey(c) \/ Validate(c)
  <2>1. /\ UNCHANGED <<moves, intents>> /\ pc[c] # "finish" /\ req' = [req EXCEPT ![c] = req[c]]
    BY <1>3 DEF CheckKey, Validate
  <2>2. \E label : Goto(c, label)
    BY <1>3 DEF CheckKey, Validate, Answer, Continue
  <2> QED
    BY <1>1, <2>1, <2>2
<1>4. CASE Insert(c)
  <2> DEFINE new == [payer |-> req[c].payer, amount |-> req[c].amount, key |-> req[c].key,
                     late |-> FALSE, status |-> "CREATED"]
             k == Len(intents) + 1
  <2>1. /\ intents' = Append(intents, new) /\ new.status = "CREATED" /\ moves' = moves /\ req' = req
        /\ pc[c] = "insert" /\ \A d \in Calls : d # c => pc'[d] = pc[d]
    BY <1>4 DEF Insert, Answer, Goto, IInv, TypeOK
  <2> HIDE DEF new
  <2>2. /\ DOMAIN intents' = 1..k /\ intents'[k] = new
        /\ \A j \in DOMAIN intents : intents'[j] = intents[j]
    BY <2>1
  <2>3. SamePaid /\ HandsKept
    BY <2>1, SameMoves DEF SamePaid, HandsKept
  <2> QED
    BY <2>1, <2>2, <2>3 DEF Asks, Effect
<1>5. CASE Lock(c)
  <2>1. /\ pc[c] = "lock" /\ paymentMu = Free /\ moves' = moves /\ req' = [req EXCEPT ![c] = req[c]]
        /\ ReadIntent(c)
    BY <1>5 DEF Lock
  <2>2. \E label : Goto(c, label)
    BY <2>1 DEF ReadIntent, Answer, Continue
  <2>3. CASE intents' = intents
    BY <1>1, <2>1, <2>2, <2>3
  <2>4. CASE intents' # intents
    <3>1. Confirmable(c) /\ SetStatus(i, "EXPIRED")
      BY <2>1, <2>4 DEF ReadIntent
    <3>2. Ends(i)
      BY <2>1, <3>1, EndEffect
    <3> QED
      BY <3>1, <3>2 DEF Effect, Confirmable
  <2> QED
    BY <2>3, <2>4
<1>6. CASE Stop(c)
  <2>1. UNCHANGED <<moves, intents, req>> /\ \A d \in Calls : d # c => pc'[d] = pc[d]
    BY <1>6 DEF Stop, Goto, IInv, TypeOK
  <2>2. HandsKept
    BY <1>6, <2>1 DEF HandsKept, CutOff
  <2>3. Quiet
    BY <2>1, <2>2, SameMoves DEF Quiet, SameStatus, SamePaid
  <2> QED
    BY <2>3 DEF Effect
<1> QED
  BY <1>2, <1>3, <1>4, <1>5, <1>6

LEMMA AroundEffect ==
    ASSUME IInv, Around \/ UNCHANGED vars
    PROVE  Quiet
<1>1. UNCHANGED <<pc, req>>
  BY DEF Around, Expire, UpdateBusiness, WalletSpend, calls, vars
<1>2. HandsKept
  BY <1>1 DEF HandsKept
<1>3. CASE \E i \in DOMAIN intents : Expire(i)
  <2>1. PICK i \in DOMAIN intents : Expire(i)
    BY <1>3
  <2>2. intents \in Seq(Intent)
    BY DEF IInv, TypeOK
  <2>3. SameStatus
    BY <2>1, <2>2, LateSet DEF Expire, SameStatus
  <2> QED
    BY <1>2, <2>1, <2>3, SameMoves DEF Expire, Quiet, SamePaid
<1>4. CASE UNCHANGED <<moves, intents>>
  BY <1>2, <1>4, SameMoves DEF Quiet, SamePaid, SameStatus
<1>5. CASE \E p \in Payers : WalletSpend(p)
  <2>1. PICK p \in Payers : WalletSpend(p)
    BY <1>5
  <2> DEFINE m == Move(Unnamed, p, ShopOwner, 1)
  <2>2. m \in MoveType(Refs) /\ m.ref = Unnamed
    BY PayerAssumption DEF Move, MoveType, Refs
  <2>3. moves' = Append(moves, m) /\ moves \in Seq(MoveType(Refs)) /\ intents' = intents
    BY <2>1 DEF WalletSpend, IInv, TypeOK
  <2> HIDE DEF m
  <2>4. \A ref : ref # Unnamed => MovesOf(ref)' = MovesOf(ref)
    BY <2>2, <2>3, MoveAppended
  <2>5. SamePaid
    BY <2>4 DEF SamePaid, IsPaid, RefOf, Unnamed
  <2> QED
    BY <1>2, <2>3, <2>5 DEF Quiet, SameStatus
<1> QED
  BY <1>3, <1>4, <1>5 DEF Around, UpdateBusiness, vars

LEMMA NextEffect ==
    ASSUME IInv, [Next]_vars
    PROVE  Effect
<1>1. ASSUME NEW c \in Calls, Step(c) PROVE Effect
  BY <1>1, CriticalEffect, OtherEffect DEF Step
<1>2. ASSUME NEW c \in Calls, NEW r \in Requests, Begin(c, r) PROVE Effect
  BY <1>2, OtherEffect
<1>3. CASE Around \/ UNCHANGED vars
  BY <1>3, AroundEffect DEF Effect
<1> QED
  BY <1>1, <1>2, <1>3 DEF Next

LEMMA NextHands ==
    ASSUME IInv, Hands, [Next]_vars, ~CutOff
    PROVE  Hands'
<1> SUFFICES ASSUME NEW j \in DOMAIN intents', IsPaid(j)'
             PROVE  /\ intents'[j].status \in {"CREATED", "SUCCEEDED"}
                    /\ intents'[j].status = "CREATED" =>
                         \E c \in Calls : pc'[c] = "finish" /\ req'[c].intent = j
  BY DEF Hands, PaidIsNotRefused, PaidInHand, InHand
<1> USE Typed
<1>1. CASE Quiet
  <2>1. j \in DOMAIN intents /\ IsPaid(j) /\ intents'[j].status = intents[j].status
    BY <1>1 DEF Quiet, SameStatus, SamePaid
  <2> QED
    BY <1>1, <2>1 DEF Quiet, HandsKept, Hands, PaidIsNotRefused, PaidInHand, InHand
<1>2. CASE Asks
  <2>1. IsPaid(j) /\ j \in Nat
    BY <1>2 DEF Asks, SamePaid
  <2>2. j \in DOMAIN intents /\ intents'[j] = intents[j]
    BY <1>2, <2>1 DEF Asks, IInv, NoStrayEntry
  <2> QED
    BY <1>2, <2>1, <2>2 DEF Asks, HandsKept, Hands, PaidIsNotRefused, PaidInHand, InHand
<1>3. ASSUME NEW i \in DOMAIN intents, Ends(i)
      PROVE  /\ intents'[j].status \in {"CREATED", "SUCCEEDED"}
             /\ intents'[j].status = "CREATED" =>
                  \E c \in Calls : pc'[c] = "finish" /\ req'[c].intent = j
  BY <1>3 DEF Ends, SamePaid, InHand, Hands, PaidIsNotRefused
<1>4. ASSUME NEW i \in DOMAIN intents, Pays(i)
      PROVE  /\ intents'[j].status \in {"CREATED", "SUCCEEDED"}
             /\ intents'[j].status = "CREATED" =>
                  \E c \in Calls : pc'[c] = "finish" /\ req'[c].intent = j
  BY <1>4 DEF Pays, InHand, Hands, PaidIsNotRefused
<1> QED
  BY <1>1, <1>2, <1>3, <1>4, NextEffect DEF Effect

\* On either repository a paid intent is left in nobody's hands only by a call
\* that is cut off there.
LEMMA HandsInvariance == Spec /\ [][~CutOff]_vars => [](IInv /\ Hands)
<1>1. Init => IInv /\ Hands
  BY InitIInv DEF Init, Hands, PaidIsNotRefused, PaidInHand, InHand, IsPaid, MovesOf
<1>2. IInv /\ Hands /\ [Next]_vars /\ [~CutOff]_vars => (IInv /\ Hands)'
  <2> SUFFICES ASSUME IInv, Hands, [Next]_vars, [~CutOff]_vars PROVE (IInv /\ Hands)'
    OBVIOUS
  <2>1. CASE ~CutOff
    BY <2>1, NextIInv, NextHands
  <2>2. CASE UNCHANGED vars
    <3>1. ~CutOff
      BY <2>2 DEF CutOff, Stop, Goto, vars, calls, IInv, TypeOK
    <3> QED
      BY <3>1, NextIInv, NextHands
  <2> QED
    BY <2>1, <2>2
<1> QED
  BY <1>1, <1>2, PTL DEF Spec

\* An intent whose money has moved is recorded as failed or expired only after a
\* call was cut off between the posting and the status update.
THEOREM RefusedIfCutOff == Spec /\ [][~CutOff]_vars => []PaidIsNotRefused
<1>1. Hands => PaidIsNotRefused
  BY DEF Hands
<1> QED
  BY <1>1, HandsInvariance, PTL

LEMMA NeverCutOff == ASSUME Backend = "memory" PROVE ~CutOff
BY DEF CutOff, Stop

\* On MemoryRepository an intent whose money has moved is never recorded as
\* failed or expired.
THEOREM PaidNotRefused == Backend = "memory" => (Spec => []PaidIsNotRefused)
<1> SUFFICES ASSUME Backend = "memory" PROVE Spec => []PaidIsNotRefused
  OBVIOUS
<1>1. [Next]_vars => [~CutOff]_vars
  BY NeverCutOff
<1> QED
  BY <1>1, RefusedIfCutOff, PTL DEF Spec

\* On either repository no step changes the status of an intent that has ended.
THEOREM Final == Spec => FinalStatus
<1>1. IInv /\ [Next]_vars =>
        [\A i \in DOMAIN intents : intents[i].status # "CREATED"
           => intents'[i].status = intents[i].status]_vars
  <2> SUFFICES ASSUME IInv, [Next]_vars, NEW i \in DOMAIN intents,
                      intents[i].status # "CREATED"
               PROVE  intents'[i].status = intents[i].status
    OBVIOUS
  <2>1. Effect
    BY NextEffect
  <2> QED
    BY <2>1 DEF Effect, Quiet, SameStatus, Asks, Ends, Pays
<1> QED
  BY <1>1, Invariance, PTL DEF Spec, FinalStatus
-----------------------------------------------------------------------------
(* The payments implement PaymentLife, until a call is cut off. *)

Bills == [i \in DOMAIN intents |->
            IF intents[i].status = "CREATED" /\ IsPaid(i) THEN "SUCCEEDED" ELSE intents[i].status]
PaidSet == {i \in DOMAIN intents : IsPaid(i)}

LEMMA AppendIsFunction ==
    ASSUME NEW S, NEW q \in Seq(S), NEW x \in S
    PROVE  Append(q, x) = [i \in 1..(Len(q) + 1) |-> IF i = Len(q) + 1 THEN x ELSE q[i]]
<1> DEFINE D == 1..(Len(q) + 1)
           a == Append(q, x)
           b == [i \in D |-> IF i = Len(q) + 1 THEN x ELSE q[i]]
<1>0. a \in Seq(S) /\ Len(a) = Len(q) + 1
  OBVIOUS
<1>1. a = [i \in D |-> a[i]] /\ b = [i \in D |-> b[i]]
  <2>1. b = [i \in D |-> b[i]]
    OBVIOUS
  <2> HIDE DEF a, b
  <2>2. a = [i \in D |-> a[i]]
    BY <1>0
  <2> QED
    BY <2>1, <2>2
<1>2. \A i \in D : a[i] = b[i]
  OBVIOUS
<1> HIDE DEF D, a, b
<1>3. a = b
  BY <1>1, <1>2
<1> QED
  BY <1>3 DEF a, b, D

LEMMA LifeStep ==
    ASSUME IInv, Hands, [Next]_vars
    PROVE  [Life!LifeNext]_<<Bills, PaidSet>>
<1> USE Typed
<1>0. Effect
  BY NextEffect
<1>1. DOMAIN Bills = DOMAIN intents /\ DOMAIN Bills' = DOMAIN intents'
  BY DEF Bills
<1>2. ASSUME SameStatus, SamePaid PROVE Bills' = Bills /\ PaidSet' = PaidSet
  BY <1>2 DEF SameStatus, SamePaid, Bills, PaidSet
<1>3. CASE Quiet
  BY <1>2, <1>3 DEF Quiet
<1>4. CASE Asks
  <2> DEFINE k == Len(intents) + 1
  <2>1. /\ intents \in Seq(Intent) /\ Len(intents) \in Nat /\ DOMAIN intents = 1..Len(intents)
        /\ DOMAIN intents' = 1..k /\ intents'[k].status = "CREATED"
        /\ \A i \in DOMAIN intents : intents'[i] = intents[i]
        /\ \A i : IsPaid(i)' <=> IsPaid(i)
    BY <1>4 DEF Asks, SamePaid, IInv, TypeOK
  <2>2. ~IsPaid(k)
    BY <2>1 DEF IInv, NoStrayEntry
  <2>3. PaidSet' = PaidSet
    BY <2>1, <2>2 DEF PaidSet
  <2>4. Bills \in Seq(Statuses) /\ Len(Bills) = Len(intents)
    <3>1. \A i \in 1..Len(intents) : Bills[i] \in Statuses
      <4>1. \A i \in 1..Len(intents) : intents[i] \in Intent
        BY <2>1
      <4>2. \A x \in Intent : x.status \in Statuses
        BY DEF Intent, Statuses
      <4>3. \A i \in 1..Len(intents) : intents[i].status \in Statuses
        BY ONLY <4>1, <4>2
      <4> QED
        BY <2>1, <4>3 DEF Bills, Statuses
    <3>2. Bills = [i \in 1..Len(intents) |-> Bills[i]]
      BY <2>1 DEF Bills
    <3> HIDE DEF Bills
    <3> QED
      BY <2>1, <3>1, <3>2
  <2>5. Bills' = [i \in 1..k |-> IF i = k THEN "CREATED" ELSE Bills[i]]
    BY <2>1, <2>2 DEF Bills
  <2>6. Append(Bills, "CREATED") = [i \in 1..k |-> IF i = k THEN "CREATED" ELSE Bills[i]]
    <3> HIDE DEF Bills
    <3>1. "CREATED" \in Statuses
      BY DEF Statuses
    <3> QED
      BY <2>1, <2>4, <3>1, AppendIsFunction
  <2>7. Life!Ask
    BY <2>3, <2>5, <2>6 DEF Life!Ask, Bills, PaidSet
  <2> QED
    BY <2>7 DEF Life!LifeNext
<1>5. ASSUME NEW i \in DOMAIN intents, Ends(i) PROVE [Life!LifeNext]_<<Bills, PaidSet>>
  <2>1. PaidSet' = PaidSet
    BY <1>5 DEF Ends, SamePaid, PaidSet
  <2>2. CASE IsPaid(i)
    <3>1. Bills' = Bills
      BY <1>5, <2>2 DEF Ends, SamePaid, Bills
    <3> QED
      BY <2>1, <3>1
  <2>3. CASE ~IsPaid(i)
    <3> DEFINE end == intents'[i].status
    <3>1. end \in {"FAILED", "EXPIRED"} /\ Bills[i] = "CREATED"
      BY <1>5, <2>3 DEF Ends, Bills
    <3>2. Bills' = [Bills EXCEPT ![i] = end]
      BY <1>5, <2>3 DEF Ends, SamePaid, Bills
    <3>3. Life!Drop(i)
      BY <2>1, <3>1, <3>2 DEF Life!Drop, Bills, PaidSet
    <3> QED
      BY <1>1, <3>3 DEF Life!LifeNext, Bills
  <2> QED
    BY <2>2, <2>3
<1>6. ASSUME NEW i \in DOMAIN intents, Pays(i) PROVE [Life!LifeNext]_<<Bills, PaidSet>>
  <2>1. Bills[i] = "CREATED" /\ PaidSet' = PaidSet \cup {i}
    BY <1>6 DEF Pays, Bills, PaidSet
  <2>2. Bills' = [Bills EXCEPT ![i] = "SUCCEEDED"]
    BY <1>6 DEF Pays, Bills
  <2>3. Life!Pay(i)
    BY <2>1, <2>2 DEF Life!Pay, Bills, PaidSet
  <2> QED
    BY <1>1, <2>3 DEF Life!LifeNext, Bills
<1> QED
  BY <1>0, <1>3, <1>4, <1>5, <1>6 DEF Effect

\* Seen from its payer an intent is paid and succeeds in one step, or ends unpaid,
\* until a call is cut off between the two halves of that step.
THEOREM LifeUntilCutOff == Spec /\ [][~CutOff]_vars => LifeSpec
<1>1. Init => Life!LifeInit
  BY DEF Init, Life!LifeInit, IsPaid, MovesOf
<1>2. IInv /\ Hands /\ [Next]_vars => [Life!LifeNext]_(Life!lifeVars)
  BY LifeStep DEF Life!lifeVars, Bills, PaidSet
<1> QED
  BY <1>1, <1>2, HandsInvariance, PTL DEF Spec, LifeSpec, Life!LifeSpec

\* On MemoryRepository, where no call is cut off, without condition.
THEOREM ImplementsLife == Backend = "memory" => (Spec => LifeSpec)
<1> SUFFICES ASSUME Backend = "memory" PROVE Spec => LifeSpec
  OBVIOUS
<1>1. [Next]_vars => [~CutOff]_vars
  BY NeverCutOff
<1> QED
  BY <1>1, LifeUntilCutOff, PTL DEF Spec
-----------------------------------------------------------------------------
(* Wallets.  The sums are taken of a journal given by its entries, so that   *)
(* the one before a step and the one after it can be compared.               *)

\* What p has paid to the shop, spent in all, and received.
ToShop(entries, p) ==
    Total(Amounts(entries), {n \in DOMAIN entries : entries[n].from = p /\ entries[n].to = Shop})
Spent(entries, p) == Total(Amounts(entries), {n \in DOMAIN entries : entries[n].from = p})
Got(entries, p) == Total(Amounts(entries), {n \in DOMAIN entries : entries[n].to = p})

\* A call that is about to post has the money for it: no other confirmation can
\* have taken it since CheckFunds, for the call holds the mutex.
Room(c) ==
    pc[c] = "post" =>
        LET p == req[c].payer
        IN  ToShop(moves, p) + intents[req[c].intent].amount <= Opening[p] + Got(moves, p)

Wallets ==
    /\ \A p \in Payers : ToShop(moves, p) <= Opening[p] + Got(moves, p)
    /\ \A c \in Calls : Room(c)

\* The folds of MoneyBook are totals.
LEMMA AmountIsTotal ==
    ASSUME moves \in Seq(MoveType(Refs)), NEW S \in SUBSET DOMAIN moves
    PROVE  AmountOf(S) = Total(Amounts(moves), S)
<1>1. IsFiniteSet(S)
  BY RowsFinite, FS_Subset
<1>2. AmountOf(S) = (CHOOSE g : g = [s \in SUBSET S |->
               IF s = {} THEN 0 ELSE moves[Pick(s)].amount + g[s \ {Pick(s)}]])[S]
  BY DEF AmountOf, MapThenSumSet, MapThenFoldSet, Pick
<1> QED
  BY <1>1, <1>2, AmountFold

LEMMA WalletTypes ==
    ASSUME moves \in Seq(MoveType(Refs)), NEW p
    PROVE  /\ ToShop(moves, p) \in Nat /\ Spent(moves, p) \in Nat /\ Got(moves, p) \in Nat
           /\ ToShop(moves, p) <= Spent(moves, p)
<1> DEFINE f == Amounts(moves)
           S == {n \in DOMAIN moves : moves[n].from = p}
           T == {n \in S : moves[n].to = Shop}
           G == {n \in DOMAIN moves : moves[n].to = p}
<1>1. \A n \in DOMAIN moves : f[n] \in Nat
  <2>1. \A n \in DOMAIN moves : moves[n] \in MoveType(Refs)
    OBVIOUS
  <2>2. \A x \in MoveType(Refs) : x.amount \in Nat
    BY DEF MoveType
  <2> QED
    BY <2>1, <2>2 DEF Amounts
<1>2. IsFiniteSet(DOMAIN moves) /\ IsFiniteSet(S)
  BY RowsFinite, FS_Subset
<1>3. /\ S \in SUBSET DOMAIN moves /\ T \in SUBSET S /\ G \in SUBSET DOMAIN moves
      /\ T = {n \in DOMAIN moves : moves[n].from = p /\ moves[n].to = Shop}
  OBVIOUS
<1> HIDE DEF f, S, T, G
<1>4. Total(f, S) \in Nat /\ Total(f, G) \in Nat
  BY <1>1, <1>2, <1>3, TotalNat
<1>5. Total(f, T) \in Nat /\ Total(f, T) <= Total(f, S)
  BY <1>1, <1>2, <1>3, TotalNat
<1>6. ToShop(moves, p) = Total(f, T)
  BY <1>3 DEF ToShop, f
<1> QED
  BY <1>4, <1>5, <1>6 DEF Spent, Got, f, S, G

\* One entry more in the journal.
LEMMA WalletMove ==
    ASSUME moves \in Seq(MoveType(Refs)), NEW m \in MoveType(Refs), moves' = Append(moves, m),
           NEW p
    PROVE  /\ ToShop(moves', p) =
                ToShop(moves, p) + (IF m.from = p /\ m.to = Shop THEN m.amount ELSE 0)
           /\ Got(moves', p) = Got(moves, p) + (IF m.to = p THEN m.amount ELSE 0)
<1> DEFINE k == Len(moves) + 1
           T == {n \in DOMAIN moves : moves[n].from = p /\ moves[n].to = Shop}
           G == {n \in DOMAIN moves : moves[n].to = p}
           more == moves'
<1>1. \A x \in MoveType(Refs) : x.amount \in Int
  BY DEF MoveType
<1>2. T \in SUBSET DOMAIN moves /\ G \in SUBSET DOMAIN moves
  OBVIOUS
<1>3. /\ DOMAIN more = DOMAIN moves \cup {k} /\ k \notin DOMAIN moves /\ more[k] = m
      /\ \A n \in DOMAIN moves : more[n] = moves[n]
  OBVIOUS
<1>4. /\ {n \in DOMAIN more : more[n].from = p /\ more[n].to = Shop} =
            IF m.from = p /\ m.to = Shop THEN T \cup {k} ELSE T
      /\ {n \in DOMAIN more : more[n].to = p} = IF m.to = p THEN G \cup {k} ELSE G
  <2> HIDE DEF k, more
  <2> QED
    BY <1>3
<1>5. more = Append(moves, m)
  OBVIOUS
<1> HIDE DEF T, G, more
<1>6. ASSUME NEW U \in SUBSET DOMAIN moves
      PROVE  /\ Total(Amounts(moves), U) \in Int
             /\ Total(Amounts(more), U) = Total(Amounts(moves), U)
             /\ Total(Amounts(more), U \cup {k}) = Total(Amounts(moves), U) + m.amount
  BY <1>1, <1>5, AmountAppend
<1>7. ToShop(more, p) = Total(Amounts(more), IF m.from = p /\ m.to = Shop THEN T \cup {k} ELSE T)
  BY <1>4 DEF ToShop
<1>8. Got(more, p) = Total(Amounts(more), IF m.to = p THEN G \cup {k} ELSE G)
  BY <1>4 DEF Got
<1>9. ToShop(moves, p) = Total(Amounts(moves), T) /\ Got(moves, p) = Total(Amounts(moves), G)
  BY DEF ToShop, Got, T, G
<1> HIDE DEF k
<1>10. ToShop(more, p) = ToShop(moves, p) + (IF m.from = p /\ m.to = Shop THEN m.amount ELSE 0)
  <2>1. CASE m.from = p /\ m.to = Shop
    BY <1>2, <1>6, <1>7, <1>9, <2>1
  <2>2. CASE ~(m.from = p /\ m.to = Shop)
    <3>1. ToShop(more, p) = Total(Amounts(more), T)
      BY <1>7, <2>2, Zenon
    <3>2. Total(Amounts(more), T) = Total(Amounts(moves), T) /\ Total(Amounts(moves), T) \in Int
      BY <1>2, <1>6
    <3> QED
      BY <1>9, <2>2, <3>1, <3>2
  <2> QED
    BY <2>1, <2>2
<1>11. Got(more, p) = Got(moves, p) + (IF m.to = p THEN m.amount ELSE 0)
  <2>1. CASE m.to = p
    BY <1>2, <1>6, <1>8, <1>9, <2>1
  <2>2. CASE m.to # p
    <3>1. Got(more, p) = Total(Amounts(more), G)
      BY <1>8, <2>2, Zenon
    <3>2. Total(Amounts(more), G) = Total(Amounts(moves), G) /\ Total(Amounts(moves), G) \in Int
      BY <1>2, <1>6
    <3> QED
      BY <1>9, <2>2, <3>1, <3>2
  <2> QED
    BY <2>1, <2>2
<1> QED
  BY <1>10, <1>11 DEF more

\* What a step must show when it leaves the journal alone: nobody comes to post
\* unless there is room.
LEMMA NoMove ==
    ASSUME IInv, Wallets, moves' = moves,
           \A j \in DOMAIN intents : intents'[j].amount = intents[j].amount,
           \A c \in Calls : \/ pc'[c] # "post"
                            \/ pc'[c] = pc[c] /\ req'[c] = req[c]
                            \/ Room(c)'
    PROVE  Wallets'
<1>1. \A c \in Calls : pc[c] = "post" => req[c].intent \in DOMAIN intents
  BY Holder DEF Critical, Confirmable
<1> QED
  BY <1>1 DEF Wallets, Room

\* CheckFunds reads the payer's balance.
LEMMA FundsRoom ==
    ASSUME IInv, NEW c \in Calls, pc[c] = "funds", UNCHANGED <<moves, intents, req>>,
           Balance(req[c].payer) >= intents[req[c].intent].amount
    PROVE  Room(c)'
<1> USE Typed
<1> DEFINE p == req[c].payer
           i == req[c].intent
<1>1. i \in DOMAIN intents /\ intents[i].amount \in Nat /\ p \in Payers
  BY Holder DEF Critical, Confirmable, Intent, RequestType
<1>2. Opening[p] \in Nat
  BY <1>1, PayerAssumption, OpeningAssumption DEF Owners
<1>3. Balance(p) = Opening[p] + Got(moves, p) - Spent(moves, p)
  <2>1. /\ AmountOf({n \in DOMAIN moves : moves[n].to = p}) = Got(moves, p)
        /\ AmountOf({n \in DOMAIN moves : moves[n].from = p}) = Spent(moves, p)
    BY AmountIsTotal DEF Got, Spent
  <2> QED
    BY <2>1 DEF Balance
<1>4. /\ ToShop(moves, p) \in Nat /\ Spent(moves, p) \in Nat /\ Got(moves, p) \in Nat
      /\ ToShop(moves, p) <= Spent(moves, p)
  BY WalletTypes
<1>5. ToShop(moves, p) + intents[i].amount <= Opening[p] + Got(moves, p)
  <2>1. Balance(p) >= intents[i].amount
    OBVIOUS
  <2> HIDE DEF p, i
  <2> QED
    BY <1>1, <1>2, <1>3, <1>4, <2>1
<1> QED
  BY <1>5 DEF Room

LEMMA WalletsKept ==
    ASSUME IInv, Wallets, [Next]_vars
    PROVE  Wallets'
<1> USE Typed
<1>1. ASSUME NEW c \in Calls, NEW r \in Requests, Begin(c, r) PROVE Wallets'
  <2>1. /\ UNCHANGED <<moves, intents>> /\ pc'[c] # "post"
        /\ \A d \in Calls : d # c => pc'[d] = pc[d] /\ req'[d] = req[d]
    BY <1>1 DEF Begin, Answer, Continue, Goto, IInv, TypeOK
  <2> QED
    BY <2>1, NoMove
<1>2. ASSUME NEW c \in Calls, CheckKey(c) \/ Validate(c) \/ Insert(c) \/ Lock(c) \/ Stop(c)
      PROVE  Wallets'
  <2>1. /\ moves' = moves /\ pc'[c] # "post" /\ req' = req
        /\ \A d \in Calls : d # c => pc'[d] = pc[d]
    BY <1>2 DEF CheckKey, Validate, Insert, Lock, ReadIntent, Stop, Answer, Continue, Goto, IInv, TypeOK
  <2>2. \A j \in DOMAIN intents : intents'[j].amount = intents[j].amount
    <3>1. CASE UNCHANGED intents
      BY <3>1
    <3>2. CASE Insert(c)
      <4> DEFINE new == [payer |-> req[c].payer, amount |-> req[c].amount, key |-> req[c].key,
                         late |-> FALSE, status |-> "CREATED"]
      <4>1. intents' = Append(intents, new)
        BY <3>2 DEF Insert
      <4> HIDE DEF new
      <4> QED
        BY <4>1
    <3>3. CASE Confirmable(c) /\ SetStatus(req[c].intent, "EXPIRED")
      BY <3>3, StatusSet DEF Confirmable, Statuses
    <3> QED
      BY <1>2, <3>1, <3>2, <3>3 DEF CheckKey, Validate, Lock, ReadIntent, Stop
  <2> QED
    BY <2>1, <2>2, NoMove
<1>3. ASSUME NEW c \in Calls, pc[c] \in Critical, Fail(c) \/ Finish(c), UNCHANGED <<moves, req>>
      PROVE  Wallets'
  <2>1. pc'[c] # "post" /\ \A d \in Calls : d # c => pc'[d] = pc[d]
    BY <1>3 DEF Fail, Finish, Answer, Goto, IInv, TypeOK
  <2>2. /\ req[c].intent \in DOMAIN intents
        /\ \E s \in {"FAILED", "SUCCEEDED"} : SetStatus(req[c].intent, s)
    BY <1>3, Holder DEF Fail, Finish, Confirmable
  <2>3. \A j \in DOMAIN intents : intents'[j].amount = intents[j].amount
    BY <2>2, StatusSet DEF Statuses
  <2> QED
    BY <1>3, <2>1, <2>3, NoMove
<1>4. ASSUME NEW c \in Calls, CheckBusiness(c) \/ CheckFunds(c) \/ Finish(c) PROVE Wallets'
  <2>1. pc[c] \in Critical /\ UNCHANGED <<moves, req>>
    BY <1>4 DEF CheckBusiness, CheckFunds, Finish, Critical
  <2>2. CASE Fail(c) \/ Finish(c)
    BY <1>3, <2>1, <2>2
  <2>3. CASE CheckBusiness(c) /\ ~Fail(c)
    <3>1. UNCHANGED intents /\ pc'[c] # "post" /\ \A d \in Calls : d # c => pc'[d] = pc[d]
      BY <2>3 DEF CheckBusiness, Continue, Goto, IInv, TypeOK
    <3> QED
      BY <2>1, <3>1, NoMove
  <2>4. CASE CheckFunds(c) /\ ~Fail(c)
    <3>1. /\ pc[c] = "funds" /\ UNCHANGED intents
          /\ Balance(req[c].payer) >= intents[req[c].intent].amount
          /\ \A d \in Calls : d # c => pc'[d] = pc[d]
      BY <2>4 DEF CheckFunds, Continue, Goto, IInv, TypeOK
    <3>2. Room(c)'
      BY <2>1, <3>1, FundsRoom
    <3> QED
      BY <2>1, <3>1, <3>2, NoMove
  <2> QED
    BY <1>4, <2>2, <2>3, <2>4
<1>5. ASSUME NEW c \in Calls, Post(c) PROVE Wallets'
  <2> DEFINE i == req[c].intent
             p == req[c].payer
  <2>1. pc[c] = "post" /\ pc[c] \in Critical /\ Confirmable(c) /\ req' = req
    BY <1>5, Holder DEF Post, Critical
  <2>2. CASE moves' = moves
    <3>1. CASE Fail(c)
      BY <1>3, <2>1, <2>2, <3>1
    <3>2. CASE ~Fail(c)
      <4>1. UNCHANGED intents /\ pc'[c] # "post" /\ \A d \in Calls : d # c => pc'[d] = pc[d]
        BY <1>5, <3>2 DEF Post, Continue, Goto, IInv, TypeOK
      <4> QED
        BY <2>1, <2>2, <4>1, NoMove
    <3> QED
      BY <3>1, <3>2
  <2>3. CASE moves' # moves
    <3> DEFINE e == Move(RefOf(i), intents[i].payer, Shop, intents[i].amount)
    <3>1. ~IsPaid(i)
      <4> DEFINE m == Move(RefOf(i), p, Shop, intents[i].amount)
      <4>1. PostResult(m) = "posted"
        BY <1>5, <2>3 DEF Post, PostMove
      <4>2. m.ref = RefOf(i)
        BY DEF Move
      <4> HIDE DEF m
      <4> QED
        BY <4>1, <4>2 DEF PostResult, IsPaid
    <3>2. /\ moves' = Append(moves, e) /\ e \in MoveType(Refs) /\ Continue(c, "finish")
          /\ UNCHANGED <<intents, req>> /\ paymentMu = c
      BY <1>5, <2>3, <3>1, Captures
    <3>3. e.from = p /\ e.to = Shop /\ e.amount = intents[i].amount
      BY <2>1 DEF Move, Confirmable
    <3> HIDE DEF e
    <3>4. /\ pc'[c] # "post" /\ \A d \in Calls : d # c => pc'[d] = pc[d] /\ pc[d] # "post"
      BY <3>2 DEF Continue, Goto, IInv, TypeOK, Critical
    <3>5. ASSUME NEW q \in Payers PROVE ToShop(moves', q) <= Opening[q] + Got(moves', q)
      <4>1. /\ ToShop(moves', q) = ToShop(moves, q) + (IF q = p THEN intents[i].amount ELSE 0)
            /\ Got(moves', q) = Got(moves, q)
        <5>1. q # Shop
          BY PayerAssumption
        <5>2. Got(moves, q) \in Nat
          BY WalletTypes
        <5>3. /\ ToShop(moves', q) =
                   ToShop(moves, q) + (IF e.from = q /\ e.to = Shop THEN e.amount ELSE 0)
              /\ Got(moves', q) = Got(moves, q) + (IF e.to = q THEN e.amount ELSE 0)
          BY <3>2, WalletMove
        <5> QED
          BY <3>3, <5>1, <5>2, <5>3
      <4>2. q = p => ToShop(moves, q) + intents[i].amount <= Opening[q] + Got(moves, q)
        BY <2>1 DEF Wallets, Room
      <4>3. ToShop(moves, q) <= Opening[q] + Got(moves, q) /\ ToShop(moves, q) \in Nat
        BY WalletTypes DEF Wallets
      <4> HIDE DEF p, i
      <4> QED
        BY <4>1, <4>2, <4>3
    <3> QED
      BY <3>4, <3>5 DEF Wallets, Room
  <2> QED
    BY <2>2, <2>3
<1>6. ASSUME NEW p \in Payers, WalletSpend(p) PROVE Wallets'
  <2> DEFINE m == Move(Unnamed, p, ShopOwner, 1)
  <2>1. moves' = Append(moves, m) /\ moves \in Seq(MoveType(Refs)) /\ UNCHANGED <<intents, pc, req>>
    BY <1>6 DEF WalletSpend, calls, IInv, TypeOK
  <2>2. m \in MoveType(Refs) /\ m.to # Shop /\ m.amount \in Nat
    BY PayerAssumption DEF Move, MoveType, Refs
  <2> HIDE DEF m
  <2>3. ASSUME NEW q
        PROVE  ToShop(moves', q) = ToShop(moves, q) /\ Got(moves', q) >= Got(moves, q)
               /\ ToShop(moves, q) \in Nat /\ Got(moves, q) \in Nat /\ Got(moves', q) \in Nat
    <3>1. ToShop(moves, q) \in Nat /\ Got(moves, q) \in Nat
      BY <2>1, WalletTypes
    <3>2. /\ ToShop(moves', q) =
               ToShop(moves, q) + (IF m.from = q /\ m.to = Shop THEN m.amount ELSE 0)
          /\ Got(moves', q) = Got(moves, q) + (IF m.to = q THEN m.amount ELSE 0)
      BY <2>1, <2>2, WalletMove
    <3> QED
      BY <2>2, <3>1, <3>2
  <2>4. \A q \in Payers : Opening[q] \in Nat
    BY PayerAssumption, OpeningAssumption DEF Owners
  <2>5. ASSUME NEW q \in Payers PROVE ToShop(moves', q) <= Opening[q] + Got(moves', q)
    <3>1. ToShop(moves, q) <= Opening[q] + Got(moves, q)
      BY DEF Wallets
    <3> QED
      BY <2>3, <2>4, <3>1
  <2>6. ASSUME NEW c \in Calls PROVE Room(c)'
    <3>1. CASE pc[c] = "post"
      <4> DEFINE q == req[c].payer
                 a == intents[req[c].intent].amount
      <4>1. q \in Payers /\ a \in Nat
        BY <3>1, Holder DEF Critical, Confirmable, Intent, RequestType
      <4>2. ToShop(moves, q) + a <= Opening[q] + Got(moves, q)
        BY <3>1 DEF Wallets, Room
      <4> HIDE DEF q, a
      <4>3. ToShop(moves', q) + a <= Opening[q] + Got(moves', q)
        BY <2>3, <2>4, <4>1, <4>2
      <4> QED
        BY <2>1, <4>3 DEF Room, q, a
    <3>2. CASE pc[c] # "post"
      BY <2>1, <3>2 DEF Room
    <3> QED
      BY <3>1, <3>2
  <2> QED
    BY <2>5, <2>6 DEF Wallets
<1>7. CASE (\E i \in DOMAIN intents : Expire(i)) \/ UNCHANGED vars
            \/ \E status \in {"ACTIVE", "SUSPENDED", "CLOSED"} : UpdateBusiness(status)
  <2>1. UNCHANGED <<moves, pc, req>>
    BY <1>7 DEF Expire, UpdateBusiness, calls, vars
  <2>2. \A j \in DOMAIN intents : intents'[j].amount = intents[j].amount
    <3>1. intents \in Seq(Intent)
      BY DEF IInv, TypeOK
    <3> QED
      BY <1>7, <3>1, LateSet DEF Expire, UpdateBusiness, vars
  <2> QED
    BY <2>1, <2>2, NoMove
<1> QED
  BY <1>1, <1>2, <1>4, <1>5, <1>6, <1>7 DEF Next, Step, Around

\* Merchant payments alone never overdraw a wallet, whatever else is spent from
\* it: what a payer has paid the shop was there to be paid.
THEOREM Covered == Spec => []PaymentsCovered
<1>1. Init => Wallets
  <2> SUFFICES ASSUME Init PROVE Wallets
    OBVIOUS
  <2>1. ASSUME NEW p \in Payers PROVE ToShop(moves, p) = 0 /\ Got(moves, p) = 0 /\ Opening[p] \in Nat
    <3>1. moves = <<>> /\ DOMAIN moves = {}
      BY DEF Init
    <3> QED
      BY <3>1, TotalEmpty, PayerAssumption, OpeningAssumption DEF ToShop, Got, Owners
  <2> QED
    BY <2>1 DEF Init, Wallets, Room
<1>2. IInv /\ Wallets /\ [Next]_vars => (IInv /\ Wallets)'
  BY NextIInv, WalletsKept
<1>3. IInv /\ Wallets => PaymentsCovered
  <2> SUFFICES ASSUME IInv, Wallets, NEW p \in Payers
               PROVE  AmountOf({n \in DOMAIN moves : moves[n].from = p /\ moves[n].to = Shop})
                        <= Opening[p] + AmountOf({n \in DOMAIN moves : moves[n].to = p})
    BY DEF PaymentsCovered
  <2>1. moves \in Seq(MoveType(Refs))
    BY DEF IInv, TypeOK
  <2>2. /\ AmountOf({n \in DOMAIN moves : moves[n].from = p /\ moves[n].to = Shop}) = ToShop(moves, p)
        /\ AmountOf({n \in DOMAIN moves : moves[n].to = p}) = Got(moves, p)
    BY <2>1, AmountIsTotal DEF ToShop, Got
  <2> QED
    BY <2>2 DEF Wallets
<1> QED
  BY <1>1, <1>2, <1>3, InitIInv, PTL DEF Spec
=============================================================================
