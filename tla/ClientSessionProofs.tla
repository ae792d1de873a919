------------------------- MODULE ClientSessionProofs -------------------------
(***************************************************************************)
(* What holds of the session of the app for any number of requests, logins *)
(* and restarts: the types, and that the app sends a refresh token twice   *)
(* only where resent says so, from which it follows that every other token *)
(* is exchanged once and is not refused unless it was revoked.             *)
(***************************************************************************)
EXTENDS ClientSession, SequenceTheorems, TLAPS

\* No refresh was sent with this token.
Unsent(p) == \A i \in DOMAIN calls : calls[i].token # p

Valid(p) == p \in refresh \cup revoked

\* The calls whose pair the app will store when they succeed.
Live == {i \in {shared, check} \ {0} : i = shared \/ pc[Check] = "refreshing"}

\* Two calls carry one token only if it was resent; a call that succeeded has a
\* pair of its own, and every pair but those of the logins belongs to a call that
\* carried the token it was given for.
OwnTokens ==
    /\ \A i, j \in DOMAIN calls :
          i # j /\ calls[i].token = calls[j].token => calls[i].token \in resent
    /\ \A i, j \in DOMAIN calls :
          i # j /\ calls[i].pair = calls[j].pair => calls[i].pair = NoPair
    /\ \A i \in DOMAIN calls : calls[i].pair # NoPair <=> calls[i].at = "ok"
    /\ \A p \in Pairs : parent[p] # NoPair =>
          \E i \in DOMAIN calls : calls[i].token = parent[p] /\ calls[i].pair = p

\* A token that was sent is in the storage only while the call is waited for, or it
\* was resent.
Recorded == store # NoPair /\ ~Unsent(store) => store \in Underway \cup resent

\* The pair that a call will bring has not been sent, and is not stored yet.
Fresh ==
    /\ shared # 0 => shared # check
    /\ \A i \in Live :
          calls[i].pair # NoPair => Unsent(calls[i].pair) /\ calls[i].pair # store

\* What the app may send, or has sent and the server has not looked up, is good
\* unless it was revoked or resent.
Usable ==
    /\ store # NoPair /\ Unsent(store) => Valid(store)
    /\ \A i \in DOMAIN calls :
          calls[i].at = "find" => Valid(calls[i].token) \/ calls[i].token \in resent
    /\ \A i \in Live : calls[i].at = "ok" => Valid(calls[i].pair)

Tokens == OwnTokens /\ Recorded /\ Fresh /\ Usable /\ RefusedIfRevoked

IInv == TypeOK /\ Tokens
-----------------------------------------------------------------------------
(* Types *)

CallType == [token : Pairs, at : Exchanges \cup Answers, pair : Pairs \cup {NoPair}]

LEMMA PairsAre == ASSUME SessionsTypeOK PROVE Pairs = 1 .. Len(parent) /\ Len(parent) \in Nat
BY LenProperties DEF SessionsTypeOK, Pairs

LEMMA CallIs ==
    ASSUME SessionsTypeOK, NEW i \in DOMAIN calls
    PROVE  calls[i] \in CallType
BY ElementOfSeq, LenProperties DEF SessionsTypeOK, CallType

\* The sequence of calls grows by a call, or one of its calls changes.
LEMMA CallsGrow ==
    ASSUME SessionsTypeOK, NEW e, calls' = Append(calls, e)
    PROVE  /\ DOMAIN calls' = DOMAIN calls \cup {Len(calls) + 1}
           /\ Len(calls) + 1 \notin DOMAIN calls /\ Len(calls) + 1 # 0
           /\ calls'[Len(calls) + 1] = e
           /\ \A i \in DOMAIN calls : calls'[i] = calls[i]
           /\ e \in CallType => calls' \in Seq(CallType)
<1>1. calls \in Seq(CallType \cup {e}) /\ calls \in Seq(CallType)
  BY SeqMonotonic DEF SessionsTypeOK, CallType
<1>2. /\ Len(calls') = Len(calls) + 1 /\ calls' \in Seq(CallType \cup {e})
      /\ \A i \in 1 .. Len(calls) : calls'[i] = calls[i]
      /\ calls'[Len(calls) + 1] = e
  BY <1>1, AppendProperties
<1>3. Len(calls) \in Nat /\ DOMAIN calls = 1 .. Len(calls) /\ DOMAIN calls' = 1 .. Len(calls')
  BY <1>1, <1>2, LenProperties
<1>4. e \in CallType => calls' \in Seq(CallType)
  BY <1>1, AppendProperties
<1> QED
  BY <1>2, <1>3, <1>4

LEMMA CallMoves ==
    ASSUME SessionsTypeOK, NEW i \in DOMAIN calls, NEW e, calls' = [calls EXCEPT ![i] = e]
    PROVE  /\ DOMAIN calls' = DOMAIN calls
           /\ calls'[i] = e
           /\ \A j \in DOMAIN calls \ {i} : calls'[j] = calls[j]
           /\ e \in CallType => calls' \in Seq(CallType)
<1>1. calls \in Seq(CallType)
  BY DEF SessionsTypeOK, CallType
<1>2. e \in CallType => calls' \in Seq(CallType)
  BY <1>1, ExceptSeq
<1> QED
  BY <1>2

LEMMA ParentGrows ==
    ASSUME SessionsTypeOK, NEW n \in Nat, parent' = Append(parent, n)
    PROVE  /\ parent' \in Seq(Nat)
           /\ Pairs' = Pairs \cup {Len(parent) + 1}
           /\ Len(parent) + 1 \notin Pairs /\ Len(parent) + 1 # NoPair
           /\ parent'[Len(parent) + 1] = n
           /\ \A p \in Pairs : parent'[p] = parent[p]
<1>1. parent \in Seq(Nat)
  BY DEF SessionsTypeOK
<1>2. /\ Len(parent') = Len(parent) + 1 /\ parent' \in Seq(Nat)
      /\ \A i \in 1 .. Len(parent) : parent'[i] = parent[i]
      /\ parent'[Len(parent) + 1] = n
  BY <1>1, AppendProperties
<1>3. Len(parent) \in Nat /\ DOMAIN parent = 1 .. Len(parent) /\ DOMAIN parent' = 1 .. Len(parent')
  BY <1>1, <1>2, LenProperties
<1> QED
  BY <1>2, <1>3 DEF Pairs, NoPair

LEMMA CallTypeGrows ==
    ASSUME NEW s, s \in Seq(CallType), Pairs \subseteq Pairs'
    PROVE  s \in Seq(CallType')
<1>1. CallType \subseteq CallType'
  BY DEF CallType
<1> QED
  BY <1>1, SeqMonotonic

LEMMA Moved ==
    ASSUME SessionsTypeOK, NEW i \in DOMAIN calls, NEW label \in Exchanges \cup Answers, MoveTo(i, label)
    PROVE  /\ DOMAIN calls' = DOMAIN calls /\ calls' \in Seq(CallType)
           /\ calls'[i].token = calls[i].token /\ calls'[i].pair = calls[i].pair /\ calls'[i].at = label
           /\ \A j \in DOMAIN calls \ {i} : calls'[j] = calls[j]
<1> DEFINE e == [calls[i] EXCEPT !.at = label]
<1>1. calls[i] \in CallType
  BY CallIs
<1>2. e \in CallType /\ e.token = calls[i].token /\ e.pair = calls[i].pair /\ e.at = label
  BY <1>1 DEF CallType
<1>3. calls' = [calls EXCEPT ![i] = e]
  BY DEF MoveTo
<1> HIDE DEF e
<1> QED
  BY <1>2, <1>3, CallMoves

\* What a query of an exchange does to the calls.
LEMMA ExchangeMoves ==
    ASSUME SessionsTypeOK, OwnTokens, NEW i \in DOMAIN calls, ExchangeStep(i)
    PROVE  /\ DOMAIN calls' = DOMAIN calls
           /\ \A j \in DOMAIN calls : calls'[j].token = calls[j].token
           /\ \A j \in DOMAIN calls \ {i} : calls'[j] = calls[j]
           /\ SessionsTypeOK' /\ Pairs \subseteq Pairs'
<1>0. /\ calls[i] \in CallType /\ parent \in Seq(Nat)
      /\ refresh \subseteq Pairs /\ revoked \subseteq Pairs
      /\ \A j \in DOMAIN calls : calls[j].at = "ok" => calls[j].pair \in Pairs
  BY CallIs DEF SessionsTypeOK
<1> DEFINE Kept == /\ DOMAIN calls' = DOMAIN calls
                   /\ \A j \in DOMAIN calls : calls'[j].token = calls[j].token
                   /\ \A j \in DOMAIN calls \ {i} : calls'[j] = calls[j]
<1>1. ASSUME NEW label \in Exchanges \cup Answers, MoveTo(i, label), UNCHANGED parent,
             refresh' \subseteq refresh, UNCHANGED revoked, label # "ok"
      PROVE  Kept /\ SessionsTypeOK' /\ Pairs \subseteq Pairs'
  <2>1. /\ DOMAIN calls' = DOMAIN calls /\ calls' \in Seq(CallType)
        /\ calls'[i].token = calls[i].token /\ calls'[i].pair = calls[i].pair /\ calls'[i].at = label
        /\ \A j \in DOMAIN calls \ {i} : calls'[j] = calls[j]
    BY <1>1, Moved
  <2>2. Kept
    BY <2>1
  <2>3. Pairs' = Pairs
    BY <1>1 DEF Pairs
  <2>4. calls' \in Seq(CallType')
    BY <2>1, <2>3, CallTypeGrows
  <2>5. \A j \in DOMAIN calls' : calls'[j].at = "ok" => calls'[j].pair \in Pairs'
    BY <1>0, <1>1, <2>1, <2>3
  <2>6. SessionsTypeOK'
    BY <1>0, <1>1, <2>3, <2>4, <2>5 DEF SessionsTypeOK, CallType
  <2> QED
    BY <2>2, <2>3, <2>6
<1>2. CASE Find(i)
  <2>1. PICK label \in {"delete", "refused"} : MoveTo(i, label)
    BY <1>2 DEF Find
  <2> QED
    BY <1>1, <1>2, <2>1 DEF Find, Exchanges, Answers
<1>3. CASE Delete(i)
  <2>1. MoveTo(i, "store") /\ refresh' \subseteq refresh
    BY <1>3 DEF Delete
  <2> QED
    BY <1>1, <1>3, <2>1 DEF Delete, Exchanges, Answers
<1>4. CASE Store(i)
  <2> DEFINE n == Len(parent) + 1
             e == [[calls[i] EXCEPT !.at = "ok"] EXCEPT !.pair = n]
  <2>1. calls[i].token \in Nat /\ calls[i].token \in Pairs
    BY <1>0, PairsAre DEF CallType
  <2>2. /\ parent' \in Seq(Nat) /\ Pairs' = Pairs \cup {n} /\ n \notin Pairs
    BY <1>4, <2>1, ParentGrows DEF Store
  <2>3. calls' = [calls EXCEPT ![i] = e]
    BY <1>4 DEF Store
  <2>4. e \in CallType' /\ e.token = calls[i].token /\ e.pair = n /\ e.at = "ok"
    BY <1>0, <2>2 DEF CallType, Exchanges, Answers
  <2> HIDE DEF e
  <2>5. Kept /\ calls'[i] = e
    BY <2>3, <2>4, CallMoves
  <2>6. calls' \in Seq(CallType')
    <3>1. calls \in Seq(CallType')
      BY <2>2, CallTypeGrows DEF SessionsTypeOK, CallType
    <3>2. i \in 1 .. Len(calls)
      BY LenProperties DEF SessionsTypeOK
    <3> QED
      BY <2>3, <2>4, <3>1, <3>2, ExceptSeq
  <2>7. \A j \in DOMAIN calls' : calls'[j].at = "ok" => calls'[j].pair \in Pairs'
    BY <1>0, <2>2, <2>4, <2>5
  <2>8. SessionsTypeOK'
    BY <1>0, <1>4, <2>2, <2>6, <2>7 DEF SessionsTypeOK, CallType, Store
  <2> QED
    BY <2>2, <2>5, <2>8
<1>5. CASE Fail(i)
  BY <1>1, <1>5 DEF Fail, Answers
<1> QED
  BY <1>2, <1>3, <1>4, <1>5 DEF ExchangeStep

\* The variables of the app.
ClientTyped ==
    /\ store \in Pairs \cup {NoPair}
    /\ shared \in DOMAIN calls \cup {0}
    /\ check \in DOMAIN calls \cup {0}
    /\ pc \in [Tasks -> Places]
    /\ leaving \in BOOLEAN
    /\ resent \subseteq Pairs
    /\ starts \in Nat
    /\ shared # 0 <=> Waiting # {}
    /\ pc[Check] = "refreshing" => check # 0

LEMMA TypeParts == TypeOK <=> SessionsTypeOK /\ ClientTyped
BY DEF TypeOK, ClientTyped

LEMMA NoCallIsZero == ASSUME SessionsTypeOK PROVE 0 \notin DOMAIN calls
BY LenProperties DEF SessionsTypeOK

LEMMA SessionsKept ==
    ASSUME SessionsTypeOK, UNCHANGED session_vars
    PROVE  SessionsTypeOK' /\ Pairs' = Pairs
BY DEF SessionsTypeOK, Pairs, session_vars

LEMMA ClientKept ==
    ASSUME ClientTyped, UNCHANGED <<client_vars, starts>>,
           DOMAIN calls' = DOMAIN calls, Pairs \subseteq Pairs'
    PROVE  ClientTyped'
BY DEF ClientTyped, client_vars, Waiting

\* A refresh begins with the token in the storage.
LEMMA CallAdded ==
    ASSUME SessionsTypeOK, store \in Pairs, calls' = Append(calls, NewCall(store)),
           UNCHANGED <<parent, refresh, revoked>>
    PROVE  /\ SessionsTypeOK' /\ Pairs' = Pairs
           /\ DOMAIN calls' = DOMAIN calls \cup {Len(calls) + 1}
           /\ Len(calls) + 1 \notin DOMAIN calls /\ Len(calls) + 1 # 0
           /\ calls'[Len(calls) + 1] = NewCall(store)
           /\ \A i \in DOMAIN calls : calls'[i] = calls[i]
<1>1. NewCall(store) \in CallType /\ NewCall(store).at # "ok"
  BY DEF NewCall, CallType, Exchanges, NoPair
<1>2. /\ DOMAIN calls' = DOMAIN calls \cup {Len(calls) + 1}
      /\ Len(calls) + 1 \notin DOMAIN calls /\ Len(calls) + 1 # 0
      /\ calls'[Len(calls) + 1] = NewCall(store)
      /\ \A i \in DOMAIN calls : calls'[i] = calls[i]
      /\ calls' \in Seq(CallType)
  BY <1>1, CallsGrow
<1>3. Pairs' = Pairs
  BY DEF Pairs
<1>4. SessionsTypeOK'
  BY <1>1, <1>2, <1>3 DEF SessionsTypeOK, CallType
<1> QED
  BY <1>2, <1>3, <1>4

LEMMA CheckIsNoRequest == Check \in Tasks /\ Check \notin Reqs /\ Reqs \subseteq Tasks
BY ReqsAssumption DEF Tasks

\* Tasks move, none of them to a refresh.
LEMMA TasksMove ==
    ASSUME ClientTyped, NEW T, NEW label \in Places \ {"refreshing"}, Move(T, label)
    PROVE  /\ pc' \in [Tasks -> Places]
           /\ \A t \in Tasks : pc'[t] = IF t \in T THEN label ELSE pc[t]
           /\ pc'[Check] = "refreshing" => pc[Check] = "refreshing" /\ Check \notin T
BY CheckIsNoRequest DEF ClientTyped, Move

\* A request moves, neither from nor to the shared refresh.
LEMMA RequestMoves ==
    ASSUME SessionsTypeOK, ClientTyped, NEW q \in Reqs, pc[q] # "waiting",
           NEW label \in Places \ {"refreshing", "waiting"}, Move({q}, label),
           UNCHANGED <<session_vars, store, shared, check, resent, starts>>, leaving' \in BOOLEAN
    PROVE  SessionsTypeOK' /\ ClientTyped'
<1>1. SessionsTypeOK' /\ Pairs' = Pairs
  BY SessionsKept
<1>2. /\ pc' \in [Tasks -> Places]
      /\ \A t \in Tasks : pc'[t] = IF t = q THEN label ELSE pc[t]
      /\ pc'[Check] = "refreshing" => pc[Check] = "refreshing"
  BY TasksMove
<1>3. Waiting' = Waiting
  BY <1>2, CheckIsNoRequest DEF Waiting
<1>4. UNCHANGED <<store, shared, check, resent, starts, calls>>
  BY DEF session_vars
<1> QED
  BY <1>1, <1>2, <1>3, <1>4 DEF ClientTyped

LEMMA TypeStep == IInv /\ [Next]_vars => TypeOK'
<1> SUFFICES ASSUME IInv, [Next]_vars PROVE SessionsTypeOK' /\ ClientTyped'
  BY TypeParts DEF TypeOK, ClientTyped
<1>0. SessionsTypeOK /\ ClientTyped /\ OwnTokens /\ 0 \notin DOMAIN calls
  BY TypeParts, NoCallIsZero DEF IInv, Tokens
<1> USE DEF Places
<1>1. ASSUME NEW q \in Reqs, Send(q) \/ Lose(q), UNCHANGED starts
      PROVE  SessionsTypeOK' /\ ClientTyped'
  <2>1. CASE Send(q)
    BY <1>0, <1>1, <2>1, RequestMoves DEF Send, ClientTyped
  <2>2. CASE Lose(q)
    BY <1>0, <1>1, <2>2, RequestMoves DEF Lose, End, ClientTyped
  <2> QED
    BY <1>1, <2>1, <2>2
<1>2. ASSUME NEW q \in Reqs, Serve(q) \/ Deny(q), UNCHANGED starts
      PROVE  SessionsTypeOK' /\ ClientTyped'
  <2>1. CASE Serve(q)
    BY <1>0, <1>2, <2>1, RequestMoves DEF Serve, End, ClientTyped
  <2>2. CASE Deny(q)
    BY <1>0, <1>2, <2>2, RequestMoves DEF Deny, End, ClientTyped
  <2> QED
    BY <1>2, <2>1, <2>2
<1>3. ASSUME NEW q \in Reqs, Expired(q), UNCHANGED starts
      PROVE  SessionsTypeOK' /\ ClientTyped'
  BY <1>0, <1>3, RequestMoves DEF Expired, EndExpired
<1>4. ASSUME NEW q \in Reqs, Refresh(q), UNCHANGED starts
      PROVE  SessionsTypeOK' /\ ClientTyped'
  <2>1. /\ pc' \in [Tasks -> Places] /\ q \in Waiting'
        /\ pc'[Check] = "refreshing" => pc[Check] = "refreshing"
    BY <1>0, <1>4, TasksMove, CheckIsNoRequest DEF Refresh, Waiting
  <2>2. /\ SessionsTypeOK' /\ Pairs' = Pairs /\ DOMAIN calls \subseteq DOMAIN calls'
        /\ shared' \in DOMAIN calls' /\ shared' # 0 /\ resent' \subseteq Pairs
    <3>1. CASE shared # 0
      BY <1>0, <1>4, <3>1, SessionsKept DEF Refresh, ClientTyped, session_vars
    <3>2. CASE shared = 0
      <4>1. store \in Pairs /\ calls' = Append(calls, NewCall(store)) /\ shared' = Len(calls) + 1
        BY <1>0, <1>4, <3>2 DEF Refresh, ClientTyped
      <4>2. resent' \subseteq Pairs
        BY <1>0, <1>4, <3>2, <4>1 DEF Refresh, ClientTyped
      <4> QED
        BY <1>0, <1>4, <4>1, <4>2, CallAdded DEF Refresh
    <3> QED
      BY <3>1, <3>2
  <2> QED
    BY <1>0, <1>4, <2>1, <2>2 DEF Refresh, ClientTyped
<1>5. CASE (RefreshSucceeds \/ RefreshFails) /\ UNCHANGED starts
  <2>1. SessionsTypeOK' /\ Pairs' = Pairs /\ UNCHANGED <<calls, check, resent>> /\ shared' = 0
    BY <1>0, <1>5, SessionsKept DEF RefreshSucceeds, RefreshFails, session_vars
  <2>2. PICK label \in {"again", "done"} : Move(Waiting, label)
    BY <1>5 DEF RefreshSucceeds, RefreshFails, GoOn, EndExpired
  <2>3. /\ pc' \in [Tasks -> Places] /\ Waiting' = {}
        /\ pc'[Check] = "refreshing" => pc[Check] = "refreshing"
    BY <1>0, <2>2, TasksMove, CheckIsNoRequest DEF Waiting
  <2>4. store' \in Pairs' \cup {NoPair}
    BY <1>0, <1>5, <2>1 DEF RefreshSucceeds, RefreshFails, At, SessionsTypeOK
  <2>5. leaving' \in BOOLEAN
    BY <1>0, <1>5 DEF RefreshSucceeds, RefreshFails, GoOn, EndExpired, ClientTyped
  <2> QED
    BY <1>0, <1>5, <2>1, <2>3, <2>4, <2>5 DEF ClientTyped
<1>6. CASE CheckStep
  <2>1. SessionsTypeOK' /\ Pairs' = Pairs /\ UNCHANGED <<calls, shared, resent, starts>>
    BY <1>0, <1>6, SessionsKept DEF CheckStep, CheckSucceeds, CheckRefused, CheckFails, session_vars
  <2>2. Move({Check}, "done") /\ check' \in {0, check}
    BY <1>6 DEF CheckStep, CheckSucceeds, CheckRefused, CheckFails, EndExpired
  <2>3. pc' \in [Tasks -> Places] /\ Waiting' = Waiting /\ pc'[Check] # "refreshing"
    BY <1>0, <2>2, TasksMove, CheckIsNoRequest DEF Waiting
  <2>4. store' \in Pairs' \cup {NoPair}
    BY <1>0, <1>6, <2>1
    DEF CheckStep, CheckSucceeds, CheckRefused, CheckFails, At, SessionsTypeOK, ClientTyped
  <2>5. leaving' \in BOOLEAN
    BY <1>0, <1>6 DEF CheckStep, CheckSucceeds, CheckRefused, CheckFails, EndExpired, ClientTyped
  <2> QED
    BY <1>0, <2>1, <2>2, <2>3, <2>4, <2>5 DEF ClientTyped
<1>7. CASE LogoutStep
  <2>1. SessionsTypeOK' /\ Pairs' = Pairs
    BY <1>0, <1>7, SessionsKept DEF LogoutStep, Logout, LogoutEnds
  <2> QED
    BY <1>0, <1>7, <2>1 DEF LogoutStep, Logout, LogoutEnds, ClientTyped, Waiting, session_vars
<1>8. CASE Login
  <2>1. /\ parent' \in Seq(Nat)
        /\ Pairs' = Pairs \cup {Len(parent) + 1}
        /\ Len(parent) + 1 # NoPair
    BY <1>0, <1>8, ParentGrows DEF Login, NewPair, NoPair
  <2>2. calls' \in Seq(CallType')
    BY <1>0, <1>8, <2>1, CallTypeGrows DEF Login, SessionsTypeOK, CallType
  <2>3. SessionsTypeOK'
    BY <1>0, <1>8, <2>1, <2>2 DEF Login, NewPair, SessionsTypeOK, CallType
  <2>4. starts' \in Nat
    BY <1>0, <1>8 DEF Login, StartsAgain, ClientTyped
  <2> QED
    BY <1>0, <1>8, <2>1, <2>3, <2>4 DEF Login, ClientTyped, Waiting
<1>9. CASE Restart
  <2>1. pc' \in [Tasks -> Places] /\ (pc'[Check] = "refreshing" => store # NoPair)
    BY <1>0, <1>9, CheckIsNoRequest DEF Restart, ClientTyped
  <2>2. Waiting' = {} /\ shared' = 0
    BY <1>9, CheckIsNoRequest DEF Restart, Waiting
  <2>3. /\ SessionsTypeOK' /\ Pairs' = Pairs
        /\ check' \in DOMAIN calls' \cup {0} /\ (store # NoPair => check' # 0)
    <3>1. CASE store = NoPair
      BY <1>0, <1>9, <3>1, SessionsKept DEF Restart, Starts, session_vars
    <3>2. CASE store # NoPair
      BY <1>0, <1>9, <3>2, CallAdded DEF Restart, Starts, ClientTyped
    <3> QED
      BY <3>1, <3>2
  <2>4. resent' \subseteq Pairs
    <3>1. Underway \subseteq Pairs
      <4> SUFFICES ASSUME NEW i \in {shared, check} \ {0} PROVE calls[i].token \in Pairs
        BY DEF Underway
      <4>1. calls[i] \in CallType
        BY <1>0, CallIs DEF ClientTyped
      <4> QED
        BY <4>1 DEF CallType
    <3> QED
      BY <1>0, <1>9, <3>1 DEF Restart, ClientTyped
  <2>5. starts' \in Nat
    BY <1>0, <1>9 DEF Restart, StartsAgain, ClientTyped
  <2> QED
    BY <1>0, <1>9, <2>1, <2>2, <2>3, <2>4, <2>5 DEF Restart, ClientTyped
<1>10. ASSUME NEW i \in DOMAIN calls, ExchangeStep(i), UNCHANGED <<client_vars, starts>>
       PROVE  SessionsTypeOK' /\ ClientTyped'
  BY <1>0, <1>10, ExchangeMoves, ClientKept
<1>11. CASE RevokeAll /\ UNCHANGED <<client_vars, starts>>
  <2>1. Pairs' = Pairs /\ SessionsTypeOK'
    BY <1>0, <1>11 DEF RevokeAll, SessionsTypeOK, Pairs
  <2> QED
    BY <1>0, <1>11, <2>1, ClientKept DEF RevokeAll
<1>12. CASE UNCHANGED vars
  BY <1>0, <1>12, SessionsKept, ClientKept DEF vars, session_vars
<1> QED
  BY <1>1, <1>2, <1>3, <1>4, <1>5, <1>6, <1>7, <1>8, <1>9, <1>10, <1>11, <1>12
  DEF Next, RequestStep, RefreshEnds
-----------------------------------------------------------------------------
(* Tokens *)

LEMMA LiveCalls ==
    ASSUME ClientTyped
    PROVE  Live \subseteq DOMAIN calls /\ {shared, check} \ {0} \subseteq DOMAIN calls
BY DEF ClientTyped, Live

LEMMA PartsOf ==
    ASSUME IInv
    PROVE  /\ SessionsTypeOK /\ ClientTyped
           /\ OwnTokens /\ Recorded /\ Fresh /\ Usable /\ RefusedIfRevoked
BY TypeParts DEF IInv, Tokens

\* The server's tables and the calls are as before; the app keeps its pair, and what
\* is under way, or wipes it.
LEMMA TokensKept ==
    ASSUME IInv, UNCHANGED <<session_vars, resent>>, Live' \subseteq Live,
           shared' # 0 => shared' # check',
           \/ UNCHANGED <<store, shared, check>>
           \/ store' = NoPair
    PROVE  Tokens'
<1>0. UNCHANGED <<refresh, parent, calls, revoked>> /\ Pairs' = Pairs
  BY DEF session_vars, Pairs
<1>1. OwnTokens' /\ RefusedIfRevoked'
  BY <1>0, PartsOf DEF OwnTokens, RefusedIfRevoked
<1>2. Recorded'
  BY <1>0, PartsOf DEF Recorded, Unsent, Underway
<1>3. Fresh'
  BY <1>0, PartsOf DEF Fresh, Unsent, NoPair
<1>4. Usable'
  BY <1>0, PartsOf DEF Usable, Unsent, Valid
<1> QED
  BY <1>1, <1>2, <1>3, <1>4 DEF Tokens

\* A call that succeeded brings its pair.
LEMMA TokensStored ==
    ASSUME IInv, UNCHANGED <<session_vars, resent>>,
           NEW i \in Live, calls[i].at = "ok", store' = calls[i].pair,
           Live' \subseteq Live \ {i}, shared' # 0 => shared' # check'
    PROVE  Tokens'
<1>0. UNCHANGED <<refresh, parent, calls, revoked>> /\ Pairs' = Pairs
  BY DEF session_vars, Pairs
<1>1. OwnTokens' /\ RefusedIfRevoked'
  BY <1>0, PartsOf DEF OwnTokens, RefusedIfRevoked
<1>2. i \in DOMAIN calls /\ Live' \subseteq DOMAIN calls
  BY PartsOf, LiveCalls
<1>3. /\ store' # NoPair
      /\ \A j \in DOMAIN calls : calls[j].token # store'
      /\ store' \in refresh \cup revoked
  BY <1>2, <1>0, PartsOf DEF OwnTokens, Fresh, Usable, Unsent, Valid
<1>4. Recorded'
  BY <1>0, <1>3 DEF Recorded, Unsent
<1>5. Fresh'
  <2>1. \A j \in Live' : calls[j].pair # NoPair => calls[j].pair # calls[i].pair
    BY <1>2, PartsOf DEF OwnTokens
  <2> QED
    BY <1>0, <2>1, PartsOf DEF Fresh, Unsent
<1>6. Usable'
  BY <1>0, <1>3, PartsOf DEF Usable, Unsent, Valid
<1> QED
  BY <1>1, <1>4, <1>5, <1>6 DEF Tokens

\* A refresh begins with the pair in the storage; resent records it when another with
\* this pair is under way.
LEMMA TokensSent ==
    ASSUME IInv, store # NoPair, calls' = Append(calls, NewCall(store)),
           UNCHANGED <<parent, refresh, revoked, store>>,
           resent' = resent \cup ({store} \cap Underway),
           Len(calls) + 1 \in {shared', check'}, shared' # 0 => shared' # check',
           Live' \subseteq Live \cup {Len(calls) + 1}
    PROVE  Tokens'
<1> DEFINE n == Len(calls) + 1
<1>0. SessionsTypeOK /\ ClientTyped /\ store \in Pairs
  BY PartsOf DEF ClientTyped
<1>1. /\ DOMAIN calls' = DOMAIN calls \cup {n} /\ n \notin DOMAIN calls /\ n # 0
      /\ calls'[n] = NewCall(store) /\ Pairs' = Pairs
      /\ \A i \in DOMAIN calls : calls'[i] = calls[i]
  BY <1>0, CallAdded
<1>2. calls'[n].token = store /\ calls'[n].at = "find" /\ calls'[n].pair = NoPair
  BY <1>1 DEF NewCall
<1>3. Live \subseteq DOMAIN calls /\ n \notin Live
  BY <1>0, <1>1, LiveCalls
<1> HIDE DEF n
<1>4. ~Unsent(store) => store \in resent'
  BY PartsOf DEF Recorded
<1>5. OwnTokens'
  <2>1. \A i, j \in DOMAIN calls' :
          i # j /\ calls'[i].token = calls'[j].token => calls'[i].token \in resent'
    BY <1>1, <1>2, <1>4, PartsOf DEF OwnTokens, Unsent
  <2>2. \A i, j \in DOMAIN calls' :
          i # j /\ calls'[i].pair = calls'[j].pair => calls'[i].pair = NoPair
    BY <1>1, <1>2, PartsOf DEF OwnTokens
  <2>3. \A i \in DOMAIN calls' : calls'[i].pair # NoPair <=> calls'[i].at = "ok"
    BY <1>1, <1>2, PartsOf DEF OwnTokens
  <2>4. \A p \in Pairs' : parent'[p] # NoPair =>
          \E i \in DOMAIN calls' : calls'[i].token = parent'[p] /\ calls'[i].pair = p
    BY <1>1, PartsOf DEF OwnTokens
  <2> QED
    BY <2>1, <2>2, <2>3, <2>4 DEF OwnTokens
<1>6. Recorded'
  <2>1. n \in ({shared, check} \ {0})'
    BY <1>1 DEF n
  <2>2. store \in Underway'
    BY <1>2, <2>1 DEF Underway
  <2> QED
    BY <2>2 DEF Recorded
<1>7. Fresh'
  <2> SUFFICES ASSUME NEW i \in Live', calls'[i].pair # NoPair
               PROVE  /\ \A j \in DOMAIN calls' : calls'[j].token # calls'[i].pair
                      /\ calls'[i].pair # store'
    BY DEF Fresh, Unsent
  <2>1. i \in Live /\ calls'[i] = calls[i]
    BY <1>1, <1>2, <1>3 DEF n
  <2>2. Unsent(calls[i].pair) /\ calls[i].pair # store
    BY <2>1, PartsOf DEF Fresh
  <2> QED
    BY <1>1, <1>2, <2>1, <2>2 DEF Unsent
<1>8. Usable'
  <2>1. \E i \in DOMAIN calls' : calls'[i].token = store'
    BY <1>1, <1>2
  <2>2. \A i \in DOMAIN calls' :
          calls'[i].at = "find" => calls'[i].token \in refresh' \cup revoked' \cup resent'
    BY <1>1, <1>2, <1>4, PartsOf DEF Usable, Valid
  <2>3. \A i \in Live' : calls'[i].at = "ok" => calls'[i].pair \in refresh' \cup revoked'
    BY <1>1, <1>2, <1>3, PartsOf DEF Usable, Valid, n
  <2> QED
    BY <2>1, <2>2, <2>3 DEF Usable, Unsent, Valid
<1>9. RefusedIfRevoked'
  BY <1>1, <1>2, PartsOf DEF RefusedIfRevoked
<1> QED
  BY <1>5, <1>6, <1>7, <1>8, <1>9 DEF Tokens

LEMMA RefreshTokens ==
    ASSUME IInv, NEW q \in Reqs, Refresh(q)
    PROVE  Tokens'
<1>0. pc'[Check] = pc[Check]
  BY PartsOf, CheckIsNoRequest DEF Refresh, Move, ClientTyped
<1>1. CASE shared # 0
  <2>1. Live' = Live
    BY <1>0, <1>1 DEF Refresh, Live
  <2> QED
    BY <1>1, <2>1, TokensKept, PartsOf DEF Refresh, session_vars, Fresh
<1>2. CASE shared = 0
  <2>1. Live' \subseteq Live \cup {Len(calls) + 1}
    BY <1>0, <1>2 DEF Refresh, Live
  <2>2. Len(calls) + 1 # check
    BY PartsOf, CallAdded, LenProperties DEF ClientTyped, SessionsTypeOK
  <2> QED
    BY <1>2, <2>1, <2>2, TokensSent DEF Refresh
<1> QED
  BY <1>1, <1>2

LEMMA RestartTokens ==
    ASSUME IInv, Restart
    PROVE  Tokens'
<1>1. CASE store = NoPair
  <2>1. 0 \notin Underway
    <3> SUFFICES ASSUME NEW i \in {shared, check} \ {0} PROVE calls[i].token # 0
      BY DEF Underway
    <3>1. calls[i].token \in Pairs
      BY PartsOf, LiveCalls, CallIs DEF CallType
    <3> QED
      BY <3>1, PartsOf, PairsAre
  <2>2. resent' = resent /\ Live' = {} /\ UNCHANGED session_vars
    BY <1>1, <2>1 DEF Restart, Starts, Live, session_vars, NoPair
  <2> QED
    BY <1>1, <2>2, TokensKept DEF Restart
<1>2. CASE store # NoPair
  <2>1. Live' \subseteq {Len(calls) + 1}
    BY <1>2 DEF Restart, Starts, Live
  <2> QED
    BY <1>2, <2>1, TokensSent DEF Restart, Starts
<1> QED
  BY <1>1, <1>2

LEMMA LoginTokens ==
    ASSUME IInv, Login
    PROVE  Tokens'
<1> DEFINE n == Len(parent) + 1
<1>0. SessionsTypeOK /\ \A i \in DOMAIN calls : calls[i] \in CallType
  BY PartsOf, CallIs
<1>1. /\ Pairs' = Pairs \cup {n} /\ n \notin Pairs /\ n # NoPair
      /\ parent'[n] = NoPair
      /\ \A p \in Pairs : parent'[p] = parent[p]
  BY <1>0, ParentGrows DEF Login, NewPair, NoPair
<1>2. /\ store' = n /\ refresh' = refresh \cup {n}
      /\ UNCHANGED <<calls, revoked, shared, check, pc, resent>>
  BY DEF Login, NewPair
<1>3. \A i \in DOMAIN calls : calls[i].token # n /\ calls[i].pair # n
  BY <1>0, <1>1 DEF CallType
<1>4. Live' = Live /\ Live \subseteq DOMAIN calls
  BY <1>2, PartsOf, LiveCalls DEF Live
<1> HIDE DEF n
<1>5. OwnTokens'
  BY <1>1, <1>2, PartsOf DEF OwnTokens
<1>6. Recorded'
  BY <1>2, <1>3 DEF Recorded, Unsent
<1>7. Fresh'
  BY <1>2, <1>3, <1>4, PartsOf DEF Fresh, Unsent
<1>8. Usable'
  BY <1>2, <1>4, PartsOf DEF Usable, Unsent, Valid
<1>9. RefusedIfRevoked'
  BY <1>2, PartsOf DEF RefusedIfRevoked
<1> QED
  BY <1>5, <1>6, <1>7, <1>8, <1>9 DEF Tokens

LEMMA ExchangeTokens ==
    ASSUME IInv, NEW i \in DOMAIN calls, ExchangeStep(i), UNCHANGED client_vars
    PROVE  Tokens'
<1>0. /\ SessionsTypeOK /\ calls[i] \in CallType
      /\ OwnTokens /\ Recorded /\ Fresh /\ Usable /\ RefusedIfRevoked
      /\ UNCHANGED <<store, shared, check, pc, resent>>
      /\ Live' = Live /\ Live \subseteq DOMAIN calls /\ {shared, check} \ {0} \subseteq DOMAIN calls
  BY PartsOf, CallIs, LiveCalls DEF client_vars, Live
<1>1. /\ DOMAIN calls' = DOMAIN calls
      /\ \A j \in DOMAIN calls : calls'[j].token = calls[j].token
      /\ \A j \in DOMAIN calls \ {i} : calls'[j] = calls[j]
      /\ \A p : Unsent(p)' <=> Unsent(p)
  BY <1>0, ExchangeMoves DEF Unsent
<1>2. Recorded'
  <2>1. Underway' = Underway
    BY <1>0, <1>1 DEF Underway
  <2> QED
    BY <1>0, <1>1, <2>1 DEF Recorded
\* A step that makes no pair.
<1>3. ASSUME NEW label \in Exchanges \cup Answers, MoveTo(i, label), UNCHANGED <<parent, revoked>>,
             calls[i].at # "ok", label # "ok"
      PROVE  /\ OwnTokens' /\ Fresh' /\ calls'[i].at = label
             /\ \A j \in DOMAIN calls : calls'[j].pair = calls[j].pair
  <2>1. calls'[i].pair = calls[i].pair /\ calls'[i].at = label
    BY <1>0, <1>3, Moved
  <2>2. \A j \in DOMAIN calls : calls'[j].pair = calls[j].pair
    BY <1>1, <2>1
  <2>3. OwnTokens'
    BY <1>0, <1>1, <1>3, <2>1, <2>2 DEF OwnTokens, Pairs
  <2>4. Fresh'
    BY <1>0, <1>1, <2>2 DEF Fresh
  <2> QED
    BY <2>1, <2>2, <2>3, <2>4
<1>4. CASE Find(i)
  <2>1. PICK label \in {"delete", "refused"} :
           /\ MoveTo(i, label) /\ UNCHANGED <<refresh, parent, revoked>>
           /\ calls[i].at = "find" /\ (label = "refused" <=> calls[i].token \notin refresh)
    BY <1>4 DEF Find, At
  <2>2. /\ OwnTokens' /\ Fresh' /\ calls'[i].at = label
        /\ \A j \in DOMAIN calls : calls'[j].pair = calls[j].pair
    BY <1>3, <2>1 DEF Exchanges, Answers
  <2>3. label = "refused" => calls[i].token \in revoked \cup resent
    BY <1>0, <2>1 DEF Usable, Valid
  <2>4. Usable' /\ RefusedIfRevoked'
    BY <1>0, <1>1, <2>1, <2>2, <2>3 DEF Usable, Valid, RefusedIfRevoked
  <2> QED
    BY <1>2, <2>2, <2>4 DEF Tokens
<1>5. CASE Delete(i)
  <2>1. /\ MoveTo(i, "store") /\ UNCHANGED <<parent, revoked>>
        /\ calls[i].at = "delete"
        /\ \A p : p # calls[i].token /\ Valid(p) => Valid(p)'
    BY <1>5 DEF Delete, At, Valid
  <2>2. /\ OwnTokens' /\ Fresh' /\ calls'[i].at = "store"
        /\ \A j \in DOMAIN calls : calls'[j].pair = calls[j].pair
    BY <1>3, <2>1 DEF Exchanges, Answers
  <2> DEFINE good == refresh' \cup revoked'
  <2>3. store # NoPair /\ Unsent(store) => store \in good
    BY <1>0, <2>1 DEF Usable, Unsent, Valid
  <2>4. \A j \in DOMAIN calls :
          calls'[j].at = "find" => calls[j].token \in good \/ calls[j].token \in resent
    BY <1>0, <1>1, <2>1, <2>2 DEF Usable, OwnTokens, Valid
  <2>5. \A j \in Live : calls'[j].at = "ok" => calls'[j].pair \in good
    <3> SUFFICES ASSUME NEW j \in Live, calls'[j].at = "ok" PROVE calls'[j].pair \in good
      OBVIOUS
    <3>1. j \in DOMAIN calls /\ calls'[j] = calls[j] /\ calls[j].at = "ok"
      BY <1>0, <1>1, <2>2
    <3>2. Valid(calls[j].pair) /\ calls[j].pair # NoPair
      BY <1>0, <3>1 DEF Usable, OwnTokens
    <3>3. calls[j].pair # calls[i].token
      BY <1>0, <3>2 DEF Fresh, Unsent
    <3> QED
      BY <2>1, <3>1, <3>2, <3>3 DEF Valid
  <2>6. Usable'
    BY <1>0, <1>1, <2>3, <2>4, <2>5 DEF Usable, Valid
  <2>7. RefusedIfRevoked'
    BY <1>0, <1>1, <2>1, <2>2 DEF RefusedIfRevoked
  <2> QED
    BY <1>2, <2>2, <2>6, <2>7 DEF Tokens
<1>6. CASE Store(i)
  <2> DEFINE n == Len(parent) + 1
             e == [[calls[i] EXCEPT !.at = "ok"] EXCEPT !.pair = n]
  <2>1. calls[i].token \in Nat /\ calls[i].token \in Pairs
    BY <1>0, PairsAre DEF CallType
  <2>2. /\ Pairs' = Pairs \cup {n} /\ n \notin Pairs /\ n # NoPair
        /\ parent'[n] = calls[i].token
        /\ \A p \in Pairs : parent'[p] = parent[p]
    BY <1>0, <1>6, <2>1, ParentGrows DEF Store
  <2>3. /\ calls' = [calls EXCEPT ![i] = e] /\ refresh' = refresh \cup {n} /\ UNCHANGED revoked
        /\ calls[i].at = "store"
    BY <1>6 DEF Store, At
  <2>4. e.pair = n /\ e.at = "ok"
    BY <1>0 DEF CallType
  <2> HIDE DEF e
  <2>5. calls'[i].pair = n /\ calls'[i].at = "ok"
    BY <1>0, <2>3, <2>4, CallMoves
  <2>6. calls[i].pair = NoPair
    BY <1>0, <2>3 DEF OwnTokens
  <2>7. \A j \in DOMAIN calls : calls[j].token # n /\ calls[j].pair # n
    BY <1>0, <2>2, CallIs DEF CallType
  <2>8. store # n
    BY <2>2, PartsOf DEF ClientTyped
  <2> HIDE DEF n
  <2>9. OwnTokens'
    <3>1. \A j, k \in DOMAIN calls' :
            j # k /\ calls'[j].token = calls'[k].token => calls'[j].token \in resent'
      BY <1>0, <1>1 DEF OwnTokens
    <3>2. \A j, k \in DOMAIN calls' :
            j # k /\ calls'[j].pair = calls'[k].pair => calls'[j].pair = NoPair
      BY <1>0, <1>1, <2>5, <2>7 DEF OwnTokens
    <3>3. \A j \in DOMAIN calls' : calls'[j].pair # NoPair <=> calls'[j].at = "ok"
      BY <1>0, <1>1, <2>2, <2>5 DEF OwnTokens
    <3>4. \A p \in Pairs' : parent'[p] # NoPair =>
            \E j \in DOMAIN calls' : calls'[j].token = parent'[p] /\ calls'[j].pair = p
      <4> SUFFICES ASSUME NEW p \in Pairs', parent'[p] # NoPair
                   PROVE  \E j \in DOMAIN calls' : calls'[j].token = parent'[p] /\ calls'[j].pair = p
        OBVIOUS
      <4>1. CASE p = n
        BY <1>1, <2>2, <2>5, <4>1
      <4>2. CASE p # n
        <5>1. p \in Pairs /\ parent[p] = parent'[p]
          BY <2>2, <4>2
        <5>2. PICK j \in DOMAIN calls : calls[j].token = parent[p] /\ calls[j].pair = p
          BY <1>0, <5>1 DEF OwnTokens
        <5>3. p # NoPair
          BY <1>0, <5>1, PairsAre DEF NoPair
        <5>4. j # i
          BY <2>6, <5>2, <5>3
        <5> QED
          BY <1>1, <5>1, <5>2, <5>4
      <4> QED
        BY <4>1, <4>2
    <3> QED
      BY <3>1, <3>2, <3>3, <3>4 DEF OwnTokens
  <2>10. Fresh'
    BY <1>0, <1>1, <2>5, <2>7, <2>8 DEF Fresh, Unsent
  <2>11. Usable' /\ RefusedIfRevoked'
    BY <1>0, <1>1, <2>3, <2>5 DEF Usable, Valid, RefusedIfRevoked
  <2> QED
    BY <1>2, <2>9, <2>10, <2>11 DEF Tokens
<1>7. CASE Fail(i)
  <2>1. /\ MoveTo(i, "failed") /\ UNCHANGED <<parent, refresh, revoked>>
        /\ calls[i].at # "ok"
    BY <1>7 DEF Fail
  <2>2. /\ OwnTokens' /\ Fresh' /\ calls'[i].at = "failed"
        /\ \A j \in DOMAIN calls : calls'[j].pair = calls[j].pair
    BY <1>3, <2>1 DEF Answers
  <2>3. Usable' /\ RefusedIfRevoked'
    BY <1>0, <1>1, <2>1, <2>2 DEF Usable, Valid, RefusedIfRevoked
  <2> QED
    BY <1>2, <2>2, <2>3 DEF Tokens
<1> QED
  BY <1>4, <1>5, <1>6, <1>7 DEF ExchangeStep

LEMMA RevokeAllTokens ==
    ASSUME IInv, RevokeAll, UNCHANGED client_vars
    PROVE  Tokens'
<1>1. /\ UNCHANGED <<parent, calls, store, shared, check, resent>> /\ Live' = Live /\ Pairs' = Pairs
      /\ \A p : Valid(p) => Valid(p)'
      /\ revoked \subseteq revoked'
  BY DEF RevokeAll, client_vars, Valid, Live, Pairs
<1>2. OwnTokens' /\ Recorded' /\ Fresh'
  BY <1>1, PartsOf DEF OwnTokens, Recorded, Fresh, Unsent, Underway
<1>3. Usable' /\ RefusedIfRevoked'
  BY <1>1, PartsOf DEF Usable, RefusedIfRevoked, Unsent
<1> QED
  BY <1>2, <1>3 DEF Tokens

LEMMA Inductive == IInv /\ [Next]_vars => IInv'
<1> SUFFICES ASSUME IInv, [Next]_vars PROVE Tokens'
  BY TypeStep DEF IInv
<1> USE DEF Places
<1>1. ASSUME NEW q \in Reqs, Send(q) \/ Serve(q) \/ Deny(q) \/ Expired(q) \/ Lose(q)
      PROVE  Tokens'
  <2>1. PICK label \in {"sent", "denied", "done"} : Move({q}, label)
    BY <1>1 DEF Send, Serve, Deny, Expired, Lose, End, EndExpired
  <2>2. UNCHANGED <<session_vars, store, shared, check, resent>>
    BY <1>1 DEF Send, Serve, Deny, Expired, Lose
  <2>3. Live' \subseteq Live
    BY <2>1, <2>2, PartsOf, TasksMove DEF Live
  <2> QED
    BY <2>2, <2>3, TokensKept, PartsOf DEF Fresh
<1>2. ASSUME NEW q \in Reqs, Refresh(q) PROVE Tokens'
  BY <1>2, RefreshTokens
<1>3. ASSUME NEW i \in DOMAIN calls, ExchangeStep(i), UNCHANGED client_vars PROVE Tokens'
  BY <1>3, ExchangeTokens
<1>4. CASE RefreshSucceeds \/ RefreshFails
  <2>1. PICK label \in {"again", "done"} : Move(Waiting, label)
    BY <1>4 DEF RefreshSucceeds, RefreshFails, GoOn, EndExpired
  <2>2. UNCHANGED <<session_vars, check, resent>> /\ shared' = 0
    BY <1>4 DEF RefreshSucceeds, RefreshFails
  <2>3. shared # 0 /\ shared # check /\ shared \in Live
    BY <1>4, PartsOf, NoCallIsZero DEF RefreshSucceeds, RefreshFails, At, Fresh, Live
  <2>4. Live' \subseteq Live \ {shared}
    BY <2>1, <2>2, <2>3, PartsOf, TasksMove DEF Live
  <2>5. CASE RefreshSucceeds
    BY <2>2, <2>3, <2>4, <2>5, TokensStored DEF RefreshSucceeds, At
  <2>6. CASE RefreshFails
    BY <2>2, <2>4, <2>6, TokensKept DEF RefreshFails
  <2> QED
    BY <1>4, <2>5, <2>6
<1>5. CASE CheckStep
  <2>1. Move({Check}, "done") /\ pc[Check] = "refreshing"
    BY <1>5 DEF CheckStep, CheckSucceeds, CheckRefused, CheckFails, EndExpired
  <2>2. UNCHANGED <<session_vars, shared, resent>> /\ check' \in {0, check}
    BY <1>5 DEF CheckStep, CheckSucceeds, CheckRefused, CheckFails
  <2>3. check # 0 /\ shared # check /\ check \in Live
    BY <2>1, PartsOf DEF ClientTyped, Fresh, Live
  <2>4. pc'[Check] # "refreshing"
    BY <2>1, PartsOf, TasksMove, CheckIsNoRequest
  <2>5. Live' \subseteq Live \ {check} /\ (shared' # 0 => shared' # check')
    BY <2>2, <2>3, <2>4 DEF Live
  <2>6. CASE CheckSucceeds
    BY <2>2, <2>3, <2>5, <2>6, TokensStored DEF CheckSucceeds, At
  <2>7. CASE CheckRefused \/ CheckFails
    BY <2>2, <2>5, <2>7, TokensKept DEF CheckRefused, CheckFails
  <2> QED
    BY <1>5, <2>6, <2>7 DEF CheckStep
<1>6. CASE LogoutStep
  <2>1. /\ UNCHANGED <<session_vars, shared, pc, resent>> /\ check' \in {0, check}
        /\ UNCHANGED <<store, check>> \/ store' = NoPair
    BY <1>6 DEF LogoutStep, Logout, LogoutEnds
  <2>2. Live' \subseteq Live /\ (shared' # 0 => shared' # check')
    BY <2>1, PartsOf DEF Live, Fresh
  <2> QED
    BY <2>1, <2>2, TokensKept
<1>7. CASE Login
  BY <1>7, LoginTokens
<1>8. CASE Restart
  BY <1>8, RestartTokens
<1>9. CASE RevokeAll /\ UNCHANGED <<client_vars, starts>>
  BY <1>9, RevokeAllTokens
<1>10. CASE UNCHANGED vars
  <2>1. UNCHANGED <<session_vars, store, shared, check, resent>> /\ Live' = Live
    BY <1>10 DEF vars, client_vars, Live
  <2> QED
    BY <2>1, TokensKept, PartsOf DEF Fresh
<1> QED
  BY <1>1, <1>2, <1>3, <1>4, <1>5, <1>6, <1>7, <1>8, <1>9, <1>10
  DEF Next, RequestStep, RefreshEnds

LEMMA Initially == Init => IInv
<1> SUFFICES ASSUME Init PROVE IInv
  OBVIOUS
<1>0. pc \in [Tasks -> Places] /\ Waiting = {}
  BY CheckIsNoRequest DEF Init, Places, Waiting
<1>1. CASE parent = <<>> /\ refresh = {} /\ calls = <<>> /\ store = NoPair /\ check = 0
  <2>1. DOMAIN calls = {} /\ Pairs = {}
    BY <1>1 DEF Pairs
  <2>2. parent \in Seq(Nat) /\ calls \in Seq(CallType)
    BY <1>1, EmptySeq
  <2>3. SessionsTypeOK
    BY <1>1, <2>1, <2>2 DEF Init, SessionsTypeOK, CallType
  <2>4. ClientTyped
    BY <1>0, <1>1, <2>1, CheckIsNoRequest DEF Init, ClientTyped
  <2>5. Live = {}
    BY <1>1 DEF Init, Live
  <2>6. Tokens
    BY <1>1, <2>1, <2>5 DEF Init, Tokens, OwnTokens, Recorded, Fresh, Usable, RefusedIfRevoked, NoPair
  <2> QED
    BY <2>3, <2>4, <2>6, TypeParts DEF IInv
<1>2. CASE /\ parent = <<NoPair>> /\ refresh = {1} /\ calls = <<NewCall(1)>>
           /\ store = 1 /\ check = 1
  <2>1. DOMAIN calls = {1} /\ Pairs = {1} /\ parent[1] = NoPair
    BY <1>2 DEF Pairs
  <2>2. calls[1].token = 1 /\ calls[1].at = "find" /\ calls[1].pair = NoPair /\ calls[1] \in CallType
    BY <1>2, <2>1 DEF NewCall, CallType, Exchanges
  <2>3. parent \in Seq(Nat) /\ calls \in Seq(CallType)
    <3>1. NewCall(1) \in CallType /\ NoPair \in Nat
      BY <1>2, <2>2 DEF NoPair
    <3> QED
      BY <1>2, <3>1
  <2>4. SessionsTypeOK
    BY <1>2, <2>1, <2>2, <2>3 DEF Init, SessionsTypeOK, CallType
  <2>5. ClientTyped
    <3>1. shared = 0 /\ leaving \in BOOLEAN /\ resent = {} /\ starts \in Nat
      BY DEF Init
    <3> QED
      BY <1>0, <1>2, <2>1, <3>1 DEF ClientTyped
  <2>6. Live \subseteq {1} /\ Underway = {1} /\ shared = 0
    BY <1>2, <2>2 DEF Init, Live, Underway
  <2>7. OwnTokens /\ Recorded /\ Fresh /\ Usable /\ RefusedIfRevoked
    BY <1>2, <2>1, <2>2, <2>6
    DEF OwnTokens, Recorded, Fresh, Usable, RefusedIfRevoked, Unsent, Valid, NoPair
  <2> QED
    BY <2>4, <2>5, <2>7, TypeParts DEF IInv, Tokens
<1> QED
  BY <1>1, <1>2 DEF Init

LEMMA Invariance == Spec => []IInv
BY Initially, Inductive, PTL DEF Spec
-----------------------------------------------------------------------------
\* For any number of requests, logins and restarts, variables hold what the code
\* keeps in them, and a refresh is shared exactly as long as somebody waits for it
\* (_refreshFuture of api_client.dart).
THEOREM Typing == Spec => []TypeOK
<1>1. IInv => TypeOK
  BY DEF IInv
<1> QED
  BY <1>1, Invariance, PTL

\* The server would exchange a refresh token twice if two calls with it overlapped
\* (RefreshToken deletes it in a query of its own).  However many requests are
\* refused at once, the app sends a token again only when it was killed while a
\* refresh was under way, or while the check at start-up has one of its own; every
\* other token is exchanged for one pair.
THEOREM TokenUsedOnce == Spec => []SingleUse
<1>1. IInv => SingleUse
  <2> SUFFICES ASSUME IInv, NEW p \in Pairs, NEW q \in Pairs, p # q, parent[p] = parent[q],
                      parent[p] # NoPair
               PROVE  parent[p] \in resent
    BY DEF SingleUse
  <2>1. PICK i \in DOMAIN calls : calls[i].token = parent[p] /\ calls[i].pair = p
    BY PartsOf DEF OwnTokens
  <2>2. PICK j \in DOMAIN calls : calls[j].token = parent[q] /\ calls[j].pair = q
    BY PartsOf DEF OwnTokens
  <2> QED
    BY <2>1, <2>2, PartsOf DEF OwnTokens
<1> QED
  BY <1>1, Invariance, PTL

\* However requests, lost answers, failing queries, logouts, logins and restarts
\* interleave, the server refuses a refresh of the app only for a token that was
\* revoked, or that the app sent twice in one of these two ways.
THEOREM NotRefused == Spec => []RefusedIfRevoked
<1>1. IInv => RefusedIfRevoked
  BY DEF IInv, Tokens
<1> QED
  BY <1>1, Invariance, PTL
=============================================================================
