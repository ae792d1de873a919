---------------------------- MODULE ClientSession ----------------------------
(***************************************************************************)
(* The session of the app against the server's.  The tasks of the app run  *)
(* on one event loop; a step is one turn of it or one query of the server. *)
(* They are the requests of the API client, the check of the session at    *)
(* start-up and the logouts.  All requests that are refused share one      *)
(* refresh (_refreshFuture), and when it ends all of them go on in the     *)
(* same turn; the check makes a refresh of its own, and the screens do not *)
(* wait for it.  A logout is asked for by the user, by every request for   *)
(* which no refresh was to be had, and by the check; it wipes the tokens   *)
(* some turns later.  The app may be killed and started again at any time. *)
(* The pair in the secure storage is written and wiped as a whole, in one  *)
(* turn; a one-time code is sent and verified, and the tokens stored, in   *)
(* one step.  What AuthBloc shows is left out: the router admits by the    *)
(* presence of a token alone.                                              *)
(***************************************************************************)
EXTENDS Sessions

CONSTANTS
    Reqs,       \* identities of the API requests; each is sent once
    MaxStarts   \* bound: how often the user logs in or the app is started again

Check == "check"     \* the check of the session at start-up
Tasks == Reqs \cup {Check}

ASSUME BoundAssumption == MaxStarts \in Nat
ASSUME ReqsAssumption == Check \notin Reqs

VARIABLES
    store,      \* the pair in the secure storage
    shared,     \* the call _refreshFuture waits for, 0 if there is none
    check,      \* the call of the check until its outcome is in the storage, or 0
    pc,         \* where each task is
    leaving,    \* whether a logout, or several, are under way
    resent,     \* history: the tokens of refreshes that the app began while one was
                \* under way with the same token, or had been when it was killed
    starts      \* how often the user logged in or the app was started again

client_vars == <<store, shared, check, pc, leaving, resent>>
vars == <<session_vars, client_vars, starts>>

StartsAgain == starts < MaxStarts /\ starts' = starts + 1

Waiting == {q \in Reqs : pc[q] = "waiting"}

\* The tokens whose refresh has begun and has not yet replaced or wiped the pair.
Underway == {calls[i].token : i \in {shared, check} \ {0}}

Move(T, label) == pc' = [t \in Tasks |-> IF t \in T THEN label ELSE pc[t]]

\* Requests end; or they end with onSessionExpired, which adds a LogoutRequested.
End(Q) == Move(Q, "done") /\ UNCHANGED leaving
EndExpired(Q) == Move(Q, "done") /\ leaving' = TRUE
-----------------------------------------------------------------------------
(* API requests *)

\* Without a token, too: a screen may be shown some turns longer than it is stored.
Send(q) ==
    /\ pc[q] = "idle"
    /\ Move({q}, "sent")
    /\ UNCHANGED <<session_vars, store, shared, check, leaving, resent>>

\* Whether the access token is good is left to chance: it expires at any time.
Serve(q) ==
    /\ pc[q] \in {"sent", "again"}
    /\ End({q})
    /\ UNCHANGED <<session_vars, store, shared, check, resent>>

\* The middleware finds no token, or one that expired, or its query fails.
Deny(q) ==
    /\ \/ pc[q] = "sent" /\ Move({q}, "denied") /\ UNCHANGED leaving
       \/ pc[q] = "again" /\ End({q})
    /\ UNCHANGED <<session_vars, store, shared, check, resent>>

\* A refresh of its own for every request that is refused.
RefreshAlways(q) ==
    /\ pc[q] = "denied" /\ store # NoPair
    /\ calls' = Append(calls, NewCall(store))
    /\ shared' = Len(calls) + 1
    /\ Move({q}, "waiting")
    /\ UNCHANGED <<refresh, parent, revoked, store, check, leaving, resent>>

\* _performConcurrentRefresh, when a refresh is under way or can be started.
Refresh(q) ==
    /\ pc[q] = "denied"
    /\ shared # 0 \/ store # NoPair
    /\ IF shared # 0 THEN UNCHANGED <<calls, shared, resent>>
       ELSE /\ calls' = Append(calls, NewCall(store))
            /\ shared' = Len(calls) + 1
            /\ resent' = resent \cup ({store} \cap Underway)
    /\ Move({q}, "waiting")
    /\ UNCHANGED <<refresh, parent, revoked, store, check, leaving>>

\* There is nothing to refresh with.
Expired(q) ==
    /\ pc[q] = "denied" /\ store = NoPair /\ shared = 0
    /\ EndExpired({q})
    /\ UNCHANGED <<session_vars, store, shared, check, resent>>

\* The connection breaks or times out.
Lose(q) ==
    /\ pc[q] \in {"sent", "denied", "again"}
    /\ End({q})
    /\ UNCHANGED <<session_vars, store, shared, check, resent>>
-----------------------------------------------------------------------------
(* The end of the shared refresh: _executeRefreshToken *)

GoOn == Move(Waiting, "again") /\ UNCHANGED leaving

\* The end without the reset of _refreshFuture.
RefreshSucceedsOpen ==
    /\ At(shared, "ok")
    /\ Waiting # {}
    /\ store' = calls[shared].pair
    /\ GoOn
    /\ UNCHANGED <<session_vars, shared, check, resent>>

RefreshSucceeds ==
    /\ At(shared, "ok")
    /\ store' = calls[shared].pair
    /\ shared' = 0
    /\ GoOn
    /\ UNCHANGED <<session_vars, check, resent>>

\* A failure that keeps the tokens, unless the server refused them.
RefreshFailsKeeping ==
    /\ shared # 0
    /\ shared' = 0
    /\ IF At(shared, "refused") THEN store' = NoPair /\ EndExpired(Waiting)
       ELSE UNCHANGED store /\ End(Waiting)
    /\ UNCHANGED <<session_vars, check, resent>>

\* The refresh of the app itself waits for the refresh when it is refused.
RefreshFailsStuck ==
    /\ shared # 0 /\ ~At(shared, "refused")
    /\ shared' = 0
    /\ store' = NoPair
    /\ EndExpired(Waiting)
    /\ UNCHANGED <<session_vars, check, resent>>

\* The answer is an error or does not come: clearTokens, and onSessionExpired for
\* each of the requests.
RefreshFails ==
    /\ shared # 0
    /\ shared' = 0
    /\ store' = NoPair
    /\ EndExpired(Waiting)
    /\ UNCHANGED <<session_vars, check, resent>>
-----------------------------------------------------------------------------
(* The check at start-up: refreshToken of AuthRepository.  When it gets no pair it *)
(* goes on as a logout.                                                            *)

CheckSucceeds ==
    /\ pc[Check] = "refreshing" /\ At(check, "ok")
    /\ store' = calls[check].pair
    /\ check' = 0
    /\ Move({Check}, "done")
    /\ UNCHANGED <<session_vars, shared, leaving, resent>>

\* The interceptor wipes the tokens and asks for a logout, too.
CheckRefused ==
    /\ pc[Check] = "refreshing" /\ At(check, "refused")
    /\ store' = NoPair
    /\ check' = 0
    /\ EndExpired({Check})
    /\ UNCHANGED <<session_vars, shared, resent>>

\* Another error, or no answer.
CheckFails ==
    /\ pc[Check] = "refreshing"
    /\ EndExpired({Check})
    /\ UNCHANGED <<session_vars, store, shared, check, resent>>
-----------------------------------------------------------------------------
(* Login and logout *)

\* The user verifies a one-time code; with a token stored the router leads elsewhere.
Login ==
    /\ store = NoPair
    /\ StartsAgain
    /\ NewPair
    /\ store' = Len(parent) + 1
    /\ UNCHANGED <<calls, revoked, shared, check, pc, leaving, resent>>

Logout ==
    /\ leaving' = TRUE
    /\ UNCHANGED <<session_vars, store, shared, check, pc, resent>>

\* With or without an answer of the server the tokens are wiped.  The server only
\* deletes the access token.
LogoutEnds ==
    /\ leaving
    /\ store' = NoPair
    /\ check' = IF pc[Check] = "refreshing" THEN check ELSE 0
    /\ leaving' \in BOOLEAN
    /\ UNCHANGED <<session_vars, shared, pc, resent>>
-----------------------------------------------------------------------------
(* The app is killed, and started again with what is stored. *)

\* AuthBloc refreshes the pair, if there is one.
Starts ==
    IF store = NoPair THEN check' = 0 /\ UNCHANGED calls
    ELSE check' = Len(calls) + 1 /\ calls' = Append(calls, NewCall(store))

Restart ==
    /\ StartsAgain
    /\ Starts
    /\ resent' = resent \cup ({store} \cap Underway)
    /\ shared' = 0
    /\ pc' = [t \in Tasks |-> IF t = Check /\ store # NoPair THEN "refreshing"
                              ELSE IF t \in Reqs /\ pc[t] = "idle" THEN "idle" ELSE "done"]
    /\ leaving' = FALSE
    /\ UNCHANGED <<refresh, parent, revoked, store>>

\* The app starts for the first time, or with a pair that was not sent before.
Init ==
    /\ \/ parent = <<>> /\ refresh = {} /\ calls = <<>> /\ store = NoPair /\ check = 0
       \/ parent = <<NoPair>> /\ refresh = {1} /\ calls = <<NewCall(1)>> /\ store = 1 /\ check = 1
    /\ revoked = {}
    /\ shared = 0
    /\ pc = [t \in Tasks |-> IF t # Check THEN "idle" ELSE IF check = 0 THEN "done" ELSE "refreshing"]
    /\ leaving = FALSE
    /\ resent = {}
    /\ starts = 0
-----------------------------------------------------------------------------
RequestStep(q) == (Serve(q) \/ Deny(q) \/ Refresh(q) \/ Expired(q)) /\ UNCHANGED starts
RefreshEnds == (RefreshSucceeds \/ RefreshFails) /\ UNCHANGED starts
CheckStep == (CheckSucceeds \/ CheckRefused \/ CheckFails) /\ UNCHANGED starts
LogoutStep == (Logout \/ LogoutEnds) /\ UNCHANGED starts

Next ==
    \/ \E q \in Reqs : RequestStep(q)
    \/ \E q \in Reqs : (Send(q) \/ Lose(q)) /\ UNCHANGED starts
    \/ RefreshEnds
    \/ CheckStep
    \/ LogoutStep
    \/ Login
    \/ Restart
    \/ \E i \in DOMAIN calls : ExchangeStep(i) /\ UNCHANGED <<client_vars, starts>>
    \/ RevokeAll /\ UNCHANGED <<client_vars, starts>>

Spec == Init /\ [][Next]_vars

\* Every request of the app has a timeout of ten seconds, so that it is answered
\* or given up, and the event loop runs every callback that is due.
FairSpec ==
    /\ Spec
    /\ \A q \in Reqs : WF_vars(RequestStep(q))
    /\ WF_vars(RefreshEnds)
-----------------------------------------------------------------------------
Places == {"idle", "sent", "denied", "waiting", "again", "refreshing", "done"}

\* The variables hold what the code keeps in them; a refresh is shared exactly as
\* long as a request waits for it.
TypeOK ==
    /\ SessionsTypeOK
    /\ store \in Pairs \cup {NoPair}
    /\ shared \in DOMAIN calls \cup {0}
    /\ check \in DOMAIN calls \cup {0}
    /\ pc \in [Tasks -> Places]
    /\ leaving \in BOOLEAN
    /\ resent \subseteq Pairs
    /\ starts \in Nat
    /\ shared # 0 <=> Waiting # {}
    /\ pc[Check] = "refreshing" => check # 0

\* A refresh token is exchanged for one pair only, however many requests are
\* refused at once: unless the app was killed in the middle of the refresh, or made
\* it while the check at start-up was under way with the same token.
SingleUse ==
    \A p, q \in Pairs :
        p # q /\ parent[p] = parent[q] => parent[p] \in resent \cup {NoPair}

\* A refresh is refused only if somebody revoked the token, or in the same two
\* cases: after an answer that was lost, an error or a logout the app does not come
\* back with a token that it has used.
RefusedIfRevoked ==
    \A i \in DOMAIN calls :
        calls[i].at = "refused" => calls[i].token \in revoked \cup resent

\* Every request ends, whatever is refused, lost or revoked: no refresh waits for
\* itself and none is waited for after it ended.
EveryRequestEnds == \A q \in Reqs : pc[q] = "sent" ~> pc[q] = "done"
=============================================================================
