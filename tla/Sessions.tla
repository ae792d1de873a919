------------------------------ MODULE Sessions ------------------------------
(***************************************************************************)
(* The sessions of one user at the server.  A pair of tokens, one for      *)
(* access and one to refresh, is a number, and refresh holds those whose   *)
(* row of auth_tokens is there to refresh with; the access tokens, which   *)
(* expire soon, are left out.  A refresh call is a request in a goroutine: *)
(* it looks the token up, deletes it, and stores a new pair, one step      *)
(* each, in no transaction.                                                *)
(***************************************************************************)
EXTENDS Naturals, Sequences

VARIABLES
    refresh,    \* the pairs whose refresh token is stored
    parent,     \* for each pair the refresh token it was given for, 0 for a login
    calls,      \* the refresh calls that were sent: [token, at, pair]
    revoked     \* history: the pairs whose refresh token was revoked

session_vars == <<refresh, parent, calls, revoked>>

NoPair == 0
Pairs == DOMAIN parent
Exchanges == {"find", "delete", "store"}
Answers == {"ok", "refused", "failed"}

NewCall(token) == [token |-> token, at |-> "find", pair |-> NoPair]
At(i, label) == i \in DOMAIN calls /\ calls[i].at = label
MoveTo(i, label) == calls' = [calls EXCEPT ![i].at = label]

\* generateTokenPair, as a step of a login.
NewPair ==
    /\ parent' = Append(parent, NoPair)
    /\ refresh' = refresh \cup {Len(parent) + 1}

Find(i) ==
    /\ At(i, "find")
    /\ MoveTo(i, IF calls[i].token \in refresh THEN "delete" ELSE "refused")
    /\ UNCHANGED <<refresh, parent, revoked>>

\* The error of the deletion is ignored.
Delete(i) ==
    /\ At(i, "delete")
    /\ refresh' = refresh \ {calls[i].token} \/ UNCHANGED refresh
    /\ MoveTo(i, "store")
    /\ UNCHANGED <<parent, revoked>>

\* generateTokenPair
Store(i) ==
    /\ At(i, "store")
    /\ parent' = Append(parent, calls[i].token)
    /\ refresh' = refresh \cup {Len(parent) + 1}
    /\ calls' = [calls EXCEPT ![i].at = "ok", ![i].pair = Len(parent) + 1]
    /\ UNCHANGED revoked

\* Any other query fails: the server answers with an internal error.
Fail(i) ==
    /\ i \in DOMAIN calls /\ calls[i].at \in {"find", "store"}
    /\ MoveTo(i, "failed")
    /\ UNCHANGED <<refresh, parent, revoked>>

ExchangeStep(i) == Find(i) \/ Delete(i) \/ Store(i) \/ Fail(i)

\* LogoutAll, from another device of the user.  That all tokens expire has the
\* same effect.
RevokeAll ==
    /\ refresh' = {}
    /\ revoked' = revoked \cup refresh
    /\ UNCHANGED <<parent, calls>>

SessionsTypeOK ==
    /\ parent \in Seq(Nat)
    /\ refresh \subseteq Pairs /\ revoked \subseteq Pairs
    /\ calls \in Seq([token : Pairs, at : Exchanges \cup Answers, pair : Pairs \cup {NoPair}])
    /\ \A i \in DOMAIN calls : calls[i].at = "ok" => calls[i].pair \in Pairs
=============================================================================
