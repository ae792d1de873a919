-------------------------- MODULE ContactRequests --------------------------
(***************************************************************************)
(* Contacts and contact requests over PostgresContactRepository.  A call   *)
(* is a request in a goroutine and each of its queries is a step; the      *)
(* acceptance of a request is one transaction.  Favourites and blocked     *)
(* users change nothing that any of these calls reads, and are left out.   *)
(* Module Chat adds the calls of the chat service.                         *)
(***************************************************************************)
EXTENDS Naturals, Sequences, FiniteSets

CONSTANTS
    Users,
    Calls,      \* identities of the calls in a behaviour; each runs once
    Requests    \* what users may send: [op, by, ...]

VARIABLES
    contacts,   \* the rows <<owner, contact>> of the table contacts
    asked,      \* the status of the contact request of each ordered pair
    pc,         \* the step each call takes next
    req         \* its request

contact_vars == <<contacts, asked>>

Pairs == Users \X Users
AskStatuses == {"none", "pending", "accepted", "rejected"}

Goto(c, label) == pc' = [pc EXCEPT ![c] = label]
Return(c) == Goto(c, "done")

\* The users of a call's request: who sends it, and whom it is about.
Mine(c) == <<req[c].by, req[c].peer>>
Theirs(c) == <<req[c].peer, req[c].by>>
-----------------------------------------------------------------------------
(* SendContactRequest *)

AreContacts(c) ==
    /\ pc[c] = "contacts"
    /\ IF req[c].by = req[c].peer \/ Mine(c) \in contacts THEN Return(c) ELSE Goto(c, "relation")
    /\ UNCHANGED <<contact_vars, req>>

\* The first query of GetRelationshipStatus.
Relation(c) ==
    /\ pc[c] = "relation"
    /\ Goto(c, IF Mine(c) \in contacts THEN "ask" ELSE "sent")
    /\ UNCHANGED <<contact_vars, req>>

\* A request of one's own, pending or rejected, hides the other's.
RelationSent(c) ==
    /\ pc[c] = "sent"
    /\ Goto(c, IF asked[Mine(c)] \in {"pending", "rejected"} THEN "ask" ELSE "received")
    /\ UNCHANGED <<contact_vars, req>>

RelationReceived(c) ==
    /\ pc[c] = "received"
    /\ Goto(c, IF asked[Theirs(c)] = "pending" THEN "incoming" ELSE "ask")
    /\ UNCHANGED <<contact_vars, req>>

Incoming(c) ==
    /\ pc[c] = "incoming"
    /\ Goto(c, IF asked[Theirs(c)] = "pending" THEN "accept" ELSE "ask")
    /\ UNCHANGED <<contact_vars, req>>

\* CreateContactRequest: a rejected request is renewed, any other one stays.
Ask(c) ==
    /\ pc[c] = "ask"
    /\ asked' = [asked EXCEPT ![Mine(c)] = IF @ \in {"none", "rejected"} THEN "pending" ELSE @]
    /\ Return(c)
    /\ UNCHANGED <<contacts, req>>

\* The transaction with one of the two rows only.
AcceptOneWay(c) ==
    /\ pc[c] = "accept"
    /\ IF asked[Theirs(c)] = "pending"
       THEN /\ asked' = [asked EXCEPT ![Theirs(c)] = "accepted"]
            /\ contacts' = contacts \cup {Theirs(c)}
       ELSE UNCHANGED contact_vars
    /\ Return(c)
    /\ UNCHANGED req

\* AcceptContactRequest, by its recipient: both rows, and a request in the
\* other direction is accepted with it.
Accept(c) ==
    /\ pc[c] = "accept"
    /\ IF asked[Theirs(c)] = "pending"
       THEN /\ asked' = [asked EXCEPT
                           ![Theirs(c)] = "accepted",
                           ![Mine(c)] = IF @ = "pending" THEN "accepted" ELSE @]
            /\ contacts' = contacts \cup {Mine(c), Theirs(c)}
       ELSE UNCHANGED contact_vars
    /\ Return(c)
    /\ UNCHANGED req

Reject(c) ==
    /\ pc[c] = "reject"
    /\ asked' = [asked EXCEPT ![Theirs(c)] = IF @ = "pending" THEN "rejected" ELSE @]
    /\ Return(c)
    /\ UNCHANGED <<contacts, req>>

\* SyncContacts: whoever has the telephone number of a user has a contact, and
\* this user does not.
Sync(c) ==
    /\ pc[c] = "sync"
    /\ contacts' = contacts \cup {Mine(c)}
    /\ Return(c)
    /\ UNCHANGED <<asked, req>>
-----------------------------------------------------------------------------
ContactOps == {"ask", "accept", "reject", "sync"}
FirstLabel(op) == IF op = "ask" THEN "contacts" ELSE op

ContactStep(c) ==
    \/ AreContacts(c) \/ Relation(c) \/ RelationSent(c) \/ RelationReceived(c)
    \/ Incoming(c) \/ Ask(c) \/ Accept(c) \/ Reject(c) \/ Sync(c)

\* Users whose request was accepted are contacts of each other.
ContactsTypeOK ==
    /\ contacts \subseteq Pairs
    /\ asked \in [Pairs -> AskStatuses]
    /\ \A u, v \in Users : asked[<<u, v>>] = "accepted" => {<<u, v>>, <<v, u>>} \subseteq contacts
=============================================================================
