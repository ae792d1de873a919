--------------------------- MODULE IdempotentBook ---------------------------
(***************************************************************************)
(* What the ledger promises its clients, without accounts, look-ups or     *)
(* locks: a book to which entries are only added, at most one under any    *)
(* reference; a call adds its entry, or takes the one that is there under  *)
(* its reference, in a single step; and nothing is announced that is not   *)
(* in the book.  A call whose answer is lost may or may not have written.  *)
(***************************************************************************)
EXTENDS Naturals, Sequences

CONSTANTS
    Calls,        \* the clients' calls
    Unnamed,      \* the reference of the entries that carry none
    Opening       \* the book at the start

VARIABLES
    book,         \* the entries, oldest first
    asked,        \* the reference of each call, <<>> before it is made
    decided,      \* the entry a call has written or taken, 0 before that
    told          \* what the client knows

bookVars == <<book, asked, decided, told>>

Refusals == {"found", "invalid", "conflict", "insufficient", "error"}
Named(ref) == {n \in DOMAIN book : ref # Unnamed /\ book[n].ref = ref}
-----------------------------------------------------------------------------
Open ==
    /\ book = Opening
    /\ asked = [c \in Calls |-> <<>>]
    /\ decided = [c \in Calls |-> 0]
    /\ told = [c \in Calls |-> "none"]

Waiting(c) == asked[c] # <<>> /\ told[c] = "none" /\ decided[c] = 0

\* A call is made; it may be refused at once.
Ask(c) ==
    /\ asked[c] = <<>> /\ asked'[c] # <<>>
    /\ asked' = [asked EXCEPT ![c] = asked'[c]]
    /\ \E answer \in {"none"} \cup Refusals : told' = [told EXCEPT ![c] = answer]
    /\ UNCHANGED <<book, decided>>

Write(c) ==
    /\ Waiting(c)
    /\ Named(asked[c]) = {}
    /\ Len(book') = Len(book) + 1
    /\ book' = Append(book, book'[Len(book) + 1])
    /\ book'[Len(book) + 1].ref = asked[c]
    /\ decided' = [decided EXCEPT ![c] = Len(book) + 1]
    /\ UNCHANGED <<asked, told>>

Take(c, n) ==
    /\ Waiting(c)
    /\ decided' = [decided EXCEPT ![c] = n]
    /\ told' = [told EXCEPT ![c] = "ok"]
    /\ UNCHANGED <<book, asked>>

Confirm(c) ==
    /\ decided[c] # 0 /\ told[c] = "none"
    /\ told' = [told EXCEPT ![c] = "ok"]
    /\ UNCHANGED <<book, asked, decided>>

Refuse(c) ==
    /\ Waiting(c)
    /\ \E answer \in Refusals : told' = [told EXCEPT ![c] = answer]
    /\ UNCHANGED <<book, asked, decided>>

\* The call is not answered any more, whether it has written or not.
Lose(c) ==
    /\ asked[c] # <<>> /\ told[c] = "none"
    /\ told' = [told EXCEPT ![c] = "lost"]
    /\ UNCHANGED <<book, asked, decided>>

CallStep(c) ==
    \/ Ask(c)
    \/ Write(c)
    \/ \E n \in Named(asked[c]) : Take(c, n)
    \/ Confirm(c)
    \/ Refuse(c)
    \/ Lose(c)

BookNext == \E c \in Calls : CallStep(c)
BookSpec == Open /\ [][BookNext]_bookVars
=============================================================================
