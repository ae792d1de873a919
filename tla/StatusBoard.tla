----------------------------- MODULE StatusBoard -----------------------------
(***************************************************************************)
(* What the PSP gateway promises of the status it shows for a transaction  *)
(* of the provider: it is entered as the provider answered, and after that *)
(* it only takes what somebody reported.  The provider's own record may be *)
(* read again at any time; a webhook event is used once, for its own       *)
(* transaction, or for none.                                               *)
(***************************************************************************)
EXTENDS Naturals, Sequences

CONSTANTS
    EventIds,       \* the identities of the events the provider sends
    Unnamed,        \* the identity of an event that has none
    Reports         \* what events report: [id, tx, status]

VARIABLES
    rail,   \* the transactions of the provider, with the status it keeps
    board,  \* the transactions the gateway has entered, with the status shown
    used    \* the identities of the events that have been used

board_vars == <<rail, board, used>>

BoardInit == rail = <<>> /\ board = <<>> /\ used = {}

\* The provider executes one transaction more.
Execute ==
    /\ Len(rail') = Len(rail) + 1
    /\ \A n \in DOMAIN rail : rail'[n] = rail[n]
    /\ UNCHANGED <<board, used>>

\* One of them is entered, once.
Enter(n) ==
    /\ \A i \in DOMAIN board : board[i].tx # n
    /\ board' = Append(board, [tx |-> n, status |-> rail[n].status])
    /\ UNCHANGED <<rail, used>>

\* The provider is asked.
Ask(i) ==
    /\ board' = [board EXCEPT ![i].status = rail[board[i].tx].status]
    /\ UNCHANGED <<rail, used>>

\* An event is used, with or without an effect.
Use(r) ==
    /\ r.id \notin used
    /\ used' = IF r.id = Unnamed THEN used ELSE used \cup {r.id}
    /\ \/ UNCHANGED board
       \/ \E i \in DOMAIN board :
            board[i].tx = r.tx /\ board' = [board EXCEPT ![i].status = r.status]
    /\ UNCHANGED rail

BoardNext ==
    \/ Execute
    \/ \E n \in DOMAIN rail : Enter(n)
    \/ \E i \in DOMAIN board : Ask(i)
    \/ \E r \in Reports : Use(r)

BoardSpec == BoardInit /\ [][BoardNext]_board_vars
=============================================================================
