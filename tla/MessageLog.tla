----------------------------- MODULE MessageLog -----------------------------
(***************************************************************************)
(* What the chat promises of its messages: a message is posted once for    *)
(* each identity its client gives it, as long as it is not deleted; only   *)
(* its sender changes it, and a deleted message never changes again.       *)
(***************************************************************************)
EXTENDS Naturals, Sequences

CONSTANTS Unnamed   \* the identity of a message whose client gave it none

VARIABLE log        \* the messages: [conv, sender, id, writer, deleted]

Live(conv, id) ==
    {i \in DOMAIN log : log[i].conv = conv /\ log[i].id = id /\ ~log[i].deleted}

LogInit == \A i \in DOMAIN log : log[i].writer = log[i].sender

Post ==
    /\ Len(log') = Len(log) + 1
    /\ \A i \in DOMAIN log : log'[i] = log[i]
    /\ LET m == log'[Len(log) + 1]
       IN  /\ m.writer = m.sender /\ ~m.deleted
           /\ m.id = Unnamed \/ Live(m.conv, m.id) = {}

Change(i) ==
    /\ ~log[i].deleted
    /\ DOMAIN log' = DOMAIN log
    /\ \A j \in DOMAIN log \ {i} : log'[j] = log[j]
    /\ log'[i].conv = log[i].conv /\ log'[i].sender = log[i].sender /\ log'[i].id = log[i].id
    /\ log'[i].writer = log[i].sender

LogNext == Post \/ \E i \in DOMAIN log : Change(i)

LogSpec == LogInit /\ [][LogNext]_log
=============================================================================
