------------------------------- MODULE MCChat -------------------------------
(***************************************************************************)
(* The chat on a small instance: two users who are no contacts yet and     *)
(* share a group in which one message was sent.                            *)
(***************************************************************************)
EXTENDS Chat

CONSTANTS ann, ben, k1

Group == [type |-> "group", members |-> {ann, ben}]
First == [conv |-> 1, sender |-> ann, id |-> k1, text |-> NoCall, deleted |-> FALSE]

MCConversations == <<Group>>
MCMessages == <<First>>

About(op, u, v) == [op |-> op, by |-> u, peer |-> v]
SendAs(u, n, id) == [op |-> "send", by |-> u, conv |-> n, id |-> id]
On(op, u, i) == [op |-> op, by |-> u, msg |-> i]

MCRequests ==
    {About("ask", ann, ben), About("ask", ben, ann), About("accept", ben, ann),
     About("reject", ben, ann), About("sync", ann, ben), About("open", ann, ben),
     About("open", ben, ann), [op |-> "group", by |-> ann, members |-> {ann, ben}],
     SendAs(ann, 1, k1), SendAs(ben, 1, k1), SendAs(ben, 1, NoId),
     On("edit", ann, 1), On("delete", ann, 1), On("delete", ben, 2)}
=============================================================================
