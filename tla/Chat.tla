-------------------------------- MODULE Chat --------------------------------
(***************************************************************************)
(* Conversations and messages over PostgresChatRepository, together with   *)
(* the contacts that decide who may open a conversation.  Each query of a  *)
(* call is a step; the creation of a conversation and of a message is a    *)
(* transaction, the latter under an advisory lock on the conversation and  *)
(* the identity the client gave the message.  The members are told over    *)
(* the hub after the last step, which changes nothing that is stored.      *)
(* A conversation and a message are their positions; the content of a      *)
(* message is the call that wrote it.                                      *)
(***************************************************************************)
EXTENDS ContactRequests

CONSTANTS
    Ids,            \* the identities clients give their messages
    Conversations,  \* the conversations at the start: [type, members]
    Messages        \* the messages at the start

NoId == "no id"
NoCall == "no call"

VARIABLES
    conversations,  \* the table of conversations: [type, members]
    messages        \* the table of messages: [conv, sender, id, text, deleted]

chat_vars == <<conversations, messages>>
vars == <<contact_vars, chat_vars, pc, req>>

ConversationType == [type : {"direct", "group"}, members : SUBSET Users]
MessageType ==
    [conv : Nat \ {0}, sender : Users, id : Ids \cup {NoId}, text : Calls \cup {NoCall}, deleted : BOOLEAN]

ASSUME StartAssumption ==
    /\ NoId \notin Ids /\ NoCall \notin Calls
    /\ Conversations \in Seq(ConversationType) /\ Messages \in Seq(MessageType)
    /\ \A i \in DOMAIN Messages :
          /\ Messages[i].text = NoCall
          /\ Messages[i].conv \in DOMAIN Conversations
          /\ Messages[i].sender \in Conversations[Messages[i].conv].members

RequestType ==
    [op : ContactOps \cup {"open"}, by : Users, peer : Users]
        \cup [op : {"group"}, by : Users, members : SUBSET Users]
        \cup [op : {"send"}, by : Users, conv : Nat, id : Ids \cup {NoId}]
        \cup [op : {"edit", "delete"}, by : Users, msg : Nat]

ASSUME RequestAssumption == Requests \subseteq RequestType /\ Requests # {}

Direct(u, v) ==
    {n \in DOMAIN conversations : conversations[n].type = "direct" /\ conversations[n].members = {u, v}}

IsMember(n, u) == n \in DOMAIN conversations /\ u \in conversations[n].members

Known(n, id) ==
    {i \in DOMAIN messages : messages[i].conv = n /\ messages[i].id = id /\ ~messages[i].deleted}

IsSender(i, u) == i \in DOMAIN messages /\ messages[i].sender = u
-----------------------------------------------------------------------------
(* CreateDirectConversation and CreateGroupConversation *)

\* Without the contact only a conversation that exists already is opened.
CheckContact(c) ==
    /\ pc[c] = "open"
    /\ IF Mine(c) \in contacts THEN Goto(c, "direct") ELSE Return(c)
    /\ UNCHANGED <<contact_vars, chat_vars, req>>

\* The conversation is not looked up.
FindDirectNever(c) ==
    /\ pc[c] = "direct"
    /\ Goto(c, "new")
    /\ UNCHANGED <<contact_vars, chat_vars, req>>

FindDirect(c) ==
    /\ pc[c] = "direct"
    /\ IF Direct(req[c].by, req[c].peer) # {} THEN Return(c) ELSE Goto(c, "new")
    /\ UNCHANGED <<contact_vars, chat_vars, req>>

\* Any error of a look-up counts as "not found".
LookupFails(c) ==
    /\ \/ pc[c] = "direct" /\ Goto(c, "blind")
       \/ pc[c] = "known" /\ Goto(c, "store")
       \/ pc[c] \in {"sent", "received"} /\ Goto(c, IF pc[c] = "sent" THEN "received" ELSE "ask")
    /\ UNCHANGED <<contact_vars, chat_vars, req>>

CreateDirect(c) ==
    /\ pc[c] \in {"new", "blind"}
    /\ conversations' = Append(conversations, [type |-> "direct", members |-> {req[c].by, req[c].peer}])
    /\ Return(c)
    /\ UNCHANGED <<contact_vars, messages, req>>

\* One query for each member: as contacts are never lost, they are one step.
CheckMembers(c) ==
    /\ pc[c] = "group"
    /\ IF \A u \in req[c].members \ {req[c].by} : <<req[c].by, u>> \in contacts
       THEN Goto(c, "found") ELSE Return(c)
    /\ UNCHANGED <<contact_vars, chat_vars, req>>

CreateGroup(c) ==
    /\ pc[c] = "found"
    /\ conversations' = Append(conversations, [type |-> "group", members |-> req[c].members \cup {req[c].by}])
    /\ Return(c)
    /\ UNCHANGED <<contact_vars, messages, req>>
-----------------------------------------------------------------------------
(* SendMessage *)

CheckMember(c) ==
    /\ pc[c] = "send"
    /\ IF ~IsMember(req[c].conv, req[c].by) THEN Return(c)
       ELSE Goto(c, IF req[c].id = NoId THEN "store" ELSE "known")
    /\ UNCHANGED <<contact_vars, chat_vars, req>>

\* A message with this identity is the answer, whoever sent it.
FindMessage(c) ==
    /\ pc[c] = "known"
    /\ IF Known(req[c].conv, req[c].id) # {} THEN Return(c) ELSE Goto(c, "store")
    /\ UNCHANGED <<contact_vars, chat_vars, req>>

NewMessage(c) ==
    [conv |-> req[c].conv, sender |-> req[c].by, id |-> req[c].id, text |-> c, deleted |-> FALSE]

\* The insert without the look-up under the lock.
CreateMessageUnlocked(c) ==
    /\ pc[c] = "store"
    /\ messages' = Append(messages, NewMessage(c))
    /\ Return(c)
    /\ UNCHANGED <<contact_vars, conversations, req>>

\* CreateMessage looks again under the lock, and keeps the message it finds.
CreateMessage(c) ==
    /\ pc[c] = "store"
    /\ IF req[c].id # NoId /\ Known(req[c].conv, req[c].id) # {}
       THEN UNCHANGED messages
       ELSE messages' = Append(messages, NewMessage(c))
    /\ Return(c)
    /\ UNCHANGED <<contact_vars, conversations, req>>
-----------------------------------------------------------------------------
(* EditMessage and DeleteMessage *)

GetMessage(c) ==
    /\ pc[c] \in {"edit", "delete"}
    /\ IF IsSender(req[c].msg, req[c].by) /\ (pc[c] = "edit" => ~messages[req[c].msg].deleted)
       THEN Goto(c, IF pc[c] = "edit" THEN "update" ELSE "mark")
       ELSE Return(c)
    /\ UNCHANGED <<contact_vars, chat_vars, req>>

\* A message that was deleted since is left alone, and yet it is announced.
UpdateMessage(c) ==
    /\ pc[c] = "update"
    /\ messages' = IF messages[req[c].msg].deleted THEN messages
                   ELSE [messages EXCEPT ![req[c].msg].text = c]
    /\ Return(c)
    /\ UNCHANGED <<contact_vars, conversations, req>>

MarkDeleted(c) ==
    /\ pc[c] = "mark"
    /\ messages' = [messages EXCEPT ![req[c].msg].deleted = TRUE]
    /\ Return(c)
    /\ UNCHANGED <<contact_vars, conversations, req>>
-----------------------------------------------------------------------------
\* A request arrives; conversations and messages that do not exist are named by
\* no client.
Begin(c, r) ==
    /\ pc[c] = "idle"
    /\ r.op = "send" => r.conv \in DOMAIN conversations
    /\ r.op \in {"edit", "delete"} => r.msg \in DOMAIN messages
    /\ req' = [req EXCEPT ![c] = r]
    /\ Goto(c, FirstLabel(r.op))
    /\ UNCHANGED <<contact_vars, chat_vars>>

\* A query fails, or the client goes away and the next one is not sent.
Stop(c) ==
    /\ pc[c] \notin {"idle", "done"}
    /\ Return(c)
    /\ UNCHANGED <<contact_vars, chat_vars, req>>

Init ==
    /\ contacts = {}
    /\ asked = [p \in Pairs |-> "none"]
    /\ conversations = Conversations
    /\ messages = Messages
    /\ pc = [c \in Calls |-> "idle"]
    /\ req \in [Calls -> {CHOOSE r \in Requests : TRUE}]

ChatStep(c) ==
    \/ CheckContact(c) \/ FindDirect(c) \/ LookupFails(c) \/ CreateDirect(c)
    \/ CheckMembers(c) \/ CreateGroup(c)
    \/ CheckMember(c) \/ FindMessage(c) \/ CreateMessage(c)
    \/ GetMessage(c) \/ UpdateMessage(c) \/ MarkDeleted(c)

Next ==
    \E c \in Calls :
        \/ \E r \in Requests : Begin(c, r)
        \/ ContactStep(c) /\ UNCHANGED chat_vars
        \/ ChatStep(c)
        \/ Stop(c)

Spec == Init /\ [][Next]_vars
-----------------------------------------------------------------------------
\* The variables hold what the code keeps in them; users whose request was
\* accepted are contacts of each other, and whoever opened a conversation had
\* the others among the contacts.
TypeOK ==
    /\ ContactsTypeOK
    /\ conversations \in Seq(ConversationType)
    /\ messages \in Seq(MessageType)
    /\ req \in [Calls -> RequestType]
    /\ \A n \in DOMAIN conversations \ DOMAIN Conversations :
        \E u \in conversations[n].members :
            \A v \in conversations[n].members \ {u} : <<u, v>> \in contacts
    /\ \A i \in DOMAIN messages : IsMember(messages[i].conv, messages[i].sender)

\* A call that begins when two users have a conversation opens no second one
\* for them, unless its look-up fails ("blind"): two conversations of one pair
\* were opened by calls that overlap, or the database did not answer.
OneConversation ==
    \A c \in Calls, u, v \in Users :
        []((pc[c] = "idle" /\ Direct(u, v) # {})
              => [](pc[c] = "new" => {req[c].by, req[c].peer} # {u, v}))
-----------------------------------------------------------------------------
Writer(i) == IF messages[i].text = NoCall THEN messages[i].sender ELSE req[messages[i].text].by

Stored ==
    [i \in DOMAIN messages |->
        [conv |-> messages[i].conv, sender |-> messages[i].sender, id |-> messages[i].id,
         text |-> messages[i].text, writer |-> Writer(i), deleted |-> messages[i].deleted]]

Log == INSTANCE MessageLog WITH Unnamed <- NoId, log <- Stored

\* Retries, concurrent sends, edits and deletions in any order: a message is
\* stored once for the identity its client gave it, only its sender changes it,
\* and a deleted one stays as it was.
LogSpec == Log!LogSpec
=============================================================================
