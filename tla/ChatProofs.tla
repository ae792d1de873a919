----------------------------- MODULE ChatProofs -----------------------------
(***************************************************************************)
(* What holds of contacts, conversations and messages for any number of    *)
(* users, calls and messages: the types, with what they say of who is      *)
(* whose contact and a member of what, that the messages implement         *)
(* MessageLog, and that a second conversation of a pair is opened only by  *)
(* calls that overlap.  At the end the live connections of the same        *)
(* component, for any number of them and of broadcasts and any size of the *)
(* buffers.                                                                *)
(***************************************************************************)
EXTENDS Chat, WsClient, SequenceTheorems, TLAPS

AskLabels == {"contacts", "relation", "sent", "received", "incoming", "ask", "accept", "reject", "sync"}
OpenLabels == {"open", "direct", "new", "blind"}
GroupLabels == {"group", "found"}
SendLabels == {"send", "known", "store"}
ChangeLabels == {"edit", "update", "delete", "mark"}
Labels == {"idle", "done"} \cup AskLabels \cup OpenLabels \cup GroupLabels \cup SendLabels \cup ChangeLabels

PeerRequest == [op : ContactOps \cup {"open"}, by : Users, peer : Users]
GroupRequest == [op : {"group"}, by : Users, members : SUBSET Users]
SendRequest == [op : {"send"}, by : Users, conv : Nat, id : Ids \cup {NoId}]
ChangeRequest == [op : {"edit", "delete"}, by : Users, msg : Nat]

\* What a call that is at a label has found out remains true until it uses it.
Found(c, l) ==
    /\ l \in {"direct", "new", "blind"} => Mine(c) \in contacts
    /\ l = "found" => \A u \in req[c].members \ {req[c].by} : <<req[c].by, u>> \in contacts
    /\ l \in {"known", "store"} => IsMember(req[c].conv, req[c].by)
    /\ l \in {"update", "mark"} => IsSender(req[c].msg, req[c].by)

Suits(c, l) ==
    /\ l \in Labels
    /\ l \in AskLabels \cup OpenLabels => req[c] \in PeerRequest
    /\ l \in GroupLabels => req[c] \in GroupRequest
    /\ l \in SendLabels => req[c] \in SendRequest
    /\ l \in ChangeLabels => req[c] \in ChangeRequest

Placed(c) == Suits(c, pc[c]) /\ Found(c, pc[c])

\* A message was written by its sender, in a call that has begun.
OwnWords ==
    \A i \in DOMAIN messages : messages[i].text # NoCall =>
        pc[messages[i].text] # "idle" /\ req[messages[i].text].by = messages[i].sender

IInv == TypeOK /\ pc \in [Calls -> Labels] /\ (\A c \in Calls : Placed(c)) /\ OwnWords
-----------------------------------------------------------------------------
(* What any step keeps *)

\* Contacts, conversations and messages are added, and messages keep their place.
Grows ==
    /\ contacts \subseteq contacts'
    /\ DOMAIN conversations \subseteq DOMAIN conversations'
    /\ \A n \in DOMAIN conversations : conversations'[n] = conversations[n]
    /\ DOMAIN messages \subseteq DOMAIN messages'
    /\ \A i \in DOMAIN messages :
          messages'[i].sender = messages[i].sender /\ messages'[i].conv = messages[i].conv

LEMMA StaysPlaced ==
    ASSUME Grows, NEW c, NEW l, Suits(c, l), Found(c, l), req'[c] = req[c], pc'[c] = l
    PROVE  Placed(c)'
<1>1. Suits(c, pc[c])'
  BY DEF Suits
<1>2. \A n, u : IsMember(n, u) => IsMember(n, u)'
  BY DEF Grows, IsMember
<1>3. \A i, u : IsSender(i, u) => IsSender(i, u)'
  BY DEF Grows, IsSender
<1>4. Found(c, pc[c])'
  BY <1>2, <1>3 DEF Found, Grows, Mine
<1> QED
  BY <1>1, <1>4 DEF Placed

\* A call goes to a label that suits it; the others stay where they are.
LEMMA AllPlaced ==
    ASSUME IInv, Grows, NEW c \in Calls, NEW l, Goto(c, l), req' = req, Suits(c, l), Found(c, l)
    PROVE  pc' \in [Calls -> Labels] /\ \A d \in Calls : Placed(d)'
<1>1. pc \in [Calls -> Labels] /\ l \in Labels
  BY DEF IInv, Suits
<1>2. pc' \in [Calls -> Labels] /\ pc'[c] = l /\ \A d \in Calls \ {c} : pc'[d] = pc[d]
  BY <1>1 DEF Goto
<1>3. Placed(c)'
  BY <1>2, StaysPlaced
<1>4. ASSUME NEW d \in Calls \ {c} PROVE Placed(d)'
  <2>1. Suits(d, pc[d]) /\ Found(d, pc[d])
    BY DEF IInv, Placed
  <2> QED
    BY <1>2, <2>1, StaysPlaced
<1> QED
  BY <1>2, <1>3, <1>4

\* A call that has done its work returns.
LEMMA Returns ==
    ASSUME IInv, Grows, NEW c \in Calls, Return(c), req' = req
    PROVE  pc' \in [Calls -> Labels] /\ \A d \in Calls : Placed(d)'
<1>1. Suits(c, "done") /\ Found(c, "done")
  BY DEF Suits, Found, Labels, AskLabels, OpenLabels, GroupLabels, SendLabels, ChangeLabels
<1> QED
  BY <1>1, AllPlaced DEF Return

\* A step between two queries that change something.
LEMMA Quietly ==
    ASSUME IInv, NEW c \in Calls, pc[c] # "idle", NEW l, l # "idle", Goto(c, l), Suits(c, l), Found(c, l),
           UNCHANGED <<contact_vars, chat_vars, req>>
    PROVE  IInv'
<1>1. Grows
  BY DEF Grows, contact_vars, chat_vars
<1>2. pc' \in [Calls -> Labels] /\ \A d \in Calls : Placed(d)'
  BY <1>1, AllPlaced
<1>3. TypeOK'
  BY DEF IInv, TypeOK, ContactsTypeOK, IsMember, contact_vars, chat_vars
<1>4. OwnWords'
  BY DEF IInv, OwnWords, Goto, chat_vars
<1> QED
  BY <1>2, <1>3, <1>4 DEF IInv

LEMMA QuietSteps ==
    ASSUME IInv, NEW c \in Calls,
           \/ AreContacts(c) \/ Relation(c) \/ RelationSent(c) \/ RelationReceived(c) \/ Incoming(c)
           \/ CheckContact(c) \/ FindDirect(c) \/ LookupFails(c) \/ CheckMembers(c)
           \/ CheckMember(c) \/ FindMessage(c) \/ GetMessage(c) \/ Stop(c),
           UNCHANGED chat_vars
    PROVE  IInv'
<1> USE DEF Labels, AskLabels, OpenLabels, GroupLabels, SendLabels, ChangeLabels
<1>0. Suits(c, pc[c]) /\ Found(c, pc[c])
  BY DEF IInv, Placed
<1>1. ASSUME NEW l \in {"done", "relation", "ask", "sent", "received", "incoming", "accept"},
             pc[c] \in AskLabels \/ (l = "done" /\ pc[c] # "idle"), Goto(c, l),
             UNCHANGED <<contact_vars, req>>
      PROVE  IInv'
  <2>1. Suits(c, l) /\ Found(c, l)
    BY <1>0, <1>1 DEF Suits, Found
  <2> QED
    BY <1>1, <2>1, Quietly
<1>2. CASE AreContacts(c)
  BY <1>1, <1>2 DEF AreContacts, Return
<1>3. CASE Relation(c)
  BY <1>1, <1>3 DEF Relation
<1>4. CASE RelationSent(c)
  BY <1>1, <1>4 DEF RelationSent
<1>5. CASE RelationReceived(c)
  BY <1>1, <1>5 DEF RelationReceived
<1>6. CASE Incoming(c)
  BY <1>1, <1>6 DEF Incoming
<1>7. CASE CheckContact(c)
  <2>1. CASE Return(c)
    BY <1>1, <1>7, <2>1 DEF CheckContact, Return
  <2>2. CASE Goto(c, "direct") /\ Mine(c) \in contacts
    <3>1. Suits(c, "direct") /\ Found(c, "direct")
      BY <1>0, <1>7, <2>2 DEF CheckContact, Suits, Found
    <3> QED
      BY <1>7, <2>2, <3>1, Quietly DEF CheckContact
  <2> QED
    BY <1>7, <2>1, <2>2 DEF CheckContact
<1>8. CASE FindDirect(c)
  <2>1. CASE Return(c)
    BY <1>1, <1>8, <2>1 DEF FindDirect, Return
  <2>2. CASE Goto(c, "new")
    <3>1. Suits(c, "new") /\ Found(c, "new")
      BY <1>0, <1>8 DEF FindDirect, Suits, Found
    <3> QED
      BY <1>8, <2>2, <3>1, Quietly DEF FindDirect
  <2> QED
    BY <1>8, <2>1, <2>2 DEF FindDirect
<1>9. CASE LookupFails(c)
  <2>1. CASE pc[c] = "direct" /\ Goto(c, "blind")
    <3>1. Suits(c, "blind") /\ Found(c, "blind")
      BY <1>0, <2>1 DEF Suits, Found
    <3> QED
      BY <1>9, <2>1, <3>1, Quietly DEF LookupFails
  <2>2. CASE pc[c] = "known" /\ Goto(c, "store")
    <3>1. Suits(c, "store") /\ Found(c, "store")
      BY <1>0, <2>2 DEF Suits, Found
    <3> QED
      BY <1>9, <2>2, <3>1, Quietly DEF LookupFails
  <2>3. CASE pc[c] \in {"sent", "received"} /\ Goto(c, IF pc[c] = "sent" THEN "received" ELSE "ask")
    BY <1>1, <1>9, <2>3 DEF LookupFails
  <2> QED
    BY <1>9, <2>1, <2>2, <2>3 DEF LookupFails
<1>10. CASE CheckMembers(c)
  <2>1. CASE Return(c)
    BY <1>1, <1>10, <2>1 DEF CheckMembers, Return
  <2>2. CASE Goto(c, "found") /\ \A u \in req[c].members \ {req[c].by} : <<req[c].by, u>> \in contacts
    <3>1. Suits(c, "found") /\ Found(c, "found")
      BY <1>0, <1>10, <2>2 DEF CheckMembers, Suits, Found
    <3> QED
      BY <1>10, <2>2, <3>1, Quietly DEF CheckMembers
  <2> QED
    BY <1>10, <2>1, <2>2 DEF CheckMembers
<1>11. CASE CheckMember(c)
  <2>1. CASE Return(c)
    BY <1>1, <1>11, <2>1 DEF CheckMember, Return
  <2>2. ASSUME NEW l, l = (IF req[c].id = NoId THEN "store" ELSE "known"), Goto(c, l),
               IsMember(req[c].conv, req[c].by)
        PROVE  IInv'
    <3>1. Suits(c, l) /\ Found(c, l) /\ l # "idle"
      BY <1>0, <1>11, <2>2 DEF CheckMember, Suits, Found
    <3> QED
      BY <1>11, <2>2, <3>1, Quietly DEF CheckMember
  <2> QED
    BY <1>11, <2>1, <2>2 DEF CheckMember
<1>12. CASE FindMessage(c)
  <2>1. CASE Return(c)
    BY <1>1, <1>12, <2>1 DEF FindMessage, Return
  <2>2. CASE Goto(c, "store")
    <3>1. Suits(c, "store") /\ Found(c, "store")
      BY <1>0, <1>12 DEF FindMessage, Suits, Found
    <3> QED
      BY <1>12, <2>2, <3>1, Quietly DEF FindMessage
  <2> QED
    BY <1>12, <2>1, <2>2 DEF FindMessage
<1>13. CASE GetMessage(c)
  <2>1. CASE Return(c)
    BY <1>1, <1>13, <2>1 DEF GetMessage, Return
  <2>2. ASSUME NEW l, l = (IF pc[c] = "edit" THEN "update" ELSE "mark"),
               Goto(c, l), IsSender(req[c].msg, req[c].by)
        PROVE  IInv'
    <3>1. Suits(c, l) /\ Found(c, l) /\ l # "idle"
      BY <1>0, <1>13, <2>2 DEF GetMessage, Suits, Found
    <3> QED
      BY <1>13, <2>2, <3>1, Quietly DEF GetMessage
  <2> QED
    BY <1>13, <2>1, <2>2 DEF GetMessage
<1>14. CASE Stop(c)
  BY <1>1, <1>14 DEF Stop, Return
<1> QED
  BY <1>2, <1>3, <1>4, <1>5, <1>6, <1>7, <1>8, <1>9, <1>10, <1>11, <1>12, <1>13, <1>14
-----------------------------------------------------------------------------
(* The steps that change something *)

LEMMA ContactsTypes ==
    TypeOK <=> /\ ContactsTypeOK
               /\ conversations \in Seq(ConversationType)
               /\ messages \in Seq(MessageType)
               /\ req \in [Calls -> RequestType]
               /\ \A n \in DOMAIN conversations \ DOMAIN Conversations :
                     \E u \in conversations[n].members :
                         \A v \in conversations[n].members \ {u} : <<u, v>> \in contacts
               /\ \A i \in DOMAIN messages : IsMember(messages[i].conv, messages[i].sender)
BY DEF TypeOK

\* Contacts change and the chat does not.
LEMMA ContactChange ==
    ASSUME IInv, NEW c \in Calls, pc[c] # "idle", Return(c), UNCHANGED <<chat_vars, req>>,
           contacts \subseteq contacts', ContactsTypeOK'
    PROVE  IInv'
<1>1. Grows
  BY DEF Grows, chat_vars
<1>2. pc' \in [Calls -> Labels] /\ \A d \in Calls : Placed(d)'
  BY <1>1, Returns
<1>3. TypeOK'
  BY DEF IInv, TypeOK, IsMember, chat_vars
<1>4. OwnWords'
  BY DEF IInv, OwnWords, Return, Goto, chat_vars
<1> QED
  BY <1>2, <1>3, <1>4 DEF IInv

LEMMA ContactSteps ==
    ASSUME IInv, NEW c \in Calls, Ask(c) \/ Accept(c) \/ Reject(c) \/ Sync(c), UNCHANGED chat_vars
    PROVE  IInv'
<1>0. /\ Mine(c) \in Pairs /\ Theirs(c) \in Pairs
      /\ Theirs(c) = <<Mine(c)[2], Mine(c)[1]>>
      /\ pc[c] # "idle" /\ Return(c) /\ UNCHANGED <<chat_vars, req>>
  <2>1. pc[c] \in AskLabels
    BY DEF Ask, Accept, Reject, Sync, AskLabels
  <2>2. req[c] \in PeerRequest
    BY <2>1 DEF IInv, Placed, Suits
  <2> QED
    BY <2>1, <2>2 DEF PeerRequest, Mine, Theirs, Pairs, Ask, Accept, Reject, Sync
<1>1. ContactsTypeOK
  BY DEF IInv, TypeOK
<1>2. CASE Ask(c)
  <2>1. /\ asked' \in [Pairs -> AskStatuses] /\ contacts' = contacts
        /\ \A p \in Pairs : asked'[p] = "accepted" => asked[p] = "accepted"
    BY <1>0, <1>1, <1>2 DEF Ask, ContactsTypeOK, AskStatuses
  <2>2. ContactsTypeOK'
    BY <1>1, <2>1 DEF ContactsTypeOK, Pairs
  <2> QED
    BY <1>0, <2>1, <2>2, ContactChange
<1>3. CASE Reject(c)
  <2>1. /\ asked' \in [Pairs -> AskStatuses] /\ contacts' = contacts
        /\ \A p \in Pairs : asked'[p] = "accepted" => asked[p] = "accepted"
    BY <1>0, <1>1, <1>3 DEF Reject, ContactsTypeOK, AskStatuses
  <2>2. ContactsTypeOK'
    BY <1>1, <2>1 DEF ContactsTypeOK, Pairs
  <2> QED
    BY <1>0, <2>1, <2>2, ContactChange
<1>4. CASE Sync(c)
  <2>1. contacts' = contacts \cup {Mine(c)} /\ asked' = asked
    BY <1>4 DEF Sync
  <2>2. ContactsTypeOK'
    BY <1>0, <1>1, <2>1 DEF ContactsTypeOK
  <2> QED
    BY <1>0, <2>1, <2>2, ContactChange
<1>5. CASE Accept(c)
  <2>1. CASE asked[Theirs(c)] = "pending"
    <3>1. /\ contacts' = contacts \cup {Mine(c), Theirs(c)}
          /\ asked' \in [Pairs -> AskStatuses]
          /\ \A p \in Pairs \ {Mine(c), Theirs(c)} : asked'[p] = asked[p]
      BY <1>0, <1>1, <1>5, <2>1 DEF Accept, ContactsTypeOK, AskStatuses
    <3>2. ASSUME NEW u \in Users, NEW v \in Users, asked'[<<u, v>>] = "accepted"
          PROVE  {<<u, v>>, <<v, u>>} \subseteq contacts'
      <4>1. CASE <<u, v>> \in {Mine(c), Theirs(c)}
        BY <3>1, <4>1 DEF Mine, Theirs
      <4>2. CASE <<u, v>> \notin {Mine(c), Theirs(c)}
        BY <1>1, <3>1, <3>2, <4>2 DEF ContactsTypeOK, Pairs
      <4> QED
        BY <4>1, <4>2
    <3>3. ContactsTypeOK'
      BY <1>0, <1>1, <3>1, <3>2 DEF ContactsTypeOK
    <3> QED
      BY <1>0, <3>1, <3>3, ContactChange
  <2>2. CASE asked[Theirs(c)] # "pending"
    <3>1. UNCHANGED <<contacts, asked>>
      BY <1>5, <2>2 DEF Accept, contact_vars
    <3>2. ContactsTypeOK'
      BY <1>1, <3>1 DEF ContactsTypeOK
    <3> QED
      BY <1>0, <3>1, <3>2, ContactChange
  <2> QED
    BY <2>1, <2>2
<1> QED
  BY <1>2, <1>3, <1>4, <1>5

LEMMA SeqGrows ==
    ASSUME NEW S, NEW s \in Seq(S), NEW e \in S
    PROVE  /\ Append(s, e) \in Seq(S)
           /\ DOMAIN Append(s, e) = DOMAIN s \cup {Len(s) + 1} /\ Len(s) + 1 \notin DOMAIN s
           /\ Append(s, e)[Len(s) + 1] = e
           /\ \A i \in DOMAIN s : Append(s, e)[i] = s[i]
<1>1. Append(s, e) \in Seq(S)
  BY AppendProperties
<1>2. Len(s) \in Nat /\ DOMAIN s = 1 .. Len(s) /\ DOMAIN Append(s, e) = 1 .. Len(Append(s, e))
  BY <1>1, LenProperties
<1> QED
  BY <1>1, <1>2, AppendProperties

\* A conversation is created by a member whose contacts the others are.
LEMMA NewConversation ==
    ASSUME IInv, NEW c \in Calls, pc[c] # "idle", Return(c), UNCHANGED <<contact_vars, messages, req>>,
           NEW m \in ConversationType, conversations' = Append(conversations, m),
           \E u \in m.members : \A v \in m.members \ {u} : <<u, v>> \in contacts
    PROVE  IInv'
<1> DEFINE n == Len(conversations) + 1
<1>0. conversations \in Seq(ConversationType)
  BY DEF IInv, TypeOK
<1>1. /\ conversations' \in Seq(ConversationType)
      /\ DOMAIN conversations' = DOMAIN conversations \cup {n} /\ n \notin DOMAIN conversations
      /\ conversations'[n] = m
      /\ \A i \in DOMAIN conversations : conversations'[i] = conversations[i]
  BY <1>0, SeqGrows
<1>2. Grows
  BY <1>1 DEF Grows, contact_vars
<1>3. pc' \in [Calls -> Labels] /\ \A d \in Calls : Placed(d)'
  BY <1>2, Returns
<1>4. \A k \in DOMAIN conversations' \ DOMAIN Conversations :
        \E u \in conversations'[k].members :
            \A v \in conversations'[k].members \ {u} : <<u, v>> \in contacts
  BY <1>1 DEF IInv, TypeOK
<1>5. \A i \in DOMAIN messages : IsMember(messages[i].conv, messages[i].sender)'
  BY <1>1 DEF IInv, TypeOK, IsMember
<1>6. TypeOK'
  BY <1>1, <1>4, <1>5 DEF IInv, TypeOK, ContactsTypeOK, contact_vars
<1>7. OwnWords'
  BY DEF IInv, OwnWords, Return, Goto
<1> QED
  BY <1>3, <1>6, <1>7 DEF IInv

LEMMA ConversationSteps ==
    ASSUME IInv, NEW c \in Calls, CreateDirect(c) \/ CreateGroup(c)
    PROVE  IInv'
<1>0. Suits(c, pc[c]) /\ Found(c, pc[c])
  BY DEF IInv, Placed
<1>1. CASE CreateDirect(c)
  <2> DEFINE m == [type |-> "direct", members |-> {req[c].by, req[c].peer}]
  <2>1. req[c] \in PeerRequest /\ Mine(c) \in contacts
    BY <1>0, <1>1 DEF CreateDirect, Suits, Found, OpenLabels
  <2>2. m \in ConversationType
    BY <2>1 DEF PeerRequest, ConversationType
  <2>3. \E u \in m.members : \A v \in m.members \ {u} : <<u, v>> \in contacts
    BY <2>1 DEF Mine
  <2> HIDE DEF m
  <2>4. conversations' = Append(conversations, m) /\ pc[c] # "idle" /\ Return(c)
        /\ UNCHANGED <<contact_vars, messages, req>>
    BY <1>1 DEF CreateDirect, m
  <2> QED
    BY <2>2, <2>3, <2>4, NewConversation
<1>2. CASE CreateGroup(c)
  <2> DEFINE m == [type |-> "group", members |-> req[c].members \cup {req[c].by}]
  <2>1. /\ req[c] \in GroupRequest
        /\ \A u \in req[c].members \ {req[c].by} : <<req[c].by, u>> \in contacts
    BY <1>0, <1>2 DEF CreateGroup, Suits, Found, GroupLabels
  <2>2. m \in ConversationType
    BY <2>1 DEF GroupRequest, ConversationType
  <2>3. \E u \in m.members : \A v \in m.members \ {u} : <<u, v>> \in contacts
    BY <2>1
  <2> HIDE DEF m
  <2>4. conversations' = Append(conversations, m) /\ pc[c] # "idle" /\ Return(c)
        /\ UNCHANGED <<contact_vars, messages, req>>
    BY <1>2 DEF CreateGroup, m
  <2> QED
    BY <2>2, <2>3, <2>4, NewConversation
<1> QED
  BY <1>1, <1>2
-----------------------------------------------------------------------------
(* Messages *)

\* The messages grow by one that its sender wrote, or the words of one change.
LEMMA MessageChange ==
    ASSUME IInv, NEW c \in Calls, pc[c] # "idle", Return(c), UNCHANGED <<contact_vars, conversations, req>>,
           messages' \in Seq(MessageType), DOMAIN messages \subseteq DOMAIN messages',
           \A i \in DOMAIN messages :
               /\ messages'[i].sender = messages[i].sender /\ messages'[i].conv = messages[i].conv
               /\ messages'[i].text \in {messages[i].text, c}
               /\ messages'[i].text = messages[i].text \/ messages[i].sender = req[c].by,
           \A i \in DOMAIN messages' \ DOMAIN messages :
               /\ messages'[i].text = c /\ messages'[i].sender = req[c].by
               /\ IsMember(messages'[i].conv, messages'[i].sender)
    PROVE  IInv'
<1>1. Grows
  BY DEF Grows, contact_vars
<1>2. pc' \in [Calls -> Labels] /\ \A d \in Calls : Placed(d)'
  BY <1>1, Returns
<1>3. (\A i \in DOMAIN messages : IsMember(messages[i].conv, messages[i].sender))'
  BY DEF IInv, TypeOK, IsMember
<1>4. TypeOK'
  BY <1>3 DEF IInv, TypeOK, ContactsTypeOK, contact_vars, IsMember
<1>5. OwnWords'
  <2>1. \A d \in Calls : pc[d] # "idle" => pc'[d] # "idle"
    BY DEF IInv, Return, Goto
  <2>2. \A i \in DOMAIN messages : messages[i] \in MessageType
    BY ElementOfSeq, LenProperties DEF IInv, TypeOK
  <2>3. pc'[c] # "idle"
    BY <2>1
  <2> QED
    BY <2>1, <2>2, <2>3 DEF IInv, OwnWords, MessageType
<1> QED
  BY <1>2, <1>4, <1>5 DEF IInv

\* What the three steps that write messages do to them.
LEMMA CreateMessageEffect ==
    ASSUME IInv, NEW c \in Calls, CreateMessage(c)
    PROVE  /\ NewMessage(c) \in MessageType
           /\ IsMember(req[c].conv, req[c].by)
           /\ messages \in Seq(MessageType)
           /\ \/ messages' = messages
              \/ /\ messages' = Append(messages, NewMessage(c))
                 /\ req[c].id = NoId \/ Known(req[c].conv, req[c].id) = {}
<1>1. req[c] \in SendRequest /\ IsMember(req[c].conv, req[c].by)
  BY DEF IInv, Placed, Suits, Found, CreateMessage, SendLabels
<1>2. req[c].conv \in Nat \ {0}
  <2>1. 0 \notin DOMAIN conversations
    BY LenProperties DEF IInv, TypeOK
  <2> QED
    BY <1>1, <2>1 DEF SendRequest, IsMember
<1> QED
  BY <1>1, <1>2 DEF IInv, TypeOK, NewMessage, SendRequest, MessageType, CreateMessage

LEMMA ChangeEffect ==
    ASSUME IInv, NEW c \in Calls, UpdateMessage(c) \/ MarkDeleted(c)
    PROVE  LET i == req[c].msg
           IN  /\ i \in DOMAIN messages /\ messages[i].sender = req[c].by
               /\ messages \in Seq(MessageType) /\ messages[i] \in MessageType
               /\ \/ messages' = messages
                  \/ ~messages[i].deleted /\ messages' = [messages EXCEPT ![i] = [@ EXCEPT !.text = c]]
                  \/ messages' = [messages EXCEPT ![i] = [@ EXCEPT !.deleted = TRUE]]
<1> DEFINE i == req[c].msg
<1>1. i \in DOMAIN messages /\ messages[i].sender = req[c].by
  BY DEF IInv, Placed, Found, IsSender, UpdateMessage, MarkDeleted
<1>2. messages \in Seq(MessageType)
  BY DEF IInv, TypeOK
<1>3. messages[i] \in MessageType
  BY <1>1, <1>2, ElementOfSeq, LenProperties
<1>4. CASE UpdateMessage(c)
  BY <1>1, <1>2, <1>3, <1>4 DEF UpdateMessage
<1>5. CASE MarkDeleted(c)
  BY <1>1, <1>2, <1>3, <1>5 DEF MarkDeleted
<1> QED
  BY <1>4, <1>5

\* One message is replaced by another one of its sender.
LEMMA Replaced ==
    ASSUME NEW i \in DOMAIN messages, messages \in Seq(MessageType), NEW m \in MessageType,
           messages' = [messages EXCEPT ![i] = m]
    PROVE  /\ messages' \in Seq(MessageType) /\ DOMAIN messages' = DOMAIN messages
           /\ messages'[i] = m /\ \A j \in DOMAIN messages \ {i} : messages'[j] = messages[j]
<1>1. i \in 1 .. Len(messages)
  BY LenProperties
<1>2. messages' \in Seq(MessageType)
  BY <1>1, ExceptSeq
<1> QED
  BY <1>2

LEMMA MessageSteps ==
    ASSUME IInv, NEW c \in Calls, CreateMessage(c) \/ UpdateMessage(c) \/ MarkDeleted(c)
    PROVE  IInv'
<1>0. pc[c] # "idle" /\ Return(c) /\ UNCHANGED <<contact_vars, conversations, req>>
  BY DEF CreateMessage, UpdateMessage, MarkDeleted
<1>1. ASSUME messages' = messages PROVE IInv'
  <2>1. messages' \in Seq(MessageType)
    BY <1>1 DEF IInv, TypeOK
  <2> QED
    BY <1>0, <1>1, <2>1, MessageChange
<1>2. CASE CreateMessage(c)
  <2>1. CASE messages' = Append(messages, NewMessage(c))
    <3>1. /\ messages' \in Seq(MessageType)
          /\ DOMAIN messages' = DOMAIN messages \cup {Len(messages) + 1}
          /\ messages'[Len(messages) + 1] = NewMessage(c)
          /\ \A i \in DOMAIN messages : messages'[i] = messages[i]
      BY <1>2, <2>1, CreateMessageEffect, SeqGrows
    <3>2. /\ NewMessage(c).text = c /\ NewMessage(c).sender = req[c].by
          /\ IsMember(NewMessage(c).conv, req[c].by)
      BY <1>2, CreateMessageEffect DEF NewMessage
    <3> QED
      BY <1>0, <3>1, <3>2, MessageChange
  <2> QED
    BY <1>1, <1>2, <2>1, CreateMessageEffect
<1>3. CASE UpdateMessage(c) \/ MarkDeleted(c)
  <2> DEFINE i == req[c].msg
  <2>1. /\ i \in DOMAIN messages /\ messages[i].sender = req[c].by
        /\ messages \in Seq(MessageType) /\ messages[i] \in MessageType
    BY <1>3, ChangeEffect
  <2>2. ASSUME NEW m \in MessageType, messages' = [messages EXCEPT ![i] = m],
               m.sender = messages[i].sender, m.conv = messages[i].conv, m.text \in {messages[i].text, c}
        PROVE  IInv'
    <3>1. /\ messages' \in Seq(MessageType) /\ DOMAIN messages' = DOMAIN messages
          /\ messages'[i] = m /\ \A j \in DOMAIN messages \ {i} : messages'[j] = messages[j]
      BY <2>1, <2>2, Replaced
    <3> QED
      BY <1>0, <2>1, <2>2, <3>1, MessageChange
  <2>3. CASE messages' = [messages EXCEPT ![i] = [@ EXCEPT !.text = c]]
    <3> DEFINE m == [messages[i] EXCEPT !.text = c]
    <3>1. /\ m \in MessageType /\ m.sender = messages[i].sender /\ m.conv = messages[i].conv
          /\ m.text = c
      BY <2>1 DEF MessageType
    <3>2. messages' = [messages EXCEPT ![i] = m]
      BY <2>3
    <3> QED
      BY <2>2, <3>1, <3>2
  <2>4. CASE messages' = [messages EXCEPT ![i] = [@ EXCEPT !.deleted = TRUE]]
    <3> DEFINE m == [messages[i] EXCEPT !.deleted = TRUE]
    <3>1. /\ m \in MessageType /\ m.sender = messages[i].sender /\ m.conv = messages[i].conv
          /\ m.text = messages[i].text
      BY <2>1 DEF MessageType
    <3>2. messages' = [messages EXCEPT ![i] = m]
      BY <2>4
    <3> QED
      BY <2>2, <3>1, <3>2
  <2> QED
    BY <1>1, <1>3, <2>3, <2>4, ChangeEffect
<1> QED
  BY <1>2, <1>3
-----------------------------------------------------------------------------
(* The invariant *)

LEMMA BeginStep ==
    ASSUME IInv, NEW c \in Calls, NEW r \in Requests, Begin(c, r)
    PROVE  IInv'
<1> DEFINE l == FirstLabel(r.op)
<1>1. /\ pc[c] = "idle" /\ Goto(c, l) /\ req' = [req EXCEPT ![c] = r]
      /\ UNCHANGED <<contact_vars, chat_vars>>
  BY DEF Begin
<1>2. pc \in [Calls -> Labels] /\ req \in [Calls -> RequestType] /\ r \in RequestType
  BY RequestAssumption DEF IInv, TypeOK
<1>3. /\ req' \in [Calls -> RequestType] /\ req'[c] = r
      /\ \A d \in Calls \ {c} : req'[d] = req[d]
  BY <1>1, <1>2
<1>4. /\ l \in {"contacts", "accept", "reject", "sync", "open", "group", "send", "edit", "delete"}
      /\ l \in AskLabels \cup OpenLabels => r \in PeerRequest
      /\ l \in GroupLabels => r \in GroupRequest
      /\ l \in SendLabels => r \in SendRequest
      /\ l \in ChangeLabels => r \in ChangeRequest
  BY <1>2 DEF RequestType, FirstLabel, ContactOps, AskLabels, OpenLabels, GroupLabels, SendLabels, ChangeLabels,
              PeerRequest, GroupRequest, SendRequest, ChangeRequest
<1> HIDE DEF l
<1>5. l \in Labels
  BY <1>4 DEF Labels, AskLabels, OpenLabels, GroupLabels, SendLabels, ChangeLabels
<1>6. pc' \in [Calls -> Labels] /\ pc'[c] = l /\ \A d \in Calls \ {c} : pc'[d] = pc[d]
  BY <1>1, <1>2, <1>5 DEF Goto
<1>7. Placed(c)'
  BY <1>3, <1>4, <1>5, <1>6 DEF Placed, Suits, Found
<1>8. ASSUME NEW d \in Calls \ {c} PROVE Placed(d)'
  <2>1. Suits(d, pc[d]) /\ Found(d, pc[d]) /\ Grows
    BY <1>1 DEF IInv, Placed, Grows, contact_vars, chat_vars
  <2> QED
    BY <1>3, <1>6, <2>1, StaysPlaced
<1>9. TypeOK'
  BY <1>1, <1>3 DEF IInv, TypeOK, ContactsTypeOK, IsMember, contact_vars, chat_vars
<1>10. OwnWords'
  <2>1. \A i \in DOMAIN messages : messages[i] \in MessageType
    BY ElementOfSeq, LenProperties DEF IInv, TypeOK
  <2>2. \A i \in DOMAIN messages : messages[i].text # NoCall => messages[i].text \in Calls \ {c}
    BY <1>1, <2>1 DEF IInv, OwnWords, MessageType
  <2> QED
    BY <1>1, <1>3, <1>6, <2>2 DEF IInv, OwnWords, chat_vars
<1> QED
  BY <1>6, <1>7, <1>8, <1>9, <1>10 DEF IInv

LEMMA Inductive == IInv /\ [Next]_vars => IInv'
<1> SUFFICES ASSUME IInv, [Next]_vars PROVE IInv'
  OBVIOUS
<1>1. CASE UNCHANGED vars
  <2>1. Grows /\ pc' = pc /\ req' = req
    BY <1>1 DEF vars, Grows, contact_vars, chat_vars
  <2>2. \A d \in Calls : Placed(d)'
    BY <2>1, StaysPlaced DEF IInv, Placed
  <2> QED
    BY <1>1, <2>2 DEF IInv, TypeOK, ContactsTypeOK, IsMember, OwnWords, vars, contact_vars, chat_vars
<1>2. CASE Next
  <2>1. PICK c \in Calls : \/ \E r \in Requests : Begin(c, r)
                           \/ ContactStep(c) /\ UNCHANGED chat_vars
                           \/ ChatStep(c)
                           \/ Stop(c)
    BY <1>2 DEF Next
  <2>2. CASE \E r \in Requests : Begin(c, r)
    BY <2>2, BeginStep
  <2>3. CASE ContactStep(c) /\ UNCHANGED chat_vars
    BY <2>3, QuietSteps, ContactSteps DEF ContactStep
  <2>4. CASE CheckContact(c) \/ FindDirect(c) \/ LookupFails(c) \/ CheckMembers(c)
             \/ CheckMember(c) \/ FindMessage(c) \/ GetMessage(c) \/ Stop(c)
    <3>1. UNCHANGED chat_vars
      BY <2>4 DEF CheckContact, FindDirect, LookupFails, CheckMembers, CheckMember, FindMessage, GetMessage, Stop
    <3> QED
      BY <2>4, <3>1, QuietSteps
  <2>5. CASE CreateDirect(c) \/ CreateGroup(c)
    BY <2>5, ConversationSteps
  <2>6. CASE CreateMessage(c) \/ UpdateMessage(c) \/ MarkDeleted(c)
    BY <2>6, MessageSteps
  <2> QED
    BY <2>1, <2>2, <2>3, <2>4, <2>5, <2>6 DEF ChatStep
<1> QED
  BY <1>1, <1>2

LEMMA Initially == Init => IInv
<1> SUFFICES ASSUME Init PROVE IInv
  OBVIOUS
<1>1. req \in [Calls -> RequestType]
  BY RequestAssumption DEF Init
<1>2. \A c \in Calls : pc[c] = "idle"
  BY DEF Init
<1>3. pc \in [Calls -> Labels] /\ \A c \in Calls : Placed(c)
  BY <1>2 DEF Init, Placed, Suits, Found, Labels, AskLabels, OpenLabels, GroupLabels, SendLabels, ChangeLabels
<1>4. ContactsTypeOK
  BY DEF Init, ContactsTypeOK, AskStatuses, Pairs
<1>5. TypeOK
  BY <1>1, <1>4, StartAssumption DEF Init, TypeOK, IsMember
<1>6. OwnWords
  BY StartAssumption DEF Init, OwnWords
<1> QED
  BY <1>3, <1>5, <1>6 DEF IInv

LEMMA Invariance == Spec => []IInv
BY Initially, Inductive, PTL DEF Spec
-----------------------------------------------------------------------------
(* The messages implement MessageLog *)

Entry(m) ==
    [conv |-> m.conv, sender |-> m.sender, id |-> m.id, text |-> m.text, writer |-> m.sender,
     deleted |-> m.deleted]

LEMMA LenOfEntries ==
    ASSUME NEW S, NEW s \in Seq(S), NEW f, f = [i \in DOMAIN s |-> Entry(s[i])]
    PROVE  Len(f) = Len(s) /\ DOMAIN f = DOMAIN s
<1>1. Len(s) \in Nat /\ DOMAIN s = 1 .. Len(s)
  BY LenProperties
<1>2. f \in [1 .. Len(s) -> {Entry(s[i]) : i \in DOMAIN s}]
  BY <1>1
<1> QED
  BY <1>1, <1>2

\* Every message was written by its sender.
LEMMA StoredIs ==
    ASSUME IInv
    PROVE  /\ messages \in Seq(MessageType)
           /\ Stored = [i \in DOMAIN messages |-> Entry(messages[i])]
<1>1. \A i \in DOMAIN messages : Writer(i) = messages[i].sender
  BY DEF IInv, OwnWords, Writer
<1> QED
  BY <1>1 DEF IInv, TypeOK, Stored, Entry

LEMMA StoredIsThen ==
    ASSUME IInv'
    PROVE  /\ messages' \in Seq(MessageType)
           /\ Stored' = [i \in DOMAIN messages' |-> Entry(messages'[i])]
<1>1. \A i \in DOMAIN messages' : Writer(i)' = messages'[i].sender
  BY DEF IInv, OwnWords, Writer
<1> QED
  BY <1>1 DEF IInv, TypeOK, Stored, Entry

\* A new message is posted: none with its identity is found under the lock.
LEMMA Posted ==
    ASSUME IInv, IInv', NEW c \in Calls, CreateMessage(c)
    PROVE  Log!Post \/ Stored' = Stored
<1>1. CASE messages' = messages
  BY <1>1, StoredIs, StoredIsThen
<1>2. CASE /\ messages' = Append(messages, NewMessage(c))
           /\ ~(req[c].id # NoId /\ Known(req[c].conv, req[c].id) # {})
  <2> DEFINE n == Len(messages) + 1
  <2>1. /\ DOMAIN messages' = DOMAIN messages \cup {n} /\ n \notin DOMAIN messages
        /\ messages'[n] = NewMessage(c)
        /\ \A i \in DOMAIN messages : messages'[i] = messages[i]
    BY <1>2, CreateMessageEffect, SeqGrows, StoredIs
  <2>2. /\ Len(Stored) = Len(messages) /\ DOMAIN Stored = DOMAIN messages
        /\ Len(Stored') = Len(messages') /\ DOMAIN Stored' = DOMAIN messages'
    BY LenOfEntries, StoredIs, StoredIsThen
  <2>3. Len(messages') = Len(messages) + 1
    BY <1>2, CreateMessageEffect, AppendProperties, StoredIs
  <2>4. \A i \in DOMAIN Stored : Stored'[i] = Stored[i]
    BY <2>1, <2>2, StoredIs, StoredIsThen
  <2>5. Stored'[n] = Entry(NewMessage(c))
    BY <2>1, StoredIsThen
  <2>6. Log!Live(req[c].conv, req[c].id) = Known(req[c].conv, req[c].id)
    BY <2>2, StoredIs DEF Log!Live, Known, Entry
  <2>7. /\ Stored'[n].writer = Stored'[n].sender /\ ~Stored'[n].deleted
        /\ Stored'[n].conv = req[c].conv /\ Stored'[n].id = req[c].id
    BY <2>5 DEF Entry, NewMessage
  <2> QED
    BY <1>2, <2>2, <2>3, <2>4, <2>6, <2>7 DEF Log!Post
<1> QED
  BY <1>1, <1>2 DEF CreateMessage

\* The sender changes a message that is not deleted.
LEMMA Changed ==
    ASSUME IInv, IInv', NEW c \in Calls, UpdateMessage(c) \/ MarkDeleted(c)
    PROVE  (Log!Change(req[c].msg) /\ req[c].msg \in DOMAIN Stored) \/ Stored' = Stored
<1> DEFINE i == req[c].msg
<1>1. CASE messages' = messages
  BY <1>1, StoredIs, StoredIsThen
<1>2. i \in DOMAIN messages /\ messages[i] \in MessageType
  BY ChangeEffect
<1>3. ASSUME NEW m \in MessageType, messages' = [messages EXCEPT ![i] = m], ~messages[i].deleted,
             m.conv = messages[i].conv, m.sender = messages[i].sender, m.id = messages[i].id
      PROVE  Log!Change(i) /\ i \in DOMAIN Stored
  <2>1. /\ DOMAIN messages' = DOMAIN messages /\ messages'[i] = m
        /\ \A j \in DOMAIN messages \ {i} : messages'[j] = messages[j]
    BY <1>2, <1>3
  <2>2. /\ DOMAIN Stored = DOMAIN messages /\ DOMAIN Stored' = DOMAIN messages
        /\ Stored[i] = Entry(messages[i]) /\ Stored'[i] = Entry(m)
        /\ \A j \in DOMAIN messages \ {i} : Stored'[j] = Stored[j]
    BY <1>2, <2>1, StoredIs, StoredIsThen
  <2> QED
    BY <1>2, <1>3, <2>2 DEF Log!Change, Entry
<1>4. CASE UpdateMessage(c) /\ ~messages[i].deleted
  <2> DEFINE m == [messages[i] EXCEPT !.text = c]
  <2>1. /\ m \in MessageType /\ m.conv = messages[i].conv /\ m.sender = messages[i].sender
        /\ m.id = messages[i].id
    BY <1>2 DEF MessageType
  <2>2. messages' = [messages EXCEPT ![i] = m]
    BY <1>4 DEF UpdateMessage
  <2> QED
    BY <1>3, <1>4, <2>1, <2>2
<1>5. CASE MarkDeleted(c) /\ ~messages[i].deleted
  <2> DEFINE m == [messages[i] EXCEPT !.deleted = TRUE]
  <2>1. /\ m \in MessageType /\ m.conv = messages[i].conv /\ m.sender = messages[i].sender
        /\ m.id = messages[i].id
    BY <1>2 DEF MessageType
  <2>2. messages' = [messages EXCEPT ![i] = m]
    BY <1>5 DEF MarkDeleted
  <2> QED
    BY <1>3, <1>5, <2>1, <2>2
<1>6. CASE messages[i].deleted
  <2>1. CASE UpdateMessage(c)
    BY <1>1, <1>6, <2>1 DEF UpdateMessage
  <2>2. CASE MarkDeleted(c)
    <3>1. [messages[i] EXCEPT !.deleted = TRUE] = messages[i]
      BY <1>2, <1>6 DEF MessageType
    <3>2. messages' = messages
      BY <2>2, <3>1, <1>2, StoredIs DEF MarkDeleted
    <3> QED
      BY <1>1, <3>2
  <2> QED
    BY <2>1, <2>2
<1> QED
  BY <1>4, <1>5, <1>6

LEMMA LogSteps ==
    ASSUME IInv, IInv', [Next]_vars
    PROVE  [Log!LogNext]_Stored
<1>1. ASSUME messages' = messages PROVE Stored' = Stored
  BY <1>1, StoredIs, StoredIsThen
<1>2. CASE UNCHANGED vars
  BY <1>1, <1>2 DEF vars, chat_vars
<1>3. ASSUME NEW c \in Calls, CreateMessage(c) PROVE [Log!LogNext]_Stored
  BY <1>3, Posted DEF Log!LogNext
<1>4. ASSUME NEW c \in Calls, UpdateMessage(c) \/ MarkDeleted(c) PROVE [Log!LogNext]_Stored
  BY <1>4, Changed DEF Log!LogNext
<1>5. ASSUME NEW c \in Calls, ChatStep(c) PROVE [Log!LogNext]_Stored
  <2>1. \/ CreateMessage(c) \/ UpdateMessage(c) \/ MarkDeleted(c)
        \/ messages' = messages
    BY <1>5 DEF ChatStep, CheckContact, FindDirect, LookupFails, CreateDirect, CheckMembers, CreateGroup,
                CheckMember, FindMessage, GetMessage, chat_vars
  <2> QED
    BY <1>1, <1>3, <1>4, <2>1
<1>6. ASSUME NEW c \in Calls,
             \/ \E r \in Requests : Begin(c, r)
             \/ ContactStep(c) /\ UNCHANGED chat_vars
             \/ Stop(c)
      PROVE  Stored' = Stored
  BY <1>1, <1>6 DEF Begin, Stop, chat_vars
<1> QED
  BY <1>2, <1>5, <1>6 DEF Next

LEMMA LogStart == Init => Log!LogInit
<1> SUFFICES ASSUME Init PROVE Log!LogInit
  OBVIOUS
<1>1. IInv
  BY Initially
<1> QED
  BY <1>1, StoredIs DEF Log!LogInit, Entry
-----------------------------------------------------------------------------
\* The tables hold what the code keeps in them; users whose request was accepted
\* are contacts of each other, whoever opened a conversation had the others among
\* the contacts, and messages are sent by members.
THEOREM Typing == Spec => []TypeOK
<1>1. IInv => TypeOK
  BY DEF IInv
<1> QED
  BY <1>1, Invariance, PTL

\* Retries, concurrent sends, edits and deletions in any order: a message is
\* stored once for the identity its client gave it, only its sender changes it,
\* and a deleted one stays as it was.
THEOREM ImplementsLog == Spec => LogSpec
<1>1. Init => Log!LogInit
  BY LogStart
<1>2. IInv /\ IInv' /\ [Next]_vars => [Log!LogNext]_Stored
  BY LogSteps
<1> QED
  BY <1>1, <1>2, Invariance, PTL DEF Spec, LogSpec, Log!LogSpec
-----------------------------------------------------------------------------
(* One conversation *)

\* Two users have a conversation, and the call c is not about to open another one.
Settled(c, u, v) == Direct(u, v) # {} /\ (pc[c] = "new" => {req[c].by, req[c].peer} # {u, v})

Steps(d) == (\E r \in Requests : Begin(d, r)) \/ ContactStep(d) \/ ChatStep(d) \/ Stop(d)

\* Conversations are added and stay as they are.
LEMMA DirectKept ==
    ASSUME IInv, [Next]_vars, NEW u, NEW v, Direct(u, v) # {}
    PROVE  Direct(u, v)' # {}
<1>1. PICK n \in DOMAIN conversations : conversations[n].type = "direct" /\ conversations[n].members = {u, v}
  BY DEF Direct
<1>2. conversations \in Seq(ConversationType)
  BY DEF IInv, TypeOK
<1>3. conversations' = conversations \/ \E m : conversations' = Append(conversations, m)
  BY DEF Next, vars, Begin, ChatStep, CheckContact, FindDirect, LookupFails, CreateDirect, CheckMembers,
         CreateGroup, CheckMember, FindMessage, CreateMessage, GetMessage, UpdateMessage, MarkDeleted,
         Stop, chat_vars
<1>4. n \in DOMAIN conversations' /\ conversations'[n] = conversations[n]
  BY <1>2, <1>3
<1> QED
  BY <1>1, <1>4 DEF Direct

LEMMA SettledAlone ==
    ASSUME IInv, NEW d \in Calls, Steps(d)
    PROVE  \A c \in Calls \ {d} : pc'[c] = pc[c] /\ req'[c] = req[c]
<1> USE DEF IInv, TypeOK, Goto, Return
<1>1. CASE \E r \in Requests : Begin(d, r)
  BY <1>1 DEF Begin
<1>2. CASE ContactStep(d)
  BY <1>2 DEF ContactStep, AreContacts, Relation, RelationSent, RelationReceived, Incoming, Ask, Accept,
              Reject, Sync
<1>3. CASE ChatStep(d) \/ Stop(d)
  BY <1>3 DEF ChatStep, CheckContact, FindDirect, LookupFails, CreateDirect, CheckMembers, CreateGroup,
              CheckMember, FindMessage, CreateMessage, GetMessage, UpdateMessage, MarkDeleted, Stop
<1> QED
  BY <1>1, <1>2, <1>3 DEF Steps

LEMMA SettledStep ==
    ASSUME IInv, NEW c \in Calls, NEW u \in Users, NEW v \in Users, Settled(c, u, v), [Next]_vars
    PROVE  Settled(c, u, v)'
<1>1. Direct(u, v)' # {}
  BY DirectKept DEF Settled
<1>2. ASSUME NEW d \in Calls, Steps(d)
      PROVE  pc'[c] = "new" => {req'[c].by, req'[c].peer} # {u, v}
  <2>1. CASE c # d
    BY <1>2, <2>1, SettledAlone DEF Settled
  <2>2. CASE c = d /\ FindDirect(c)
    <3>1. {req[c].by, req[c].peer} = {u, v} => Direct(req[c].by, req[c].peer) # {}
      BY DEF Settled, Direct
    <3>2. req' = req
      BY <2>2 DEF FindDirect
    <3>3. pc'[c] = "new" => Direct(req[c].by, req[c].peer) = {}
      BY <2>2 DEF FindDirect, IInv, Return, Goto
    <3> QED
      BY <3>1, <3>2, <3>3
  <2>3. CASE c = d /\ ~FindDirect(c)
    <3> USE DEF IInv, Goto, Return
    <3>1. CASE \E r \in Requests : Begin(c, r)
      <4>1. PICK r \in Requests : Begin(c, r)
        BY <3>1
      <4>2. r.op \in ContactOps \cup {"open", "group", "send", "edit", "delete"}
        BY RequestAssumption DEF RequestType
      <4> QED
        BY <4>1, <4>2 DEF Begin, FirstLabel, ContactOps
    <3>2. CASE ContactStep(c)
      BY <3>2 DEF ContactStep, AreContacts, Relation, RelationSent, RelationReceived, Incoming, Ask, Accept,
                  Reject, Sync
    <3>3. CASE ChatStep(c) \/ Stop(c)
      BY <2>3, <3>3 DEF ChatStep, CheckContact, LookupFails, CreateDirect, CheckMembers, CreateGroup,
                  CheckMember, FindMessage, CreateMessage, GetMessage, UpdateMessage, MarkDeleted, Stop
    <3> QED
      BY <1>2, <2>3, <3>1, <3>2, <3>3 DEF Steps
  <2> QED
    BY <2>1, <2>2, <2>3
<1>3. CASE UNCHANGED vars
  BY <1>1, <1>3 DEF vars, Settled
<1> QED
  BY <1>1, <1>2, <1>3 DEF Next, Steps, Settled

\* Once two users have a conversation, a call that begins opens no second one for
\* them unless its look-up fails.
THEOREM SecondsOverlap == Spec => OneConversation
<1>1. ASSUME NEW c \in Calls, NEW u \in Users, NEW v \in Users
      PROVE  Spec => []((pc[c] = "idle" /\ Direct(u, v) # {})
                          => [](pc[c] = "new" => {req[c].by, req[c].peer} # {u, v}))
  <2>1. IInv /\ Settled(c, u, v) /\ [Next]_vars => Settled(c, u, v)'
    BY SettledStep
  <2>2. pc[c] = "idle" /\ Direct(u, v) # {} => Settled(c, u, v)
    BY DEF Settled
  <2>3. Settled(c, u, v) => (pc[c] = "new" => {req[c].by, req[c].peer} # {u, v})
    BY DEF Settled
  <2> QED
    BY <2>1, <2>2, <2>3, Invariance, PTL DEF Spec
<1> QED
  BY <1>1 DEF OneConversation
-----------------------------------------------------------------------------
(* The hub and the connections of the client *)

\* What the variables of the hub hold.
HubTyped ==
    /\ wire \in [Conns -> {"none", "open", "down"}]
    /\ read \in [Conns -> {"none", "registering", "reading", "leaving", "gone"}]
    /\ write \in [Conns -> {"none", "writing", "gone"}]
    /\ buffer \in [Conns -> 0 .. Cap]
    /\ closed \subseteq Conns /\ table \subseteq Conns
    /\ hub \in [do : {"wait", "add", "remove", "close"}, conn : Conns \cup {NoConn}]
    /\ cast \in [Casts -> {"idle", "sending", "done"}]
    /\ todo \in [Casts -> SUBSET Conns]

ClientTyped ==
    /\ socket \in [Conns -> {"none", "open", "closing", "done"}]
    /\ channel \in Conns \cup {NoConn}
    /\ {timer, explicit} \subseteq BOOLEAN
    /\ unheard \subseteq Conns
    /\ \A n \in Conns : socket[n] = "open" => n = channel /\ ~explicit

LEMMA TypeParts == WsTypeOK <=> HubTyped /\ ClientTyped
BY DEF WsTypeOK, HubTyped, ClientTyped

\* While a cast writes, under the read lock, the table cannot change; the one
\* connection that Run is removing is in neither.
Open ==
    /\ \A b \in Casts : todo[b] \subseteq table
    /\ \A b \in Casts : cast[b] # "sending" => todo[b] = {}
    /\ table \cap closed = {}
    /\ \A n \in closed : read[n] = "gone"
    /\ hub.do = "add" => hub.conn \in Conns /\ read[hub.conn] \in {"reading", "leaving"}
    /\ hub.do \in {"remove", "close"} => /\ hub.conn \in Conns
                                         /\ read[hub.conn] = "gone"
                                         /\ hub.conn \notin closed
    /\ hub.do = "close" => hub.conn \notin table

LEMMA FillBound == ASSUME HubTyped, NEW n \in Conns PROVE Fill(n) \in 0 .. Cap
<1>1. buffer[n] \in 0 .. Cap /\ Cap \in Nat
  BY ConnsAssumption DEF HubTyped
<1> QED
  BY <1>1 DEF Fill
-----------------------------------------------------------------------------
(* The steps of the hub *)

LEMMA HubTypes == HubTyped /\ Open /\ HubNext => HubTyped'
<1> SUFFICES ASSUME HubTyped, Open, HubNext PROVE HubTyped'
  OBVIOUS
<1> USE DEF HubTyped, Idle, NoConn
<1>1. CASE Run
  <2>1. hub.do # "wait" => hub.conn \in Conns
    BY DEF Open
  <2> QED
    BY <1>1, <2>1 DEF Run, Add, Remove, Close
<1>2. ASSUME NEW n \in Conns, ReadPump(n) PROVE HubTyped'
  <2>1. CASE Upgrade(n)
    BY <2>1 DEF Upgrade
  <2>2. CASE Register(n)
    BY <2>2 DEF Register
  <2>3. CASE ReadFails(n)
    BY <2>3 DEF ReadFails
  <2>4. CASE Unregister(n)
    BY <2>4 DEF Unregister
  <2> QED
    BY <1>2, <2>1, <2>2, <2>3, <2>4 DEF ReadPump
<1>3. ASSUME NEW n \in Conns, Pong(n) PROVE HubTyped'
  <2>1. Fill(n) \in 0 .. Cap
    BY FillBound
  <2> QED
    BY <1>3, <2>1 DEF Pong
<1>4. ASSUME NEW n \in Conns, WritePump(n) PROVE HubTyped'
  <2>1. CASE Write(n)
    <3>1. buffer[n] - 1 \in 0 .. Cap
      BY <2>1, ConnsAssumption DEF Write
    <3> QED
      BY <2>1, <3>1 DEF Write
  <2>2. CASE WriteEnds(n)
    BY <2>2 DEF WriteEnds
  <2> QED
    BY <1>4, <2>1, <2>2 DEF WritePump
<1>5. ASSUME NEW b \in Casts, CastBegin(b) PROVE HubTyped'
  BY <1>5 DEF CastBegin
<1>6. ASSUME NEW b \in Casts, CastSend(b) PROVE HubTyped'
  <2>1. PICK n \in todo[b] : /\ buffer' = [buffer EXCEPT ![n] = Fill(n)]
                             /\ todo' = [todo EXCEPT ![b] = @ \ {n}]
    BY <1>6 DEF CastSend
  <2>2. Fill(n) \in 0 .. Cap
    BY FillBound
  <2> QED
    BY <1>6, <2>1, <2>2 DEF CastSend
<1>7. ASSUME NEW b \in Casts, CastEnd(b) PROVE HubTyped'
  BY <1>7 DEF CastEnd
<1> QED
  BY <1>1, <1>2, <1>3, <1>4, <1>5, <1>6, <1>7 DEF HubNext, Cast

LEMMA HubOpen == HubTyped /\ Open /\ HubNext => Open'
<1> SUFFICES ASSUME HubTyped, Open, HubNext PROVE Open'
  OBVIOUS
<1> USE DEF HubTyped, Open, Idle, NoConn, Locked
<1>1. CASE Add
  BY <1>1 DEF Add
<1>2. CASE Remove
  BY <1>2 DEF Remove
<1>3. CASE Close
  BY <1>3 DEF Close
<1>4. ASSUME NEW n \in Conns, ReadPump(n) PROVE Open'
  <2>1. CASE Upgrade(n)
    BY <2>1 DEF Upgrade
  <2>2. CASE Register(n)
    BY <2>2 DEF Register
  <2>3. CASE ReadFails(n)
    BY <2>3 DEF ReadFails
  <2>4. CASE Unregister(n)
    BY <2>4 DEF Unregister
  <2> QED
    BY <1>4, <2>1, <2>2, <2>3, <2>4 DEF ReadPump
<1>5. ASSUME NEW n \in Conns, Pong(n) \/ WritePump(n) PROVE Open'
  BY <1>5 DEF Pong, WritePump, Write, WriteEnds
<1>6. ASSUME NEW b \in Casts, CastBegin(b) PROVE Open'
  BY <1>6 DEF CastBegin
<1>7. ASSUME NEW b \in Casts, Cast(b) PROVE Open'
  BY <1>7 DEF Cast, CastSend, CastEnd
<1> QED
  BY <1>1, <1>2, <1>3, <1>4, <1>5, <1>6, <1>7 DEF HubNext, Run
-----------------------------------------------------------------------------
(* The steps of the client and of the network *)

LEMMA ConnectType ==
    ASSUME ClientTyped, NEW n \in Conns, Connect(n)
    PROVE  ClientTyped'
BY ConnsAssumption DEF ClientTyped, Connect, Closed, NoConn

LEMMA ClientTypes == ClientTyped /\ [WsNext]_ws_vars => ClientTyped'
<1> SUFFICES ASSUME ClientTyped, [WsNext]_ws_vars PROVE ClientTyped'
  OBVIOUS
<1>1. CASE UNCHANGED client_vars
  BY <1>1 DEF ClientTyped, client_vars
<1>2. ASSUME NEW n \in Conns, Login(n) \/ TimerFires(n) PROVE ClientTyped'
  BY <1>2, ConnectType DEF Login, TimerFires
<1>3. CASE Logout
  BY <1>3, ConnsAssumption DEF ClientTyped, Logout, Closed, NoConn
<1>4. ASSUME NEW n \in Conns, Done(n) PROVE ClientTyped'
  BY <1>4 DEF ClientTyped, Done, Ends
<1>5. ASSUME NEW n \in Conns, Drop(n) PROVE ClientTyped'
  BY <1>5 DEF ClientTyped, Drop
<1>6. ASSUME NEW n \in Conns, Heard(n) PROVE ClientTyped'
  BY <1>6 DEF ClientTyped, Heard
<1>7. ASSUME NEW n \in Conns, CloseFrame(n) PROVE ClientTyped'
  BY <1>7, <1>1 DEF CloseFrame
<1> QED
  BY <1>1, <1>2, <1>3, <1>4, <1>5, <1>6, <1>7 DEF WsNext, ClientStep, ws_vars

\* What the client and the network change of the hub's state is the connections.
LEMMA OtherSteps ==
    ASSUME HubTyped, Open, [WsNext]_ws_vars, ~HubNext
    PROVE  HubTyped' /\ Open'
<1> USE DEF HubTyped, Open
<1>1. CASE UNCHANGED hub_vars
  BY <1>1 DEF hub_vars
<1>2. ASSUME NEW n \in Conns, Login(n) \/ TimerFires(n) PROVE HubTyped' /\ Open'
  BY <1>2 DEF Login, TimerFires, Connect
<1>3. ASSUME NEW n \in Conns, Drop(n) \/ CloseFrame(n) PROVE HubTyped' /\ Open'
  BY <1>3 DEF Drop, CloseFrame
<1>4. ASSUME NEW n \in Conns, Done(n) \/ Heard(n) PROVE HubTyped' /\ Open'
  BY <1>4, <1>1 DEF Done, Heard
<1>5. CASE Logout
  BY <1>5, <1>1 DEF Logout
<1> QED
  BY <1>1, <1>2, <1>3, <1>4, <1>5 DEF WsNext, ClientStep, ws_vars
-----------------------------------------------------------------------------
LEMMA SocketsInductive == WsSpec => [](HubTyped /\ ClientTyped /\ Open)
<1>1. WsInit => HubTyped /\ ClientTyped /\ Open
  <2> SUFFICES ASSUME WsInit PROVE HubTyped /\ ClientTyped /\ Open
    OBVIOUS
  <2> USE DEF WsInit, HubInit, Idle, NoConn
  <2>1. HubTyped
    <3>1. 0 \in 0 .. Cap
      BY ConnsAssumption
    <3> QED
      BY <3>1 DEF HubTyped
  <2>2. ClientTyped
    BY DEF ClientTyped
  <2>3. Open
    BY DEF Open
  <2> QED
    BY <2>1, <2>2, <2>3
<1>2. HubTyped /\ ClientTyped /\ Open /\ [WsNext]_ws_vars => (HubTyped /\ ClientTyped /\ Open)'
  BY HubTypes, HubOpen, ClientTypes, OtherSteps
<1> QED
  BY <1>1, <1>2, PTL DEF WsSpec

\* The client has one open socket at most, and none after a logout.
THEOREM SocketTyping == WsSpec => []WsTypeOK
BY SocketsInductive, TypeParts, PTL

\* No goroutine ever writes to a closed channel, and none is closed twice.
THEOREM NothingToClosed == WsSpec => []SendsAreOpen
<1>1. HubTyped /\ Open => SendsAreOpen
  BY DEF HubTyped, Open, SendsAreOpen
<1> QED
  BY SocketsInductive, <1>1, PTL
=============================================================================
