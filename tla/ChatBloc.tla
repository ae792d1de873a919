------------------------------ MODULE ChatBloc ------------------------------
(***************************************************************************)
(* The chat state of the app.  The handlers of ChatBloc run concurrently:  *)
(* each is asynchronous, and between two of its awaits the others run.     *)
(* What it shows comes from three sources that race: the answers of the    *)
(* server, the events of the WebSocket, and the messages it shows before   *)
(* the server has them.  Editing, deleting, reactions, receipts, typing,   *)
(* pinning and the creation of conversations are left out, and so is the   *)
(* limit of 50 messages of a load.                                         *)
(***************************************************************************)
EXTENDS Naturals, FiniteSets

CONSTANTS
    Convs,      \* the conversations of the user
    Listed,     \* those in the list at first; the others were created since
    Msgs,       \* the messages: records of conv and from ("me" or "peer")
    Reqs,       \* the loads and sends of the app; each is made once
    MaxLists,   \* bound: the loads of the list and the logouts
    NoConv, NoMsg

ASSUME MsgsAssumption ==
    /\ Msgs \subseteq [conv : Convs, from : {"me", "peer"}, no : Nat]
    /\ Listed \subseteq Convs /\ NoConv \notin Convs /\ NoMsg \notin Msgs /\ MaxLists \in Nat

VARIABLES
    stored,     \* the messages the server has
    link,       \* the WebSocket: "down", "joining" (told connected) or "up" (in the hub's table)
    event,      \* the event of a message: "none", "coming", "learning" its conversation, "over"
    view,       \* the emitted state: the active conversation and the messages shown
    listed,     \* _allConversations
    gens,       \* _messagesGenerations
    listGen,    \* _conversationsGeneration
    lists,      \* the loads of the list that are under way
    known,      \* _wasConnected and _wasDisconnectedAfterConnected: "never", "yes", "lost"
    req,        \* the requests, with the local variables of the handlers that made them
    seen,       \* the state an event's handler read before it asked for the conversation
    missed,     \* history: messages whose event was lost and that no load has shown since
    slip        \* history: a handler has emitted what was not made for the state it found
                \* ("stale"), or messages into another conversation ("misplaced")

vars == <<stored, link, event, view, listed, gens, listGen, lists, known, req, seen, missed, slip>>

NoView == [active |-> NoConv, shown |-> {}]
Unused == [kind |-> "none", conv |-> NoConv, msg |-> NoMsg, gen |-> 0, phase |-> "idle",
           snap |-> {}, base |-> NoView]

Sends == {"text", "media"}
InFlight == {"asked", "answering", "naming"}

Stale(wrong) == slip' = IF wrong /\ slip = "none" THEN "stale" ELSE slip
-----------------------------------------------------------------------------
(* _sortAndDeduplicate *)

\* A message as it is shown.  The bubble that stands for a voice message or a
\* file until it is sent has an identity of its own; a text keeps its client's.
Item(m, bubble, status) == [msg |-> m, bubble |-> bubble, status |-> status]
Main(m) == Item(m, FALSE, "sent")

\* One item a key: those that come first in the list win, and a confirmed bubble
\* has the identity of its message.
Merge(new, old) ==
    LET normal == {IF i.status = "sent" THEN [i EXCEPT !.bubble = FALSE] ELSE i : i \in old}
    IN  new \cup {i \in normal : \A j \in new : <<i.msg, i.bubble>> # <<j.msg, j.bubble>>}

Shown(v, c) == IF v.active = c THEN v.shown ELSE {}
-----------------------------------------------------------------------------
(* Requests *)

Ask(r, kind, c, m, gen) ==
    /\ req[r].phase = "idle"
    /\ req' = [req EXCEPT ![r] = [Unused EXCEPT !.kind = kind, !.conv = c, !.msg = m,
                                                !.gen = gen, !.phase = "asked"]]

\* A handler that ends; of its request only what it was about is kept.
Ended(q) == [q EXCEPT !.gen = 0, !.snap = {}, !.base = NoView]
Done(r) == req' = [req EXCEPT ![r] = [(IF @.kind \in Sends THEN Ended(@) ELSE Unused) EXCEPT !.phase = "done"]]
GiveUp(r, phase) == req' = [req EXCEPT ![r] = [Ended(@) EXCEPT !.phase = phase]]

\* LoadMessages of a screen that is opened, or in the background when the app is
\* resumed, and then of the active conversation.
Open(r, c) ==
    /\ Ask(r, "load", c, NoMsg, gens[c] + 1)
    /\ gens' = [gens EXCEPT ![c] = @ + 1]
    /\ view' = [active |-> c, shown |-> Shown(view, c)]
    /\ UNCHANGED <<stored, link, event, listed, listGen, lists, known, seen, missed, slip>>

AskList(silent) ==
    /\ listGen < MaxLists
    /\ listGen' = listGen + 1
    /\ lists' = lists \cup {[gen |-> listGen + 1, silent |-> silent]}

LoadConversations ==
    /\ AskList(FALSE)
    /\ UNCHANGED <<stored, link, event, view, listed, gens, known, req, seen, missed, slip>>

\* SendTextMessage, SendVoiceMessage and SendMediaMessage, from a screen that was opened.
Send(r, kind, m) ==
    /\ m.from = "me" /\ gens[m.conv] > 0 /\ \A q \in Reqs : req[q].msg # m
    /\ Ask(r, kind, m.conv, m, 0)
    /\ view' = IF view.active # m.conv THEN view
               ELSE [view EXCEPT !.shown = IF kind = "text"
                                           THEN Merge({Item(m, FALSE, "sending")}, @)
                                           ELSE @ \cup {Item(m, TRUE, "sending")}]
    /\ UNCHANGED <<stored, link, event, listed, gens, listGen, lists, known, seen, missed, slip>>
-----------------------------------------------------------------------------
(* The server *)

\* It stores a message and tells who is in the hub's table; a full buffer, or a
\* failing look-up of the members, loses the event.
Store(m) ==
    /\ stored' = stored \cup {m}
    /\ \/ link = "up" /\ event' = [event EXCEPT ![m] = "coming"] /\ UNCHANGED missed
       \/ event' = [event EXCEPT ![m] = "over"] /\ missed' = missed \cup {m}

PeerSends(m) ==
    /\ m.from = "peer" /\ m \notin stored
    /\ Store(m)
    /\ UNCHANGED <<link, view, listed, gens, listGen, lists, known, req, seen, slip>>

\* A message reaches the server, maybe after the app gave up on its answer.
ServeSend(r) ==
    /\ req[r].kind \in Sends /\ req[r].phase \in {"asked", "gone"}
    /\ Store(req[r].msg)
    /\ req' = [req EXCEPT ![r].phase = IF @ = "asked" THEN "answering" ELSE "done"]
    /\ UNCHANGED <<link, view, listed, gens, listGen, lists, known, seen, slip>>

ServeRead(r) ==
    /\ req[r].kind \in {"load", "reload"} /\ req[r].phase = "asked"
    /\ req' = [req EXCEPT ![r].phase = "answering",
                          ![r].snap = {m \in stored : m.conv = req[r].conv}]
    /\ UNCHANGED <<stored, link, event, view, listed, gens, listGen, lists, known, seen, missed, slip>>
-----------------------------------------------------------------------------
(* Answers *)

Current(r) == req[r].gen = gens[req[r].conv]
Loaded(r) == {Main(m) : m \in req[r].snap}

\* The answer of a load is added to what is shown, of whatever conversation.
AfterLoadMixed(r, v) == [active |-> req[r].conv, shown |-> Merge(Loaded(r), v.shown)]

\* It replaces what is shown.
AfterLoadOnly(r, v) == [active |-> req[r].conv, shown |-> Loaded(r)]

\* What the answer of a load makes of a state that it finds.
AfterLoad(r, v) == [active |-> req[r].conv, shown |-> Merge(Loaded(r), Shown(v, req[r].conv))]

\* A later load of the conversation has been asked for.
Ignore(r) ==
    /\ req[r].kind \in {"load", "reload"} /\ req[r].phase \in {"answering", "naming"} /\ ~Current(r)
    /\ GiveUp(r, "ignored")
    /\ UNCHANGED <<stored, link, event, view, listed, gens, listGen, lists, known, seen, missed, slip>>

LoadAnswered(r) ==
    /\ req[r].kind = "load" /\ req[r].phase = "answering" /\ Current(r)
    /\ req[r].conv \in listed
    /\ view' = AfterLoad(r, view)
    /\ Stale(view.active # req[r].conv)
    /\ missed' = missed \ req[r].snap
    /\ Done(r)
    /\ UNCHANGED <<stored, link, event, listed, gens, listGen, lists, known, seen>>

\* The conversation is not in the list: it is asked for before anything is emitted.
AskName(r) ==
    /\ req[r].kind = "load" /\ req[r].phase = "answering" /\ Current(r)
    /\ req[r].conv \notin listed
    /\ req' = [req EXCEPT ![r].phase = "naming", ![r].base = view]
    /\ UNCHANGED <<stored, link, event, view, listed, gens, listGen, lists, known, seen, missed, slip>>

\* What is emitted then was made from the state of before.
Named(r) ==
    /\ req[r].phase = "naming" /\ Current(r)
    /\ view' = AfterLoad(r, req[r].base)
    /\ Stale(req[r].base # view \/ view.active # req[r].conv)
    /\ missed' = missed \ req[r].snap
    /\ Done(r)
    /\ UNCHANGED <<stored, link, event, listed, gens, listGen, lists, known, seen>>

\* The active conversation is loaded again after a reconnect; which one is
\* active now is not looked at.
ReloadAnswered(r) ==
    /\ req[r].kind = "reload" /\ req[r].phase = "answering" /\ Current(r)
    /\ view' = [view EXCEPT !.shown = Merge(Loaded(r), Shown(view, req[r].conv))]
    /\ IF view.active = req[r].conv
       THEN missed' = missed \ req[r].snap /\ UNCHANGED slip
       ELSE slip' = "misplaced" /\ UNCHANGED missed
    /\ Done(r)
    /\ UNCHANGED <<stored, link, event, listed, gens, listGen, lists, known, seen>>

\* The list is answered, or it fails; a reload after a reconnect fails silently.
\* What is not the last load is ignored.
ListAnswered(l) ==
    /\ lists' = lists \ {l}
    /\ IF l.gen = listGen
       THEN /\ listed' = Convs
            /\ view' = IF view.active = NoConv /\ ~l.silent THEN NoView ELSE view
       ELSE UNCHANGED <<listed, view>>
    /\ UNCHANGED <<stored, link, event, gens, listGen, known, req, seen, missed, slip>>

ListFails(l) ==
    /\ lists' = lists \ {l}
    /\ view' = IF l.gen = listGen /\ ~l.silent THEN NoView ELSE view
    /\ UNCHANGED <<stored, link, event, listed, gens, listGen, known, req, seen, missed, slip>>

SendAnswered(r) ==
    /\ req[r].kind \in Sends /\ req[r].phase = "answering"
    /\ view' = IF view.active # req[r].conv THEN view
               ELSE [view EXCEPT !.shown =
                        IF req[r].kind = "text" THEN Merge({Main(req[r].msg)}, @)
                        ELSE {IF i.msg = req[r].msg /\ i.bubble THEN [i EXCEPT !.status = "sent"] ELSE i : i \in @}]
    /\ Done(r)
    /\ UNCHANGED <<stored, link, event, listed, gens, listGen, lists, known, seen, missed, slip>>
-----------------------------------------------------------------------------
(* Requests that fail, or whose answer is lost *)

\* A load that is the last one asked for puts an error in the place of what is
\* shown.  One after a reconnect fails silently: when it superseded a load of the
\* screen, nothing is loaded.
ReadFails(r) ==
    /\ req[r].kind \notin Sends /\ req[r].phase \in InFlight
    /\ view' = IF req[r].kind = "load" /\ Current(r) THEN NoView ELSE view
    /\ Stale(/\ req[r].kind = "reload" /\ Current(r)
             /\ \E q \in Reqs : req[q].kind = "load" /\ req[q].conv = req[r].conv /\ req[q].phase # "done")
    /\ GiveUp(r, "ignored")
    /\ UNCHANGED <<stored, link, event, listed, gens, listGen, lists, known, seen, missed>>

\* The message is marked as failed, whatever the server has made of it.
SendFails(r) ==
    /\ req[r].kind \in Sends /\ req[r].phase \in {"asked", "answering"}
    /\ LET m == req[r].msg
       IN  view' = IF view.active # m.conv THEN view
                   ELSE [view EXCEPT !.shown = {IF i.msg = m /\ (req[r].kind = "text" \/ i.bubble)
                                                THEN [i EXCEPT !.status = "failed"] ELSE i : i \in @}]
    /\ GiveUp(r, IF req[r].phase = "asked" THEN "gone" ELSE "done")
    /\ UNCHANGED <<stored, link, event, listed, gens, listGen, lists, known, seen, missed, slip>>
-----------------------------------------------------------------------------
(* Events *)

\* The event is added without a look at what is shown.
ToldPlain(v, m) == IF v.active = m.conv THEN [v EXCEPT !.shown = @ \cup {Main(m)}] ELSE v

\* It is merged with what is shown of its conversation.
Told(v, m) == IF v.active = m.conv THEN [v EXCEPT !.shown = Merge({Main(m)}, @)] ELSE v

\* message.sent and message.created.  The handler waits for the storage first, so
\* that events may overtake each other; it asks for a conversation it does not know.
Receive(m) ==
    /\ event[m] = "coming"
    /\ view' = Told(view, m)
    /\ IF m.conv \in listed
       THEN event' = [event EXCEPT ![m] = "over"] /\ UNCHANGED seen
       ELSE event' = [event EXCEPT ![m] = "learning"] /\ seen' = [seen EXCEPT ![m] = view]
    /\ UNCHANGED <<stored, link, listed, gens, listGen, lists, known, req, missed, slip>>

\* The conversation is added to the list, and the state of before is emitted.
Learned(m) ==
    /\ event[m] = "learning"
    /\ listed' = listed \cup {m.conv}
    /\ IF seen[m].active = m.conv THEN UNCHANGED <<view, slip>>
       ELSE view' = seen[m] /\ Stale(seen[m] # view)
    /\ event' = [event EXCEPT ![m] = "over"]
    /\ seen' = [seen EXCEPT ![m] = NoView]
    /\ UNCHANGED <<stored, link, gens, listGen, lists, known, req, missed>>

LearnFails(m) ==
    /\ event[m] = "learning"
    /\ event' = [event EXCEPT ![m] = "over"]
    /\ seen' = [seen EXCEPT ![m] = NoView]
    /\ UNCHANGED <<stored, link, view, listed, gens, listGen, lists, known, req, missed, slip>>
-----------------------------------------------------------------------------
(* The connection and the session *)

\* Events on their way are lost with the connection, those that arrived are not.
LoseSome ==
    \E lost \in SUBSET {m \in Msgs : event[m] = "coming"} :
        /\ event' = [m \in Msgs |-> IF m \in lost THEN "over" ELSE event[m]]
        /\ missed' = missed \cup lost

Drop ==
    /\ link # "down"
    /\ link' = "down"
    /\ known' = IF known = "yes" THEN "lost" ELSE known
    /\ LoseSome
    /\ UNCHANGED <<stored, view, listed, gens, listGen, lists, req, seen, slip>>

\* The client reports a connection before the handshake.  If it is not the first
\* one, the active conversation and the list are loaded again.
Connect ==
    /\ link = "down" /\ known # "lost"
    /\ link' = "joining" /\ known' = "yes"
    /\ UNCHANGED <<stored, event, view, listed, gens, listGen, lists, req, seen, missed, slip>>

Reconnect(r) ==
    /\ link = "down" /\ known = "lost"
    /\ link' = "joining" /\ known' = "yes"
    /\ AskList(TRUE)
    /\ LET c == view.active
       IN  IF c = NoConv THEN UNCHANGED <<req, gens>>
           ELSE Ask(r, "reload", c, NoMsg, gens[c] + 1) /\ gens' = [gens EXCEPT ![c] = @ + 1]
    /\ UNCHANGED <<stored, event, view, listed, seen, missed, slip>>

Join ==
    /\ link = "joining"
    /\ link' = "up"
    /\ UNCHANGED <<stored, event, view, listed, gens, listGen, lists, known, req, seen, missed, slip>>

\* A logout.
Reset ==
    /\ listGen < MaxLists
    /\ view' = NoView
    /\ listed' = {}
    /\ known' = "never"
    /\ listGen' = listGen + 1
    /\ gens' = [c \in Convs |-> 0]
    /\ link' = "down"
    /\ LoseSome
    /\ UNCHANGED <<stored, lists, req, seen, slip>>
-----------------------------------------------------------------------------
\* The app is connected; some conversations were created after it loaded the list.
Init ==
    /\ stored = {}
    /\ link = "up" /\ known = "yes"
    /\ event = [m \in Msgs |-> "none"]
    /\ view = NoView
    /\ listed = Listed
    /\ gens = [c \in Convs |-> 0]
    /\ listGen = 0 /\ lists = {}
    /\ req = [r \in Reqs |-> Unused]
    /\ seen = [m \in Msgs |-> NoView]
    /\ missed = {}
    /\ slip = "none"

Request(r) ==
    \/ \E c \in Convs : Open(r, c)
    \/ Reconnect(r)
    \/ \E kind \in Sends, m \in Msgs : Send(r, kind, m)

Answer(r) ==
    \/ ServeSend(r) \/ ServeRead(r) \/ Ignore(r)
    \/ LoadAnswered(r) \/ AskName(r) \/ Named(r)
    \/ ReloadAnswered(r) \/ SendAnswered(r)
    \/ ReadFails(r) \/ SendFails(r)

Next ==
    \/ \E r \in Reqs : Request(r) \/ Answer(r)
    \/ \E m \in Msgs : PeerSends(m) \/ Receive(m) \/ Learned(m) \/ LearnFails(m)
    \/ \E l \in lists : ListAnswered(l) \/ ListFails(l)
    \/ Drop \/ Connect \/ Join \/ Reset \/ LoadConversations

Spec == Init /\ [][Next]_vars
-----------------------------------------------------------------------------
\* The variables hold what the code keeps in them, and a text is shown once,
\* whichever of its answer, its event and a load comes first.
TypeOK ==
    /\ stored \subseteq Msgs /\ missed \subseteq stored /\ listed \subseteq Convs
    /\ link \in {"down", "joining", "up"} /\ known \in {"never", "yes", "lost"}
    /\ event \in [Msgs -> {"none", "coming", "learning", "over"}]
    /\ view.active \in Convs \cup {NoConv}
    /\ \A i \in view.shown : i.msg \in Msgs /\ i.status \in {"sending", "sent", "failed"}
    /\ gens \in [Convs -> Nat] /\ listGen \in Nat
    /\ slip \in {"none", "stale", "misplaced"}
    /\ \A i, j \in view.shown :
          i.msg = j.msg /\ (\A r \in Reqs : req[r].msg = i.msg => req[r].kind # "media") => i = j

\* Only messages of the active conversation are shown, unless a reload after a
\* reconnect was answered while another conversation was active.
OfActive == slip # "misplaced" => \A i \in view.shown : i.msg.conv = view.active

Quiet ==
    /\ \A r \in Reqs : req[r].phase \notin InFlight
    /\ \A m \in Msgs : event[m] \notin {"coming", "learning"}

\* When nothing is under way, every message of the active conversation is shown
\* that the server has, but for those whose event was lost since it was loaded.
\* Only the slips of the handlers (a load answered in another conversation, a state
\* emitted that was read before an await, a reload that failed) make it show less.
CaughtUp ==
    slip = "none" /\ Quiet =>
        \A m \in stored \ missed : m.conv = view.active => \E i \in view.shown : i.msg = m
=============================================================================
