------------------------------ MODULE WsClient ------------------------------
(***************************************************************************)
(* The WebSocket client of the app against the hub: one socket, reconnects *)
(* after it broke, callbacks of sockets that were closed.  The event loop  *)
(* runs one callback at a time.  The delay of a reconnect is not modelled. *)
(* A handshake that the server refuses is a connection that breaks.  The   *)
(* server notices every break by its pings; the app sends none, and has no *)
(* timer for a connection on which nothing comes any more.                 *)
(***************************************************************************)
EXTENDS Hub

VARIABLES
    socket,     \* the client's side: "none", "open", "closing" or "done"
    channel,    \* _channel
    timer,      \* _reconnectTimer is set
    explicit,   \* _isExplicitlyDisconnected, as of a logout; then there is no token
    unheard     \* the connections that broke and the app has not heard of it

client_vars == <<socket, channel, timer, explicit, unheard>>
ws_vars == <<hub_vars, client_vars>>

Made == {n \in Conns : socket[n] # "none"}
Fresh == {n \in Conns \ Made : \A k \in Made : k < n}
Closed(s) == IF channel # NoConn /\ s[channel] = "open" THEN [s EXCEPT ![channel] = "closing"] ELSE s

\* The new socket without closing the one there is.
ConnectAnother(n) ==
    /\ socket' = [socket EXCEPT ![n] = "open"]
    /\ wire' = [wire EXCEPT ![n] = "open"]
    /\ channel' = n
    /\ timer' = FALSE
    /\ explicit' = FALSE
    /\ UNCHANGED unheard

\* connect(): a socket that is still there is closed, and its end is reported
\* later by its own callback.
Connect(n) ==
    /\ socket' = [Closed(socket) EXCEPT ![n] = "open"]
    /\ wire' = [wire EXCEPT ![n] = "open"]
    /\ channel' = n
    /\ timer' = FALSE
    /\ explicit' = FALSE
    /\ UNCHANGED unheard

\* connectWithToken(), at a login, and again when AuthBloc tells it again or the app
\* is resumed; whether the sockets of the time before have ended or not.
Login(n) ==
    /\ n \in Fresh
    /\ Connect(n)
    /\ UNCHANGED <<read, write, buffer, closed, table, hub, cast, todo>>

TimerFires(n) ==
    /\ timer
    /\ n \in Fresh
    /\ Connect(n)
    /\ UNCHANGED <<read, write, buffer, closed, table, hub, cast, todo>>

\* disconnect()
Logout ==
    /\ ~explicit
    /\ explicit' = TRUE
    /\ timer' = FALSE
    /\ socket' = Closed(socket)
    /\ channel' = NoConn
    /\ UNCHANGED <<hub_vars, unheard>>

\* A socket ends when the app hears that its connection broke; one that is being
\* closed ends in any case.
Ends(n) ==
    /\ wire[n] = "down"
    /\ \/ socket[n] = "open" /\ n \notin unheard
       \/ socket[n] = "closing"
    /\ socket' = [socket EXCEPT ![n] = "done"]
    /\ unheard' = unheard \ {n}

\* The end of a socket is reported without a reconnect.
DoneQuietly(n) ==
    /\ Ends(n)
    /\ UNCHANGED <<hub_vars, channel, timer, explicit>>

\* onDone or onError of a socket, whether it is the current one or not.
Done(n) ==
    /\ Ends(n)
    /\ timer' = (timer \/ ~explicit)
    /\ UNCHANGED <<hub_vars, channel, explicit>>
-----------------------------------------------------------------------------
(* The network *)

\* A connection breaks, and the app hears of it or not.
\* Bound: the last connection does not break.
Drop(n) ==
    /\ wire[n] = "open" /\ Fresh # {}
    /\ wire' = [wire EXCEPT ![n] = "down"]
    /\ unheard' \in {unheard, unheard \cup {n}}
    /\ UNCHANGED <<read, write, buffer, closed, table, hub, cast, todo>>
    /\ UNCHANGED <<socket, channel, timer, explicit>>

\* Something that the app sends, a typing notice, is not acknowledged for too long.
Heard(n) ==
    /\ n \in unheard
    /\ unheard' = unheard \ {n}
    /\ UNCHANGED <<hub_vars, socket, channel, timer, explicit>>

\* A side that closes the connection takes the other one down.
CloseFrame(n) ==
    /\ wire[n] = "open" /\ (socket[n] = "closing" \/ read[n] = "gone" \/ write[n] = "gone")
    /\ wire' = [wire EXCEPT ![n] = "down"]
    /\ UNCHANGED <<read, write, buffer, closed, table, hub, cast, todo, client_vars>>
-----------------------------------------------------------------------------
WsInit ==
    /\ HubInit
    /\ socket = [n \in Conns |-> "none"]
    /\ channel = NoConn
    /\ timer = FALSE
    /\ explicit = TRUE
    /\ unheard = {}

ClientStep == \E n \in Conns : Done(n) \/ TimerFires(n) \/ CloseFrame(n)

WsNext ==
    \/ HubNext /\ UNCHANGED client_vars
    \/ ClientStep
    \/ \E n \in Conns : Login(n) \/ Drop(n) \/ Heard(n)
    \/ Logout

WsSpec == WsInit /\ [][WsNext]_ws_vars

\* A callback that is due is run, and a close frame arrives or is given up.  Nothing
\* makes the app send on a connection that broke unheard.
FairSpec == WsSpec /\ HubFairness /\ WF_ws_vars(ClientStep)
-----------------------------------------------------------------------------
\* The variables hold what the code keeps in them; the client never has a second
\* open socket, nor one after a logout.
WsTypeOK ==
    /\ wire \in [Conns -> {"none", "open", "down"}]
    /\ read \in [Conns -> {"none", "registering", "reading", "leaving", "gone"}]
    /\ write \in [Conns -> {"none", "writing", "gone"}]
    /\ buffer \in [Conns -> 0 .. Cap]
    /\ closed \subseteq Conns /\ table \subseteq Conns
    /\ hub \in [do : {"wait", "add", "remove", "close"}, conn : Conns \cup {NoConn}]
    /\ cast \in [Casts -> {"idle", "sending", "done"}]
    /\ todo \in [Casts -> SUBSET Conns]
    /\ socket \in [Conns -> {"none", "open", "closing", "done"}]
    /\ channel \in Conns \cup {NoConn}
    /\ {timer, explicit} \subseteq BOOLEAN
    /\ unheard \subseteq Conns
    /\ \A n \in Conns : socket[n] = "open" => n = channel /\ ~explicit

\* A socket that the app closed itself, at a logout or for another login, has not
\* ended when the next one is open.  Its callback then reconnects, which closes that
\* one, whose callback...
Stale == ~explicit /\ \E n \in Conns : socket[n] = "closing"

\* When the network stops breaking connections, the hub ends up with the socket
\* of the client in its table and no other one, or with none after a logout,
\* unless the app closes one socket to open another, or never hears of a break.
Reconnects ==
    []~Stale /\ []<>(unheard = {})
        => <>[](table = (IF explicit THEN {} ELSE {channel}) /\ hub = Idle)
=============================================================================
