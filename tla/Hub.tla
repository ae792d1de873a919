--------------------------------- MODULE Hub ---------------------------------
(***************************************************************************)
(* The WebSocket hub of the server.  One goroutine (Run) receives the      *)
(* connections to add and to remove over two unbuffered channels; each     *)
(* connection has two pumps, and whoever has something to tell a user      *)
(* writes into the bounded buffer of the connections it finds in the table *)
(* while it holds the read lock.  The connections are those of one user.   *)
(* What a message says does not matter here, only how many a buffer holds. *)
(***************************************************************************)
EXTENDS Naturals, FiniteSets

CONSTANTS
    Conns,      \* the connections, numbered in the order they are made
    Casts,      \* the calls of BroadcastToUser(s); each runs once
    Cap         \* the capacity of the buffer of a connection

ASSUME ConnsAssumption == Conns \subseteq Nat \ {0} /\ Cap \in Nat \ {0}

VARIABLES
    wire,       \* the TCP connection: "none", "open" or "down"
    read,       \* the handler of the connection, and then its read pump
    write,      \* its write pump
    buffer,     \* how many messages its buffer holds
    closed,     \* the connections whose buffer (the Go channel send) is closed
    table,      \* h.connections
    hub,        \* what Run does: a step and the connection it is about
    cast,       \* each cast is "idle", "sending" under the read lock, or "done"
    todo        \* the connections it still has to write to

hub_vars == <<wire, read, write, buffer, closed, table, hub, cast, todo>>

NoConn == 0
Idle == [do |-> "wait", conn |-> NoConn]

Locked == \E b \in Casts : cast[b] = "sending"

Fill(n) == IF buffer[n] < Cap THEN buffer[n] + 1 ELSE buffer[n]
-----------------------------------------------------------------------------
(* HandleWebSocket *)

Upgrade(n) ==
    /\ wire[n] = "open" /\ read[n] = "none"
    /\ read' = [read EXCEPT ![n] = "registering"]
    /\ UNCHANGED <<wire, write, buffer, closed, table, hub, cast, todo>>

\* hub.register <- conn, and the pumps are started.
Register(n) ==
    /\ read[n] = "registering" /\ hub = Idle
    /\ hub' = [do |-> "add", conn |-> n]
    /\ read' = [read EXCEPT ![n] = "reading"]
    /\ write' = [write EXCEPT ![n] = "writing"]
    /\ UNCHANGED <<wire, buffer, closed, table, cast, todo>>
-----------------------------------------------------------------------------
(* Run *)

Add ==
    /\ hub.do = "add" /\ ~Locked
    /\ table' = table \cup {hub.conn}
    /\ hub' = Idle
    /\ UNCHANGED <<wire, read, write, buffer, closed, cast, todo>>

\* The connection is taken out without the lock.
RemoveUnlocked ==
    /\ hub.do = "remove"
    /\ table' = table \ {hub.conn}
    /\ hub' = [hub EXCEPT !.do = "close"]
    /\ UNCHANGED <<wire, read, write, buffer, closed, cast, todo>>

Remove ==
    /\ hub.do = "remove" /\ ~Locked
    /\ table' = table \ {hub.conn}
    /\ hub' = [hub EXCEPT !.do = "close"]
    /\ UNCHANGED <<wire, read, write, buffer, closed, cast, todo>>

Close ==
    /\ hub.do = "close"
    /\ closed' = closed \cup {hub.conn}
    /\ hub' = Idle
    /\ UNCHANGED <<wire, read, write, buffer, table, cast, todo>>
-----------------------------------------------------------------------------
(* BroadcastToUser and BroadcastToUsers *)

CastBegin(b) ==
    /\ cast[b] = "idle"
    /\ cast' = [cast EXCEPT ![b] = "sending"]
    /\ todo' = [todo EXCEPT ![b] = table]
    /\ UNCHANGED <<wire, read, write, buffer, closed, table, hub>>

\* A message for which the buffer has no room is dropped.
CastSend(b) ==
    /\ \E n \in todo[b] :
        /\ buffer' = [buffer EXCEPT ![n] = Fill(n)]
        /\ todo' = [todo EXCEPT ![b] = @ \ {n}]
    /\ UNCHANGED <<wire, read, write, closed, table, hub, cast>>

CastEnd(b) ==
    /\ cast[b] = "sending" /\ todo[b] = {}
    /\ cast' = [cast EXCEPT ![b] = "done"]
    /\ UNCHANGED <<wire, read, write, buffer, closed, table, hub, todo>>
-----------------------------------------------------------------------------
(* readPump *)

\* A ping of the client is answered through the buffer.
Pong(n) ==
    /\ read[n] = "reading" /\ wire[n] = "open"
    /\ buffer' = [buffer EXCEPT ![n] = Fill(n)]
    /\ UNCHANGED <<wire, read, write, closed, table, hub, cast, todo>>

ReadFails(n) ==
    /\ read[n] = "reading" /\ wire[n] = "down"
    /\ read' = [read EXCEPT ![n] = "leaving"]
    /\ UNCHANGED <<wire, write, buffer, closed, table, hub, cast, todo>>

\* hub.unregister <- conn
Unregister(n) ==
    /\ read[n] = "leaving" /\ hub = Idle
    /\ hub' = [do |-> "remove", conn |-> n]
    /\ read' = [read EXCEPT ![n] = "gone"]
    /\ UNCHANGED <<wire, write, buffer, closed, table, cast, todo>>
-----------------------------------------------------------------------------
(* writePump *)

\* A message is written, or it fails and the pump ends with the connection.
Write(n) ==
    /\ write[n] = "writing" /\ buffer[n] > 0
    /\ buffer' = [buffer EXCEPT ![n] = @ - 1]
    /\ write' = IF wire[n] = "open" THEN write ELSE [write EXCEPT ![n] = "gone"]
    /\ UNCHANGED <<wire, read, closed, table, hub, cast, todo>>

\* The buffer is empty and closed, or a ping of the server fails.
WriteEnds(n) ==
    /\ write[n] = "writing"
    /\ (n \in closed /\ buffer[n] = 0) \/ wire[n] = "down"
    /\ write' = [write EXCEPT ![n] = "gone"]
    /\ UNCHANGED <<wire, read, buffer, closed, table, hub, cast, todo>>
-----------------------------------------------------------------------------
HubInit ==
    /\ wire = [n \in Conns |-> "none"]
    /\ read = [n \in Conns |-> "none"]
    /\ write = [n \in Conns |-> "none"]
    /\ buffer = [n \in Conns |-> 0]
    /\ closed = {}
    /\ table = {}
    /\ hub = Idle
    /\ cast = [b \in Casts |-> "idle"]
    /\ todo = [b \in Casts |-> {}]

Run == Add \/ Remove \/ Close
ReadPump(n) == Upgrade(n) \/ Register(n) \/ ReadFails(n) \/ Unregister(n)
WritePump(n) == Write(n) \/ WriteEnds(n)
Cast(b) == CastSend(b) \/ CastEnd(b)

HubNext ==
    \/ Run
    \/ \E n \in Conns : ReadPump(n) \/ Pong(n) \/ WritePump(n)
    \/ \E b \in Casts : CastBegin(b) \/ Cast(b)

\* Every goroutine that can run is run; Go's lock lets a waiting writer in, and
\* a read or a ping notices a dead connection within pongWait.  A goroutine that
\* waits at hub.register or hub.unregister is received from in turn.
HubFairness ==
    /\ WF_hub_vars(Run)
    /\ \A n \in Conns : SF_hub_vars(ReadPump(n)) /\ WF_hub_vars(WritePump(n))
    /\ \A b \in Casts : WF_hub_vars(Cast(b))
-----------------------------------------------------------------------------
\* No goroutine writes to a closed buffer and no buffer is closed twice, either
\* of which would stop the server.
SendsAreOpen ==
    /\ \A b \in Casts : todo[b] \cap closed = {}
    /\ \A n \in closed : read[n] = "gone"
    /\ hub.do \in {"remove", "close"} => hub.conn \notin closed
    /\ table \cap closed = {}
=============================================================================
