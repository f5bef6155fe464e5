------------------------------ MODULE Awareness ------------------------------
(***************************************************************************)
(* Presence in one session: the server's AwarenessStore (presence.py), the *)
(* room's handlers that use it (websocket.py), and the browsers' awareness *)
(* as y-websocket and y-protocols run it.  A browser that reconnects keeps *)
(* its client identifier and its clock, so that for a while two            *)
(* connections of the room may speak for the same client.                  *)
(*                                                                         *)
(* Each awareness state is reduced to being there or not, each frame to    *)
(* one entry.  What the server sends to a connection arrives in any order: *)
(* broadcasts of different handlers overtake each other.  A heartbeat may  *)
(* be late at any time.  Connections that are being closed for a revoked   *)
(* role, to which nothing is sent, are left to Authorization.              *)
(***************************************************************************)
EXTENDS Integers, Sequences

CONSTANTS
    Clients,        \* Yjs client identifiers
    Sockets,        \* WebSocket connections
    Nobody,
    MaxClock,       \* bound: the awareness clock of each client
    MaxFrames       \* bound: awareness frames on their way from a browser

ASSUME AwarenessAssumption ==
    /\ Nobody \notin Clients \cup Sockets
    /\ MaxClock \in [Clients -> Nat \ {0}] /\ MaxFrames \in Nat \ {0}

VARIABLES
    room,           \* _rooms: the connections of the session
    pc,             \* where the handler of each connection is
    store,          \* AwarenessStore: clock, whether active, owner
    conn,           \* the client at the other end of each connection
    up,             \* frames that the server has not handled
    wire,           \* entries that the browser has not received
    current,        \* the connection that each browser uses
    clock,          \* the browser's own clock
    view            \* what each browser shows of each client

server == <<room, pc, store, conn>>
browser == <<current, clock, view>>
vars == <<server, up, wire, browser>>

Entry(c, n, there) == [client |-> c, clock |-> n, active |-> there]
Clocks == UNION {0 .. MaxClock[c] : c \in Clients}
Entries == [client : Clients, clock : Clocks \ {0}, active : BOOLEAN]
Absent == [clock |-> 0, active |-> FALSE, owner |-> Nobody]
Unseen == [clock |-> 0, active |-> FALSE]

TypeOK ==
    /\ room \subseteq Sockets
    /\ pc \in [Sockets -> {"free", "join", "greet", "receive"}]
    /\ \A s \in Sockets : s \in room <=> pc[s] \in {"greet", "receive"}
    /\ store \in [Clients -> [clock : Clocks, active : BOOLEAN,
                              owner : Sockets \cup {Nobody}]]
    /\ conn \in [Sockets -> Clients \cup {Nobody}]
    /\ up \in [Sockets -> Seq(Entries)]
    /\ wire \in [Sockets -> SUBSET Entries]
    /\ current \in [Clients -> Sockets \cup {Nobody}]
    /\ clock \in [Clients -> Clocks \ {0}]
    /\ view \in [Clients -> [Clients -> [clock : Clocks, active : BOOLEAN]]]

(* A browser sets its user field, hence clock 1, before it connects.       *)
Init ==
    /\ room = {}
    /\ pc = [s \in Sockets |-> "free"]
    /\ store = [c \in Clients |-> Absent]
    /\ conn = [s \in Sockets |-> Nobody]
    /\ up = [s \in Sockets |-> <<>>]
    /\ wire = [s \in Sockets |-> {}]
    /\ current = [c \in Clients |-> Nobody]
    /\ clock = [c \in Clients |-> 1]
    /\ view = [c \in Clients |-> [d \in Clients |-> Unseen]]

-----------------------------------------------------------------------------
(***************************************************************************)
(* AwarenessStore                                                          *)
(***************************************************************************)
(* An equal clock replaces the state as well.                              *)
Mut_ShouldApply(e) == store[e.client].clock <= e.clock

(* y-protocols' rule: a newer clock, or a removal at the same clock.       *)
ShouldApply(e) ==
    \/ store[e.client].clock < e.clock
    \/ store[e.client].clock = e.clock /\ ~e.active /\ store[e.client].active

Stored(e, s) == [clock |-> e.clock, active |-> e.active,
                 owner |-> IF e.active THEN s ELSE Nobody]

Active == {c \in Clients : store[c].active}
ActiveEntries == {Entry(c, store[c].clock, TRUE) : c \in Active}

(* The removals that prune_stale and remove_owner report for clients gone. *)
Removals(gone) == {Entry(c, store[c].clock, FALSE) : c \in gone}
MarkRemoved(gone) ==
    [c \in Clients |-> IF c \in gone THEN [Absent EXCEPT !.clock = store[c].clock]
                                     ELSE store[c]]

OwnedBy(s) == {c \in Active : store[c].owner = s}

-----------------------------------------------------------------------------
(***************************************************************************)
(* The room's handlers                                                     *)
(***************************************************************************)
(* A browser hears the server on the connection that it uses, and ignores  *)
(* the echo of its own state.                                              *)
Hears(s) == conn[s] # Nobody /\ current[conn[s]] = s
News(s, entries) == {e \in entries : e.client = conn[s] => ~e.active}

Broadcast(entries, members) ==
    wire' = [s \in Sockets |-> IF s \in members /\ Hears(s)
                               THEN wire[s] \cup News(s, entries) ELSE wire[s]]

(* The connection is added only when the room was empty.                   *)
Mut_Join(s) ==
    /\ pc[s] = "join"
    /\ room' = IF room = {} THEN {s} ELSE room
    /\ pc' = [pc EXCEPT ![s] = "greet"]
    /\ UNCHANGED <<store, conn, up, wire, browser>>

Join(s) ==
    /\ pc[s] = "join"
    /\ room' = room \cup {s}
    /\ pc' = [pc EXCEPT ![s] = "greet"]
    /\ UNCHANGED <<store, conn, up, wire, browser>>

(* The newcomer gets the states that are active now.                       *)
Greet(s) ==
    /\ pc[s] = "greet"
    /\ Broadcast(ActiveEntries, {s})
    /\ pc' = [pc EXCEPT ![s] = "receive"]
    /\ UNCHANGED <<room, store, conn, up, browser>>

(* Stale states are removed and nobody is told.                            *)
Mut_Prune(s) ==
    /\ pc[s] = "receive"
    /\ \E stale \in SUBSET Active \ {{}} : store' = MarkRemoved(stale)
    /\ UNCHANGED <<room, pc, conn, up, wire, browser>>

(* A frame of any kind arrives.  States without a heartbeat for longer     *)
(* than AWARENESS_TIMEOUT, any set of them, are removed and reported; the  *)
(* reports are awaited, so that handling the frame is a step of its own,   *)
(* and one that changes nothing unless the frame is about awareness.       *)
Prune(s) ==
    /\ pc[s] = "receive"
    /\ \E stale \in SUBSET Active \ {{}} :
          /\ store' = MarkRemoved(stale)
          /\ Broadcast(Removals(stale), room)
    /\ UNCHANGED <<room, pc, conn, up, browser>>

(* An awareness frame: what is accepted is echoed to everybody.            *)
Apply(s) ==
    /\ pc[s] = "receive"
    /\ up[s] # <<>>
    /\ LET e == Head(up[s]) IN
         IF ShouldApply(e)
           THEN /\ store' = [store EXCEPT ![e.client] = Stored(e, s)]
                /\ Broadcast({e}, room)
           ELSE UNCHANGED <<store, wire>>
    /\ up' = [up EXCEPT ![s] = Tail(@)]
    /\ UNCHANGED <<room, pc, conn, browser>>

AnswerQuery(s) ==
    /\ pc[s] = "receive"
    /\ Broadcast(ActiveEntries, {s})
    /\ UNCHANGED <<room, pc, store, conn, up, browser>>

-----------------------------------------------------------------------------
(* y-websocket loses its connection: it hides everyone else.               *)
Hidden(c) == [d \in Clients |-> [view[c][d] EXCEPT !.active = FALSE]]
LoseConnection(c) ==
    /\ current' = [current EXCEPT ![c] = Nobody]
    /\ view' = [view EXCEPT ![c] = Hidden(c)]
    /\ UNCHANGED clock

EndSocket(s) ==
    /\ pc' = [pc EXCEPT ![s] = "free"]
    /\ conn' = [conn EXCEPT ![s] = Nobody]
    /\ up' = [up EXCEPT ![s] = <<>>]
    /\ IF Hears(s) THEN LoseConnection(conn[s]) ELSE UNCHANGED browser

(* A connection that leaves takes the clocks of its clients with it.       *)
Mut_Left(s) == [c \in Clients |-> IF c \in OwnedBy(s) THEN Absent ELSE store[c]]

(* What the store holds once s has left: nothing after the last connection.*)
Left(s) == IF room = {s} THEN [c \in Clients |-> Absent] ELSE MarkRemoved(OwnedBy(s))

(* The connection ends, from either side or by an error.  Its states are   *)
(* removed, and reported to those who stay.                                *)
LeaveRoom(s) ==
    /\ s \in room
    /\ room' = room \ {s}
    /\ store' = Left(s)
    /\ wire' = [t \in Sockets |->
                  IF t = s THEN {}
                  ELSE IF t \in room /\ Hears(t) THEN wire[t] \cup Removals(OwnedBy(s))
                  ELSE wire[t]]
    /\ EndSocket(s)

(* The connection ends before it has joined.                               *)
NotJoined(s) ==
    /\ pc[s] = "join"
    /\ EndSocket(s)
    /\ UNCHANGED <<room, store, wire>>

(* The process dies: all connections and the store are gone.               *)
Crash ==
    /\ room' = {}
    /\ pc' = [s \in Sockets |-> "free"]
    /\ store' = [c \in Clients |-> Absent]
    /\ conn' = [s \in Sockets |-> Nobody]
    /\ up' = [s \in Sockets |-> <<>>]
    /\ wire' = [s \in Sockets |-> {}]
    /\ current' = [c \in Clients |-> Nobody]
    /\ view' = [c \in Clients |-> Hidden(c)]
    /\ UNCHANGED clock

-----------------------------------------------------------------------------
(***************************************************************************)
(* The browsers: y-websocket and y-protocols/awareness                     *)
(***************************************************************************)
(* A connection opens and the local state is sent, at its present clock.   *)
Open(c) ==
    \E s \in Sockets :
        /\ current[c] = Nobody
        /\ pc[s] = "free"
        /\ pc' = [pc EXCEPT ![s] = "join"]
        /\ conn' = [conn EXCEPT ![s] = c]
        /\ up' = [up EXCEPT ![s] = <<Entry(c, clock[c], TRUE)>>]
        /\ current' = [current EXCEPT ![c] = s]
        /\ UNCHANGED <<room, store, wire, clock, view>>

(* The browser's connection drops; the server need not notice.             *)
Drop(c) ==
    /\ current[c] # Nobody
    /\ LoseConnection(c)
    /\ wire' = [wire EXCEPT ![current[c]] = {}]
    /\ UNCHANGED <<server, up>>

SendUp(c, e) ==
    up' = IF current[c] = Nobody THEN up ELSE [up EXCEPT ![current[c]] = Append(@, e)]
CanSend(c) == \A s \in Sockets : s = current[c] => Len(up[s]) < MaxFrames

(* A heartbeat or a moved cursor: a new clock.                             *)
Heartbeat(c) ==
    /\ clock[c] < MaxClock[c]
    /\ CanSend(c)
    /\ clock' = [clock EXCEPT ![c] = @ + 1]
    /\ SendUp(c, Entry(c, clock[c] + 1, TRUE))
    /\ UNCHANGED <<server, wire, current, view>>

(* The server says that the browser itself is gone: it announces itself    *)
(* again.                                                                  *)
HearOfSelf(c, e) ==
    /\ e.client = c
    /\ IF ~e.active /\ e.clock >= clock[c] /\ e.clock < MaxClock[c]
         THEN /\ clock' = [clock EXCEPT ![c] = e.clock + 1]
              /\ SendUp(c, Entry(c, e.clock + 1, TRUE))
         ELSE UNCHANGED <<clock, up>>
    /\ UNCHANGED <<current, view>>

(* What is new about another client is shown, and sent back as well.       *)
HearOfPeer(c, e) ==
    /\ e.client # c
    /\ IF \/ view[c][e.client].clock < e.clock
          \/ view[c][e.client].clock = e.clock /\ ~e.active /\ view[c][e.client].active
         THEN /\ view' = [view EXCEPT ![c][e.client] = [clock |-> e.clock, active |-> e.active]]
              /\ SendUp(c, e)
         ELSE UNCHANGED <<view, up>>
    /\ UNCHANGED <<current, clock>>

Deliver(c) ==
    /\ current[c] # Nobody
    /\ CanSend(c)
    /\ \E e \in wire[current[c]] :
          /\ wire' = [wire EXCEPT ![current[c]] = @ \ {e}]
          /\ HearOfSelf(c, e) \/ HearOfPeer(c, e)
    /\ UNCHANGED server

(* Without news of a peer for too long, the browser hides it and says so.  *)
HidePeer(c) ==
    /\ current[c] # Nobody
    /\ CanSend(c)
    /\ \E d \in Clients \ {c} :
          /\ view[c][d].active
          /\ view' = [view EXCEPT ![c][d].active = FALSE]
          /\ SendUp(c, Entry(d, view[c][d].clock, FALSE))
    /\ UNCHANGED <<server, wire, current, clock>>

-----------------------------------------------------------------------------
SocketStep(s) ==
    \/ Join(s) \/ Greet(s) \/ Prune(s) \/ Apply(s) \/ AnswerQuery(s)
    \/ LeaveRoom(s) \/ NotJoined(s)
BrowserStep(c) == Open(c) \/ Drop(c) \/ Heartbeat(c) \/ Deliver(c) \/ HidePeer(c)

Next ==
    \/ \E s \in Sockets : SocketStep(s)
    \/ \E c \in Clients : BrowserStep(c)
    \/ Crash

Spec == Init /\ [][Next]_vars

-----------------------------------------------------------------------------
(***************************************************************************)
(* Properties                                                              *)
(***************************************************************************)
(* A state that the server shows belongs to a connection of the room, and  *)
(* to that client's own, although browsers send each other's states back:  *)
(* so it is removed when its browser goes, and only then                   *)
(* (AwarenessStore.apply_update, remove_owner).                            *)
PresenceIsOwned ==
    \A c \in Clients : store[c].active =>
        store[c].owner \in room /\ conn[store[c].owner] = c

(* A browser that still shows a client whom the server has removed will be *)
(* told (websocket._broadcast_awareness, _leave_room, _prune_stale...).    *)
RemovalReaches ==
    \A c, d \in Clients :
        /\ c # d /\ current[c] \in room
        /\ view[c][d].active /\ ~store[d].active
        => \E e \in wire[current[c]] :
              e.client = d /\ ~e.active /\ e.clock >= view[c][d].clock

(* Once a browser's frames are handled the server knows its clock, neither *)
(* an older nor a newer one: the next heartbeat is accepted, and brings    *)
(* back a presence that was removed (AwarenessStore.apply_update,          *)
(* discard_session).                                                       *)
ClockIsKnown ==
    \A c \in Clients :
        /\ store[c].clock <= clock[c]
        /\ current[c] \in room /\ up[current[c]] = <<>> => store[c].clock = clock[c]

=============================================================================
