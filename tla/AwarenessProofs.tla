---------------------------- MODULE AwarenessProofs ----------------------------
(***************************************************************************)
(* Proofs about Awareness, for any number of clients and connections, any  *)
(* bounds on the clocks and any order of delivery.                         *)
(***************************************************************************)
EXTENDS Awareness, TLAPS

(* The frames of a queue.                                                  *)
Frames(q) == {q[i] : i \in DOMAIN q}

(* A connection that is over has no client; only connections of the room   *)
(* are sent anything; a browser uses a connection of its own.              *)
SocketsSound ==
    /\ \A s \in Sockets : pc[s] = "free" => conn[s] = Nobody
    /\ \A s \in Sockets : s \notin room => wire[s] = {}
    /\ \A c \in Clients : current[c] # Nobody => conn[current[c]] = c

(* Nobody has a clock of a client that is newer than the client's own, and *)
(* what the room was told is not newer than what the server holds.         *)
ClocksSound ==
    /\ \A c \in Clients : store[c].clock <= clock[c]
    /\ \A c \in Clients : store[c].active => store[c].clock > 0
    /\ \A c, d \in Clients : view[c][d].active => view[c][d].clock > 0
    /\ \A s \in Sockets : \A e \in Frames(up[s]) : e.clock <= clock[e.client]
    /\ \A s \in Sockets : \A e \in wire[s] : e.clock <= store[e.client].clock

(* Whoever sends another client's state back has it from the server.       *)
EchoesSound ==
    \A s \in Sockets : \A e \in Frames(up[s]) :
        e.active /\ e.client # conn[s] =>
            s \in room /\ e.clock <= store[e.client].clock

ViewsSound ==
    \A c, d \in Clients : view[c][d].active =>
        current[c] \in room /\ view[c][d].clock <= store[d].clock

(* The server knows the clock of a connected browser, or is being told.    *)
ClockComes ==
    \A c \in Clients : current[c] # Nobody =>
        \/ current[c] \in room /\ store[c].clock = clock[c]
        \/ \E e \in Frames(up[current[c]]) : e.client = c /\ e.clock = clock[c]

(* d is shown in c's browser, or will be, with the clock n.                *)
Shown(c, d, n) ==
    \/ view[c][d].active /\ n = view[c][d].clock
    \/ n > view[c][d].clock /\ Entry(d, n, TRUE) \in wire[current[c]]

Removed(c, d, n) ==
    \E e \in wire[current[c]] : e.client = d /\ ~e.active /\ e.clock >= n

RemovalComes ==
    \A c, d \in Clients : c # d /\ current[c] \in room /\ ~store[d].active =>
        \A n \in Clocks : Shown(c, d, n) => Removed(c, d, n)

IInv ==
    /\ TypeOK
    /\ SocketsSound
    /\ ClocksSound
    /\ EchoesSound
    /\ ViewsSound
    /\ ClockComes
    /\ PresenceIsOwned
    /\ RemovalComes

-----------------------------------------------------------------------------
(* Queues of frames.                                                       *)
LEMMA FramesOfAppend ==
    ASSUME NEW S, NEW q \in Seq(S), NEW e \in S
    PROVE  Append(q, e) \in Seq(S) /\ Frames(Append(q, e)) = Frames(q) \cup {e}
<1> DEFINE p == Append(q, e)
<1>1. /\ p \in Seq(S) /\ Len(p) = Len(q) + 1 /\ p[Len(q) + 1] = e
      /\ \A i \in 1 .. Len(q) : p[i] = q[i]
  OBVIOUS
<1>2. Len(q) \in Nat /\ DOMAIN q = 1 .. Len(q) /\ DOMAIN p = 1 .. Len(q) + 1
  BY <1>1
<1>3. \A x : x \in Frames(p) <=> \E i \in DOMAIN p : x = p[i]
  BY DEF Frames
<1>4. \A x : x \in Frames(q) <=> \E i \in DOMAIN q : x = q[i]
  BY DEF Frames
<1>5. ASSUME NEW i \in DOMAIN p PROVE p[i] \in Frames(q) \cup {e}
  BY <1>1, <1>2, <1>4
<1>6. ASSUME NEW i \in DOMAIN q PROVE q[i] \in Frames(p)
  BY <1>1, <1>2, <1>3
<1>7. e \in Frames(p)
  BY <1>1, <1>2, <1>3
<1>8. Frames(p) \subseteq Frames(q) \cup {e}
  BY <1>3, <1>5
<1>9. Frames(q) \cup {e} \subseteq Frames(p)
  BY <1>4, <1>6, <1>7
<1> HIDE DEF p
<1>10. Frames(p) = Frames(q) \cup {e}
  BY <1>8, <1>9
<1> QED BY <1>1, <1>10 DEF p

LEMMA FramesOfTail ==
    ASSUME NEW S, NEW q \in Seq(S), q # <<>>
    PROVE  /\ Tail(q) \in Seq(S)
           /\ Head(q) \in S
           /\ Frames(q) = {Head(q)} \cup Frames(Tail(q))
<1> DEFINE p == Tail(q)
<1>1. /\ p \in Seq(S) /\ Len(q) \in Nat \ {0} /\ DOMAIN q = 1 .. Len(q)
      /\ Head(q) = q[1] /\ Head(q) \in S
  OBVIOUS
<1>2. DOMAIN p = 1 .. Len(q) - 1 /\ \A i \in 1 .. Len(q) - 1 : p[i] = q[i + 1]
  BY <1>1
<1>3. \A x : x \in Frames(p) <=> \E i \in DOMAIN p : x = p[i]
  BY DEF Frames
<1>4. \A x : x \in Frames(q) <=> \E i \in DOMAIN q : x = q[i]
  BY DEF Frames
<1>5. ASSUME NEW i \in DOMAIN q PROVE q[i] \in {Head(q)} \cup Frames(p)
  <2>1. CASE i = 1
    BY <1>1, <2>1
  <2>2. CASE i # 1
    <3>1. i - 1 \in DOMAIN p /\ p[i - 1] = q[i]
      BY <1>1, <1>2, <2>2
    <3> QED BY <1>3, <3>1
  <2> QED BY <2>1, <2>2
<1>6. ASSUME NEW i \in DOMAIN p PROVE p[i] \in Frames(q)
  <2>1. i + 1 \in DOMAIN q /\ p[i] = q[i + 1]
    BY <1>1, <1>2
  <2> QED BY <1>4, <2>1
<1>7. Head(q) \in Frames(q)
  BY <1>1, <1>4
<1> HIDE DEF p
<1>8. Frames(q) = {Head(q)} \cup Frames(p)
  BY <1>3, <1>4, <1>5, <1>6, <1>7
<1> QED BY <1>1, <1>8 DEF p

LEMMA FramesOfNew ==
    /\ Frames(<<>>) = {}
    /\ \A e : Frames(<<e>>) = {e}
BY DEF Frames

(* The clocks that the bound allows.                                       *)
LEMMA ClockFacts ==
    /\ Clocks \subseteq Nat
    /\ \A c \in Clients : \A n \in 0 .. MaxClock[c] : n \in Clocks
    /\ \A c \in Clients : {0, 1} \subseteq Clocks
BY AwarenessAssumption DEF Clocks

-----------------------------------------------------------------------------
(***************************************************************************)
(* Initially                                                               *)
(***************************************************************************)
LEMMA InitIInv == Init => IInv
<1> SUFFICES ASSUME Init PROVE IInv
  OBVIOUS
<1>1. TypeOK
  <2>1. /\ store \in [Clients -> [clock : Clocks, active : BOOLEAN, owner : Sockets \cup {Nobody}]]
        /\ clock \in [Clients -> Clocks \ {0}]
        /\ view \in [Clients -> [Clients -> [clock : Clocks, active : BOOLEAN]]]
    BY ClockFacts DEF Init, Absent, Unseen
  <2>2. up \in [Sockets -> Seq(Entries)] /\ wire \in [Sockets -> SUBSET Entries]
    BY DEF Init
  <2> QED BY <2>1, <2>2 DEF TypeOK, Init
<1>2. SocketsSound /\ EchoesSound /\ ViewsSound /\ ClockComes /\ PresenceIsOwned
  BY FramesOfNew DEF Init, Absent, Unseen, SocketsSound, EchoesSound, ViewsSound, ClockComes,
     PresenceIsOwned
<1>3. ClocksSound
  BY FramesOfNew DEF Init, Absent, Unseen, ClocksSound
<1>4. RemovalComes
  BY DEF Init, RemovalComes
<1> QED BY <1>1, <1>2, <1>3, <1>4 DEF IInv

-----------------------------------------------------------------------------
(***************************************************************************)
(* What the steps have in common                                           *)
(***************************************************************************)
(* All clocks are numbers, and those of the entries are not zero.          *)
LEMMA Numbers ==
    ASSUME TypeOK
    PROVE  /\ \A e \in Entries : e.client \in Clients /\ e.clock \in Nat /\ e.clock > 0
           /\ \A c \in Clients : store[c].clock \in Nat /\ clock[c] \in Nat
           /\ \A c, d \in Clients : view[c][d].clock \in Nat
           /\ \A s \in Sockets : wire[s] \subseteq Entries /\ Frames(up[s]) \subseteq Entries
<1>1. Clocks \subseteq Nat
  BY ClockFacts
<1>2. \A e \in Entries : e.client \in Clients /\ e.clock \in Clocks \ {0}
  BY DEF Entries
<1>3. \A c \in Clients : store[c].clock \in Clocks /\ clock[c] \in Clocks
  BY DEF TypeOK
<1>4. \A c, d \in Clients : view[c][d].clock \in Clocks
  BY DEF TypeOK
<1>5. \A s \in Sockets : wire[s] \subseteq Entries /\ up[s] \in Seq(Entries)
  BY DEF TypeOK
<1>6. \A q \in Seq(Entries) : Frames(q) \subseteq Entries
  BY DEF Frames
<1>7. \A e \in Entries : e.clock \in Nat /\ e.clock > 0
  <2>1. \A n \in Nat : n # 0 => n > 0
    OBVIOUS
  <2>2. \A e \in Entries : e.clock \in Nat /\ e.clock # 0
    BY <1>1, <1>2
  <2> QED BY <2>1, <2>2
<1>8. \A c \in Clients : store[c].clock \in Nat /\ clock[c] \in Nat
  BY <1>1, <1>3
<1>9. \A c, d \in Clients : view[c][d].clock \in Nat
  BY <1>1, <1>4
<1>10. \A s \in Sockets : wire[s] \subseteq Entries /\ Frames(up[s]) \subseteq Entries
  BY <1>5, <1>6
<1> QED BY <1>2, <1>7, <1>8, <1>9, <1>10

(* A browser that the server speaks to hears it.                           *)
LEMMA BroadcastFacts ==
    ASSUME IInv, NEW E \in SUBSET Entries, NEW M \in SUBSET room, Broadcast(E, M)
    PROVE  /\ wire' \in [Sockets -> SUBSET Entries]
           /\ \A s \in Sockets : wire[s] \subseteq wire'[s] /\ wire'[s] \subseteq wire[s] \cup E
           /\ \A s \in Sockets \ M : wire'[s] = wire[s]
           /\ \A c \in Clients : \A e \in E :
                current[c] \in M /\ ~(e.client = c /\ e.active) => e \in wire'[current[c]]
<1>1. wire \in [Sockets -> SUBSET Entries] /\ room \subseteq Sockets
  BY DEF IInv, TypeOK
<1>2. \A s \in Sockets : wire'[s] = IF s \in M /\ Hears(s)
                                    THEN wire[s] \cup News(s, E) ELSE wire[s]
  BY DEF Broadcast
<1>3. \A s \in Sockets : News(s, E) \subseteq E
  BY DEF News
<1>4. wire' \in [Sockets -> SUBSET Entries]
  <2>1. wire' = [s \in Sockets |-> IF s \in M /\ Hears(s)
                                   THEN wire[s] \cup News(s, E) ELSE wire[s]]
    BY DEF Broadcast
  <2>2. \A s \in Sockets : (IF s \in M /\ Hears(s)
                            THEN wire[s] \cup News(s, E) ELSE wire[s]) \in SUBSET Entries
    BY <1>1, <1>3
  <2> QED BY <2>1, <2>2
<1>5. ASSUME NEW c \in Clients, NEW e \in E, current[c] \in M, ~(e.client = c /\ e.active)
      PROVE  e \in wire'[current[c]]
  <2>1. current[c] \in Sockets /\ current[c] # Nobody /\ c # Nobody
    BY <1>1, <1>5, AwarenessAssumption
  <2>2. conn[current[c]] = c
    BY <2>1 DEF IInv, SocketsSound
  <2>3. Hears(current[c]) /\ e \in News(current[c], E)
    BY <2>1, <2>2, <1>5 DEF Hears, News
  <2> QED BY <1>2, <1>5, <2>1, <2>3
<1> QED BY <1>2, <1>3, <1>4, <1>5

(* What a browser sends is behind what it has sent already.                *)
LEMMA SendUpFacts ==
    ASSUME IInv, NEW c \in Clients, NEW e \in Entries, SendUp(c, e)
    PROVE  /\ up' \in [Sockets -> Seq(Entries)]
           /\ \A s \in Sockets : s # current[c] => up'[s] = up[s]
           /\ current[c] # Nobody => Frames(up'[current[c]]) = Frames(up[current[c]]) \cup {e}
<1>1. /\ up \in [Sockets -> Seq(Entries)] /\ current[c] \in Sockets \cup {Nobody}
      /\ Nobody \notin Sockets
  BY AwarenessAssumption DEF IInv, TypeOK
<1>2. CASE current[c] = Nobody
  BY <1>1, <1>2 DEF SendUp
<1>3. CASE current[c] # Nobody
  <2> DEFINE q == up[current[c]]
  <2>1. q \in Seq(Entries) /\ up' = [up EXCEPT ![current[c]] = Append(q, e)]
    BY <1>1, <1>3 DEF SendUp
  <2>2. Append(q, e) \in Seq(Entries) /\ Frames(Append(q, e)) = Frames(q) \cup {e}
    BY <2>1, FramesOfAppend
  <2> HIDE DEF q
  <2>3. up'[current[c]] = Append(q, e)
    BY <1>1, <1>3, <2>1
  <2>4. up' \in [Sockets -> Seq(Entries)] /\ \A s \in Sockets : s # current[c] => up'[s] = up[s]
    BY <1>1, <2>1, <2>2
  <2> QED BY <2>2, <2>3, <2>4 DEF q
<1> QED BY <1>2, <1>3

(* A browser that hides everyone keeps the clocks it has seen.             *)
LEMMA HiddenFacts ==
    ASSUME TypeOK, NEW c \in Clients
    PROVE  /\ Hidden(c) \in [Clients -> [clock : Clocks, active : BOOLEAN]]
           /\ \A d \in Clients : ~Hidden(c)[d].active
<1> DEFINE r(d) == [view[c][d] EXCEPT !.active = FALSE]
<1>1. \A d \in Clients : view[c][d] \in [clock : Clocks, active : BOOLEAN]
  BY DEF TypeOK
<1>2. \A d \in Clients : r(d) \in [clock : Clocks, active : BOOLEAN] /\ ~r(d).active
  BY <1>1
<1>3. Hidden(c) = [d \in Clients |-> r(d)]
  BY DEF Hidden
<1> HIDE DEF r
<1> QED BY <1>2, <1>3

(* A browser whose connection ends shows nobody; the others go on.         *)
LEMMA EndSocketFacts ==
    ASSUME IInv, NEW s \in Sockets, EndSocket(s)
    PROVE  /\ current' \in [Clients -> Sockets \cup {Nobody}]
           /\ view' \in [Clients -> [Clients -> [clock : Clocks, active : BOOLEAN]]]
           /\ clock' = clock
           /\ \A c \in Clients : IF current[c] = s
                THEN current'[c] = Nobody /\ \A d \in Clients : ~view'[c][d].active
                ELSE current'[c] = current[c] /\ view'[c] = view[c]
<1>1. /\ current \in [Clients -> Sockets \cup {Nobody}]
      /\ view \in [Clients -> [Clients -> [clock : Clocks, active : BOOLEAN]]]
      /\ conn \in [Sockets -> Clients \cup {Nobody}]
      /\ Nobody \notin Sockets /\ Nobody \notin Clients
      /\ \A c \in Clients : current[c] # Nobody => conn[current[c]] = c
  BY AwarenessAssumption DEF IInv, TypeOK, SocketsSound
<1>2. CASE Hears(s)
  <2> DEFINE b == conn[s]
  <2>1. b \in Clients /\ current[b] = s /\ LoseConnection(b)
    BY <1>1, <1>2 DEF EndSocket, Hears
  <2>2. Hidden(b) \in [Clients -> [clock : Clocks, active : BOOLEAN]]
        /\ \A d \in Clients : ~Hidden(b)[d].active
    BY <2>1, HiddenFacts DEF IInv
  <2>3. \A c \in Clients : current[c] = s => c = b
    BY <1>1
  <2> HIDE DEF b
  <2>4. /\ current' = [current EXCEPT ![b] = Nobody]
        /\ view' = [view EXCEPT ![b] = Hidden(b)]
        /\ clock' = clock
    BY <2>1 DEF LoseConnection
  <2> QED BY <1>1, <2>1, <2>2, <2>3, <2>4
<1>3. CASE ~Hears(s)
  <2>1. UNCHANGED browser
    BY <1>3 DEF EndSocket
  <2>2. \A c \in Clients : current[c] # s
    BY <1>1, <1>3 DEF Hears
  <2> QED BY <1>1, <2>1, <2>2 DEF browser
<1> QED BY <1>2, <1>3

-----------------------------------------------------------------------------
(***************************************************************************)
(* The steps of the handlers                                               *)
(***************************************************************************)
LEMMA JoinIInv == ASSUME IInv, NEW s \in Sockets, Join(s) PROVE IInv'
<1>1. /\ room' = room \cup {s} /\ pc' = [pc EXCEPT ![s] = "greet"] /\ pc[s] = "join"
      /\ UNCHANGED <<store, conn, up, wire, current, clock, view>>
      /\ pc \in [Sockets -> {"free", "join", "greet", "receive"}]
  BY DEF IInv, TypeOK, Join, browser
<1>2. s \notin room /\ wire[s] = {} /\ \A c, d \in Clients : current[c] = s => ~view[c][d].active
  <2>1. s \notin room
    BY <1>1 DEF IInv, TypeOK
  <2> QED BY <2>1 DEF IInv, SocketsSound, ViewsSound
<1>3. TypeOK'
  <2>1. TypeOK
    BY DEF IInv
  <2>2. /\ pc' \in [Sockets -> {"free", "join", "greet", "receive"}]
        /\ \A t \in Sockets : pc'[t] = IF t = s THEN "greet" ELSE pc[t]
    BY <1>1
  <2>3. \A t \in Sockets : t \in room' <=> pc'[t] \in {"greet", "receive"}
    BY <1>1, <2>1, <2>2 DEF TypeOK
  <2> QED BY <1>1, <2>1, <2>2, <2>3 DEF TypeOK
<1>4. SocketsSound'
  <2>1. SocketsSound
    BY DEF IInv
  <2> QED BY <1>1, <2>1 DEF SocketsSound
<1>5. ClocksSound' /\ EchoesSound' /\ ViewsSound' /\ PresenceIsOwned'
  <2>1. ClocksSound /\ EchoesSound /\ ViewsSound /\ PresenceIsOwned
    BY DEF IInv
  <2> QED BY <1>1, <2>1 DEF ClocksSound, EchoesSound, ViewsSound, PresenceIsOwned
<1>6. ClockComes'
  <2>1. ClockComes
    BY DEF IInv
  <2> QED BY <1>1, <2>1 DEF ClockComes
<1>7. RemovalComes'
  <2> SUFFICES ASSUME NEW c \in Clients, NEW d \in Clients, c # d, current'[c] \in room',
                      ~store'[d].active, NEW n \in Clocks, Shown(c, d, n)'
               PROVE  Removed(c, d, n)'
    BY DEF RemovalComes
  <2>1. Shown(c, d, n)
    BY <1>1 DEF Shown
  <2>2. current[c] # s
    BY <1>2, <2>1 DEF Shown
  <2>3. current[c] \in room /\ ~store[d].active
    BY <1>1, <2>2
  <2>4. Removed(c, d, n)
    BY <2>1, <2>3 DEF IInv, RemovalComes
  <2> QED BY <1>1, <2>4 DEF Removed
<1> QED BY <1>3, <1>4, <1>5, <1>6, <1>7 DEF IInv

(* The states that are active now are told to one connection.              *)
LEMMA TellIInv ==
    ASSUME IInv, NEW s \in room, Broadcast(ActiveEntries, {s}),
           UNCHANGED <<room, store, conn, up, current, clock, view>>,
           pc' \in [Sockets -> {"free", "join", "greet", "receive"}],
           \A t \in Sockets : /\ t \in room <=> pc'[t] \in {"greet", "receive"}
                              /\ pc'[t] = "free" => pc[t] = "free"
    PROVE  IInv'
<1>1. TypeOK /\ ClocksSound
  BY DEF IInv
<1>2. ActiveEntries \subseteq Entries
      /\ \A e \in ActiveEntries : e.clock = store[e.client].clock /\ store[e.client].active
  <2> SUFFICES ASSUME NEW e \in ActiveEntries
               PROVE  e \in Entries /\ e.clock = store[e.client].clock /\ store[e.client].active
    OBVIOUS
  <2>1. PICK c \in Active : e = Entry(c, store[c].clock, TRUE)
    BY DEF ActiveEntries
  <2>2. c \in Clients /\ store[c].active
    BY DEF Active
  <2>3. store[c].clock \in Clocks
    BY <1>1, <2>2 DEF TypeOK
  <2>4. store[c].clock # 0
    BY <1>1, <2>2 DEF ClocksSound
  <2> QED BY <2>1, <2>2, <2>3, <2>4 DEF Entry, Entries
<1>3. /\ wire' \in [Sockets -> SUBSET Entries]
      /\ \A t \in Sockets : wire[t] \subseteq wire'[t] /\ wire'[t] \subseteq wire[t] \cup ActiveEntries
      /\ \A t \in Sockets \ {s} : wire'[t] = wire[t]
  <2>1. {s} \in SUBSET room /\ ActiveEntries \in SUBSET Entries
    BY <1>2
  <2> QED BY <2>1, BroadcastFacts
<1>4. TypeOK'
  BY <1>1, <1>3 DEF TypeOK
<1>5. SocketsSound'
  <2>1. SocketsSound
    BY DEF IInv
  <2> QED BY <1>3, <2>1 DEF SocketsSound
<1>6. ClocksSound'
  <2>1. ASSUME NEW t \in Sockets, NEW e \in wire'[t] PROVE e.clock <= store[e.client].clock
    <3>1. e \in wire[t] \/ e \in ActiveEntries
      BY <1>3, <2>1
    <3>2. CASE e \in wire[t]
      BY <1>1, <3>2 DEF ClocksSound
    <3>3. CASE e \in ActiveEntries
      <4>1. e \in Entries /\ e.clock = store[e.client].clock
        BY <1>2, <3>3
      <4>2. e.clock \in Nat
        BY <1>1, <4>1, Numbers
      <4> QED BY <4>1, <4>2
    <3> QED BY <3>1, <3>2, <3>3
  <2> QED BY <1>1, <2>1 DEF ClocksSound
<1>7. EchoesSound' /\ ViewsSound' /\ ClockComes' /\ PresenceIsOwned'
  <2>1. EchoesSound /\ ViewsSound /\ ClockComes /\ PresenceIsOwned
    BY DEF IInv
  <2> QED BY <2>1 DEF EchoesSound, ViewsSound, ClockComes, PresenceIsOwned
<1>8. RemovalComes'
  <2> SUFFICES ASSUME NEW c \in Clients, NEW d \in Clients, c # d, current[c] \in room,
                      ~store[d].active, NEW n \in Clocks, Shown(c, d, n)'
               PROVE  Removed(c, d, n)'
    BY DEF RemovalComes
  <2>1. current[c] \in Sockets
    BY <1>1 DEF TypeOK
  <2>2. Shown(c, d, n)
    <3>1. Entry(d, n, TRUE) \in ActiveEntries => store[d].active
      BY <1>2 DEF Entry
    <3>2. Entry(d, n, TRUE) \in wire'[current[c]] => Entry(d, n, TRUE) \in wire[current[c]]
      BY <1>3, <2>1, <3>1
    <3> QED BY <3>2 DEF Shown
  <2>3. Removed(c, d, n)
    BY <2>2 DEF IInv, RemovalComes
  <2> QED BY <1>3, <2>1, <2>3 DEF Removed
<1> QED BY <1>4, <1>5, <1>6, <1>7, <1>8 DEF IInv

LEMMA GreetIInv == ASSUME IInv, NEW s \in Sockets, Greet(s) PROVE IInv'
<1>1. TypeOK
  BY DEF IInv
<1>2. s \in room /\ Broadcast(ActiveEntries, {s})
      /\ UNCHANGED <<room, store, conn, up, current, clock, view>>
  BY <1>1 DEF Greet, TypeOK, browser
<1>3. pc' = [pc EXCEPT ![s] = "receive"]
  BY DEF Greet
<1>4. /\ pc' \in [Sockets -> {"free", "join", "greet", "receive"}]
      /\ \A t \in Sockets : pc'[t] = IF t = s THEN "receive" ELSE pc[t]
  BY <1>1, <1>3 DEF TypeOK
<1>5. \A t \in Sockets : t \in room <=> pc'[t] \in {"greet", "receive"}
  BY <1>1, <1>2, <1>4 DEF TypeOK
<1> QED BY <1>2, <1>4, <1>5, TellIInv

LEMMA AnswerQueryIInv == ASSUME IInv, NEW s \in Sockets, AnswerQuery(s) PROVE IInv'
<1>1. TypeOK
  BY DEF IInv
<1>2. s \in room /\ Broadcast(ActiveEntries, {s})
      /\ UNCHANGED <<room, store, conn, up, current, clock, view>> /\ pc' = pc
  BY <1>1 DEF AnswerQuery, TypeOK, browser
<1>3. pc' \in [Sockets -> {"free", "join", "greet", "receive"}]
      /\ \A t \in Sockets : t \in room <=> pc'[t] \in {"greet", "receive"}
  BY <1>1, <1>2 DEF TypeOK
<1> QED BY <1>2, <1>3, TellIInv

(* What the server reports of the clients it removes, and what it keeps.   *)
LEMMA RemovedFacts ==
    ASSUME TypeOK, ClocksSound, NEW gone \in SUBSET Active
    PROVE  /\ MarkRemoved(gone) \in [Clients -> [clock : Clocks, active : BOOLEAN,
                                                 owner : Sockets \cup {Nobody}]]
           /\ \A c \in Clients :
                IF c \in gone THEN /\ MarkRemoved(gone)[c].clock = store[c].clock
                                   /\ ~MarkRemoved(gone)[c].active
                ELSE MarkRemoved(gone)[c] = store[c]
           /\ Removals(gone) \in SUBSET Entries
           /\ \A e \in Removals(gone) : ~e.active /\ e.clock = store[e.client].clock
           /\ \A c \in gone : \E e \in Removals(gone) :
                e.client = c /\ ~e.active /\ e.clock = store[c].clock
<1>1. \A c \in Clients : /\ store[c] \in [clock : Clocks, active : BOOLEAN,
                                          owner : Sockets \cup {Nobody}]
                         /\ store[c].clock \in Clocks
  BY DEF TypeOK
<1>2. \A c \in gone : c \in Clients /\ store[c].clock # 0
  <2>1. \A c \in Active : c \in Clients /\ store[c].active
    BY DEF Active
  <2>2. \A c \in Clients : store[c].active => store[c].clock > 0
    BY DEF ClocksSound
  <2>3. \A c \in Clients : store[c].active => store[c].clock # 0
    BY <2>2
  <2> QED BY <2>1, <2>3
<1> DEFINE absent(c) == [Absent EXCEPT !.clock = store[c].clock]
<1>3. ASSUME NEW c \in Clients
      PROVE  /\ absent(c) \in [clock : Clocks, active : BOOLEAN, owner : Sockets \cup {Nobody}]
             /\ absent(c).clock = store[c].clock /\ ~absent(c).active
  BY <1>1 DEF Absent
<1>4. MarkRemoved(gone) = [c \in Clients |-> IF c \in gone THEN absent(c) ELSE store[c]]
  BY DEF MarkRemoved
<1> HIDE DEF absent
<1>5. /\ MarkRemoved(gone) \in [Clients -> [clock : Clocks, active : BOOLEAN,
                                            owner : Sockets \cup {Nobody}]]
      /\ \A c \in Clients :
           IF c \in gone THEN /\ MarkRemoved(gone)[c].clock = store[c].clock
                              /\ ~MarkRemoved(gone)[c].active
           ELSE MarkRemoved(gone)[c] = store[c]
  BY <1>1, <1>3, <1>4
<1>6. ASSUME NEW c \in gone
      PROVE  /\ Entry(c, store[c].clock, FALSE) \in Entries
             /\ Entry(c, store[c].clock, FALSE) \in Removals(gone)
             /\ c = Entry(c, store[c].clock, FALSE).client
             /\ store[c].clock = Entry(c, store[c].clock, FALSE).clock
             /\ ~Entry(c, store[c].clock, FALSE).active
  <2>1. store[c].clock \in Clocks \ {0} /\ c \in Clients
    BY <1>1, <1>2
  <2>2. Entry(c, store[c].clock, FALSE) \in Entries
    BY <2>1 DEF Entry, Entries
  <2>3. Entry(c, store[c].clock, FALSE) \in Removals(gone)
    BY DEF Removals
  <2> QED BY <2>2, <2>3 DEF Entry
<1>7. ASSUME NEW e \in Removals(gone)
      PROVE  e \in Entries /\ ~e.active /\ e.clock = store[e.client].clock
  <2>1. PICK c \in gone : e = Entry(c, store[c].clock, FALSE)
    BY DEF Removals
  <2> QED BY <1>6, <2>1
<1>8. \A c \in gone : \E e \in Removals(gone) :
        e.client = c /\ ~e.active /\ e.clock = store[c].clock
  BY <1>6
<1> QED BY <1>5, <1>7, <1>8

LEMMA PruneIInv == ASSUME IInv, NEW s \in Sockets, Prune(s) PROVE IInv'
<1>1. TypeOK /\ SocketsSound /\ ClocksSound /\ EchoesSound /\ ViewsSound /\ ClockComes
      /\ PresenceIsOwned /\ RemovalComes
  BY DEF IInv
<1>2. PICK gone \in SUBSET Active \ {{}} :
        store' = MarkRemoved(gone) /\ Broadcast(Removals(gone), room)
  BY DEF Prune
<1>3. UNCHANGED <<room, pc, conn, up, current, clock, view>>
  BY DEF Prune, browser
<1>4. /\ store' \in [Clients -> [clock : Clocks, active : BOOLEAN, owner : Sockets \cup {Nobody}]]
      /\ \A c \in Clients : IF c \in gone THEN store'[c].clock = store[c].clock /\ ~store'[c].active
                            ELSE store'[c] = store[c]
      /\ Removals(gone) \in SUBSET Entries
      /\ \A e \in Removals(gone) : ~e.active /\ e.clock = store[e.client].clock
      /\ \A c \in gone : \E e \in Removals(gone) :
           e.client = c /\ ~e.active /\ e.clock = store[c].clock
  BY <1>1, <1>2, RemovedFacts
<1>5. \A c \in Clients : store'[c].clock = store[c].clock /\ (store'[c].active => store'[c] = store[c])
  BY <1>4
<1>6. /\ wire' \in [Sockets -> SUBSET Entries]
      /\ \A t \in Sockets : wire[t] \subseteq wire'[t] /\ wire'[t] \subseteq wire[t] \cup Removals(gone)
      /\ \A t \in Sockets \ room : wire'[t] = wire[t]
      /\ \A c \in Clients : \A e \in Removals(gone) :
           current[c] \in room /\ ~(e.client = c /\ e.active) => e \in wire'[current[c]]
  BY <1>2, <1>4, BroadcastFacts
<1>7. TypeOK'
  BY <1>1, <1>3, <1>4, <1>6 DEF TypeOK
<1>8. SocketsSound'
  BY <1>1, <1>3, <1>6 DEF SocketsSound
<1>9. ClocksSound'
  <2>1. ASSUME NEW t \in Sockets, NEW e \in wire'[t] PROVE e.clock <= store'[e.client].clock
    <3>1. e \in Entries /\ e.client \in Clients /\ e.clock \in Nat
      BY <1>6, <2>1, <1>1, Numbers
    <3>2. e.clock <= store[e.client].clock
      <4>1. CASE e \in wire[t]
        BY <1>1, <4>1 DEF ClocksSound
      <4>2. CASE e \in Removals(gone)
        BY <1>4, <3>1, <4>2
      <4> QED BY <1>6, <2>1, <4>1, <4>2
    <3> QED BY <1>5, <3>1, <3>2
  <2>2. \A t \in Sockets : \A e \in Frames(up[t]) : e.clock <= clock[e.client]
    BY <1>1 DEF ClocksSound
  <2>3. \A c \in Clients : /\ store'[c].clock <= clock[c]
                           /\ store'[c].active => store'[c].clock > 0
    BY <1>1, <1>5 DEF ClocksSound
  <2>4. \A c, d \in Clients : view[c][d].active => view[c][d].clock > 0
    BY <1>1 DEF ClocksSound
  <2> QED BY <1>3, <2>1, <2>2, <2>3, <2>4 DEF ClocksSound
<1>10. EchoesSound'
  <2>1. \A t \in Sockets : Frames(up[t]) \subseteq Entries
    BY <1>1, Numbers
  <2>2. \A e \in Entries : e.client \in Clients
    BY <1>1, Numbers
  <2> QED BY <1>1, <1>3, <1>5, <2>1, <2>2 DEF EchoesSound
<1>11. ViewsSound' /\ ClockComes'
  BY <1>1, <1>3, <1>5 DEF ViewsSound, ClockComes
<1>12. PresenceIsOwned'
  BY <1>1, <1>3, <1>5 DEF PresenceIsOwned
<1>13. RemovalComes'
  <2> SUFFICES ASSUME NEW c \in Clients, NEW d \in Clients, c # d, current'[c] \in room',
                      ~store'[d].active, NEW n \in Clocks, Shown(c, d, n)'
               PROVE  Removed(c, d, n)'
    BY DEF RemovalComes
  <2>1. current[c] \in room /\ current[c] \in Sockets /\ n \in Nat
    BY <1>1, <1>3, ClockFacts DEF TypeOK
  <2>2. Shown(c, d, n)
    <3>1. Entry(d, n, TRUE) \notin Removals(gone)
      BY <1>4 DEF Entry
    <3>2. Entry(d, n, TRUE) \in wire'[current[c]] => Entry(d, n, TRUE) \in wire[current[c]]
      BY <1>6, <2>1, <3>1
    <3> QED BY <1>3, <3>2 DEF Shown
  <2>3. CASE d \notin gone
    <3>1. ~store[d].active
      BY <1>4, <2>3
    <3>2. Removed(c, d, n)
      BY <1>1, <2>1, <2>2, <3>1 DEF RemovalComes
    <3> QED BY <1>3, <1>6, <2>1, <3>2 DEF Removed
  <2>4. CASE d \in gone
    <3>1. n <= store[d].clock
      <4>1. CASE view[c][d].active /\ n = view[c][d].clock
        BY <1>1, <4>1 DEF ViewsSound
      <4>2. CASE Entry(d, n, TRUE) \in wire[current[c]]
        <5>1. Entry(d, n, TRUE).clock <= store[Entry(d, n, TRUE).client].clock
          BY <1>1, <2>1, <4>2 DEF ClocksSound
        <5> QED BY <5>1 DEF Entry
      <4> QED BY <2>2, <4>1, <4>2 DEF Shown
    <3>2. PICK e \in Removals(gone) : e.client = d /\ ~e.active /\ e.clock = store[d].clock
      BY <1>4, <2>4
    <3>3. e \in wire'[current[c]]
      BY <1>6, <2>1, <3>2
    <3>4. e.clock >= n
      <4>1. store[d].clock \in Nat
        BY <1>1, Numbers
      <4> QED BY <2>1, <3>1, <3>2, <4>1
    <3> QED BY <1>3, <3>2, <3>3, <3>4 DEF Removed
  <2> QED BY <2>3, <2>4
<1> QED BY <1>7, <1>8, <1>9, <1>10, <1>11, <1>12, <1>13 DEF IInv

LEMMA ApplyIInv == ASSUME IInv, NEW s \in Sockets, Apply(s) PROVE IInv'
<1>1. TypeOK /\ SocketsSound /\ ClocksSound /\ EchoesSound /\ ViewsSound /\ ClockComes
      /\ PresenceIsOwned /\ RemovalComes
  BY DEF IInv
<1> DEFINE e == Head(up[s])
<1>2. UNCHANGED <<room, pc, conn, current, clock, view>>
  BY DEF Apply, browser
<1>3. /\ s \in room /\ up[s] \in Seq(Entries) /\ up[s] # <<>>
      /\ up' = [up EXCEPT ![s] = Tail(@)] /\ up \in [Sockets -> Seq(Entries)]
  BY <1>1 DEF Apply, TypeOK
<1>4. /\ Tail(up[s]) \in Seq(Entries) /\ e \in Entries
      /\ Frames(up[s]) = {e} \cup Frames(Tail(up[s]))
  BY <1>3, FramesOfTail
<1>5. /\ up' \in [Sockets -> Seq(Entries)]
      /\ \A t \in Sockets : t # s => up'[t] = up[t]
      /\ up'[s] = Tail(up[s])
  BY <1>3, <1>4
<1>6. \/ ShouldApply(e) /\ store' = [store EXCEPT ![e.client] = Stored(e, s)] /\ Broadcast({e}, room)
      \/ ~ShouldApply(e) /\ UNCHANGED <<store, wire>>
  BY DEF Apply
<1> HIDE DEF e
<1>7. e.client \in Clients /\ e.clock \in Nat /\ e.clock > 0 /\ e.active \in BOOLEAN
      /\ e.clock \in Clocks
  BY <1>1, <1>4, Numbers DEF Entries
<1>8. e \in Frames(up[s]) /\ e.clock <= clock[e.client]
      /\ \A t \in Sockets : Frames(up'[t]) \subseteq Frames(up[t])
  BY <1>1, <1>4, <1>5 DEF ClocksSound
<1>9. \A c \in Clients : store[c].clock \in Nat /\ clock[c] \in Nat
  BY <1>1, Numbers
<1>10. \A t \in Sockets : wire[t] \subseteq Entries /\ Frames(up[t]) \subseteq Entries
  BY <1>1, Numbers
<1>11. \A f \in Entries : f.client \in Clients /\ f.clock \in Nat
  BY <1>1, Numbers
(* What the frame does to the store.                                       *)
<1>12. /\ store' \in [Clients -> [clock : Clocks, active : BOOLEAN, owner : Sockets \cup {Nobody}]]
       /\ \A c \in Clients : /\ store'[c].clock \in Nat
                             /\ store[c].clock <= store'[c].clock /\ store'[c].clock <= clock[c]
                             /\ store'[c].active => store'[c].clock > 0
                             /\ c # e.client => store'[c] = store[c]
       /\ e.clock <= store'[e.client].clock
       /\ \A c \in Clients : store'[c].active =>
            store'[c].owner \in room /\ conn[store'[c].owner] = c
  <2>1. \A c \in Clients : store[c].clock <= clock[c] /\ (store[c].active => store[c].clock > 0)
    BY <1>1 DEF ClocksSound
  <2>2. store \in [Clients -> [clock : Clocks, active : BOOLEAN, owner : Sockets \cup {Nobody}]]
    BY <1>1 DEF TypeOK
  <2>3. CASE ~ShouldApply(e)
    <3>1. store' = store
      BY <1>6, <2>3
    <3>2. ~(store[e.client].clock < e.clock)
      BY <2>3 DEF ShouldApply
    <3>3. e.clock <= store[e.client].clock
      BY <1>7, <1>9, <3>2
    <3> QED BY <1>1, <1>9, <2>1, <2>2, <3>1, <3>3 DEF PresenceIsOwned
  <2>4. CASE ShouldApply(e)
    <3>1. store' = [store EXCEPT ![e.client] = Stored(e, s)]
      BY <1>6, <2>4
    <3>2. /\ Stored(e, s) \in [clock : Clocks, active : BOOLEAN, owner : Sockets \cup {Nobody}]
          /\ Stored(e, s).clock = e.clock /\ Stored(e, s).active = e.active
          /\ e.active => Stored(e, s).owner = s
      BY <1>7 DEF Stored
    <3>3. store'[e.client] = Stored(e, s) /\ \A c \in Clients : c # e.client => store'[c] = store[c]
      BY <1>7, <2>2, <3>1
    <3>4. store[e.client].clock <= e.clock
      BY <1>7, <1>9, <2>4 DEF ShouldApply
    <3>5. e.active => conn[s] = e.client
      <4>1. SUFFICES ASSUME e.active, conn[s] # e.client PROVE FALSE
        OBVIOUS
      <4>2. e.clock <= store[e.client].clock
        BY <1>1, <1>8, <4>1 DEF EchoesSound
      <4>3. store[e.client].clock < e.clock
        BY <2>4, <4>1 DEF ShouldApply
      <4> QED BY <1>7, <1>9, <4>2, <4>3
    <3>6. store' \in [Clients -> [clock : Clocks, active : BOOLEAN, owner : Sockets \cup {Nobody}]]
      BY <2>2, <3>1, <3>2
    <3>7. ASSUME NEW c \in Clients
          PROVE  /\ store'[c].clock \in Nat
                 /\ store[c].clock <= store'[c].clock /\ store'[c].clock <= clock[c]
                 /\ store'[c].active => store'[c].clock > 0
                 /\ c # e.client => store'[c] = store[c]
      BY <1>7, <1>8, <1>9, <2>1, <3>2, <3>3, <3>4
    <3>8. ASSUME NEW c \in Clients, store'[c].active
          PROVE  store'[c].owner \in room /\ conn[store'[c].owner] = c
      <4>1. CASE c = e.client
        BY <1>3, <3>2, <3>3, <3>5, <3>8, <4>1
      <4>2. CASE c # e.client
        BY <1>1, <3>3, <3>8, <4>2 DEF PresenceIsOwned
      <4> QED BY <4>1, <4>2
    <3>9. e.clock <= store'[e.client].clock
      BY <1>7, <3>2, <3>3
    <3> QED BY <3>6, <3>7, <3>8, <3>9
  <2> QED BY <2>3, <2>4
(* What the room is told.                                                  *)
<1>13. /\ wire' \in [Sockets -> SUBSET Entries]
       /\ \A t \in Sockets : wire[t] \subseteq wire'[t] /\ wire'[t] \subseteq wire[t] \cup {e}
       /\ \A t \in Sockets \ room : wire'[t] = wire[t]
       /\ ShouldApply(e) => \A c \in Clients :
            current[c] \in room /\ ~e.active => e \in wire'[current[c]]
       /\ ~ShouldApply(e) => wire' = wire
  <2>1. CASE ~ShouldApply(e)
    BY <1>1, <1>6, <2>1 DEF TypeOK
  <2>2. CASE ShouldApply(e)
    <3>1. {e} \in SUBSET Entries /\ room \in SUBSET room /\ Broadcast({e}, room)
      BY <1>4, <1>6, <2>2
    <3>2. /\ wire' \in [Sockets -> SUBSET Entries]
          /\ \A t \in Sockets : wire[t] \subseteq wire'[t] /\ wire'[t] \subseteq wire[t] \cup {e}
          /\ \A t \in Sockets \ room : wire'[t] = wire[t]
          /\ \A c \in Clients : \A f \in {e} :
               current[c] \in room /\ ~(f.client = c /\ f.active) => f \in wire'[current[c]]
      BY <3>1, BroadcastFacts
    <3> QED BY <2>2, <3>2
  <2> QED BY <2>1, <2>2
<1>14. TypeOK'
  BY <1>1, <1>2, <1>5, <1>12, <1>13 DEF TypeOK
<1>15. SocketsSound'
  BY <1>1, <1>2, <1>13 DEF SocketsSound
<1>16. ClocksSound'
  <2>1. ASSUME NEW t \in Sockets, NEW f \in wire'[t] PROVE f.clock <= store'[f.client].clock
    <3>1. CASE f = e
      BY <1>12, <3>1
    <3>2. CASE f \in wire[t]
      <4>1. f \in Entries /\ f.clock <= store[f.client].clock
        BY <1>1, <1>10, <3>2 DEF ClocksSound
      <4> QED BY <1>9, <1>11, <1>12, <4>1
    <3> QED BY <1>13, <2>1, <3>1, <3>2
  <2>2. \A t \in Sockets : \A f \in Frames(up'[t]) : f.clock <= clock[f.client]
    BY <1>1, <1>8 DEF ClocksSound
  <2>3. \A c, d \in Clients : view[c][d].active => view[c][d].clock > 0
    BY <1>1 DEF ClocksSound
  <2> QED BY <1>2, <1>12, <2>1, <2>2, <2>3 DEF ClocksSound
<1>17. EchoesSound'
  <2>1. ASSUME NEW t \in Sockets, NEW f \in Frames(up'[t]), f.active, f.client # conn[t]
        PROVE  t \in room /\ f.clock <= store'[f.client].clock
    <3>1. f \in Entries /\ t \in room /\ f.clock <= store[f.client].clock
      BY <1>1, <1>8, <1>10, <2>1 DEF EchoesSound
    <3> QED BY <1>9, <1>11, <1>12, <3>1
  <2> QED BY <1>2, <2>1 DEF EchoesSound
<1>18. ViewsSound'
  <2>1. ASSUME NEW c \in Clients, NEW d \in Clients, view[c][d].active
        PROVE  current[c] \in room /\ view[c][d].clock <= store'[d].clock
    <3>1. current[c] \in room /\ view[c][d].clock <= store[d].clock /\ view[c][d].clock \in Nat
      BY <1>1, <2>1, Numbers DEF ViewsSound
    <3> QED BY <1>9, <1>12, <3>1
  <2> QED BY <1>2, <2>1 DEF ViewsSound
<1>19. ClockComes'
  <2>1. ASSUME NEW c \in Clients, current[c] # Nobody
        PROVE  \/ current[c] \in room /\ store'[c].clock = clock[c]
               \/ \E f \in Frames(up'[current[c]]) : f.client = c /\ f.clock = clock[c]
    <3>1. current[c] \in Sockets
      BY <1>1, <2>1 DEF TypeOK
    <3>2. CASE current[c] \in room /\ store[c].clock = clock[c]
      BY <1>9, <1>12, <3>2
    <3>3. CASE \E f \in Frames(up[current[c]]) : f.client = c /\ f.clock = clock[c]
      <4>1. PICK f \in Frames(up[current[c]]) : f.client = c /\ f.clock = clock[c]
        BY <3>3
      <4>2. CASE f \in Frames(up'[current[c]])
        BY <4>1, <4>2
      <4>3. CASE f \notin Frames(up'[current[c]])
        <5>1. current[c] = s /\ f = e
          BY <1>4, <1>5, <3>1, <4>1, <4>3
        <5> QED BY <1>3, <1>7, <1>9, <1>12, <4>1, <5>1
      <4> QED BY <4>2, <4>3
    <3> QED BY <1>1, <2>1, <3>2, <3>3 DEF ClockComes
  <2> QED BY <1>2, <2>1 DEF ClockComes
<1>20. PresenceIsOwned'
  BY <1>2, <1>12 DEF PresenceIsOwned
<1>21. RemovalComes'
  <2> SUFFICES ASSUME NEW c \in Clients, NEW d \in Clients, c # d, current'[c] \in room',
                      ~store'[d].active, NEW n \in Clocks, Shown(c, d, n)'
               PROVE  Removed(c, d, n)'
    BY DEF RemovalComes
  <2>1. current[c] \in room /\ current[c] \in Sockets /\ n \in Nat
    BY <1>1, <1>2, ClockFacts DEF TypeOK
  <2>2. CASE ~ShouldApply(e)
    <3>1. Shown(c, d, n) /\ ~store[d].active
      BY <1>2, <1>6, <2>2 DEF Shown
    <3>2. Removed(c, d, n)
      BY <1>1, <2>1, <3>1 DEF RemovalComes
    <3> QED BY <1>2, <1>6, <2>2, <3>2 DEF Removed
  <2>3. CASE ShouldApply(e) /\ d # e.client
    <3>1. ~store[d].active /\ Entry(d, n, TRUE) # e
      BY <1>12, <2>3 DEF Entry
    <3>2. Entry(d, n, TRUE) \in wire'[current[c]] => Entry(d, n, TRUE) \in wire[current[c]]
      BY <1>13, <2>1, <3>1
    <3>3. Shown(c, d, n)
      BY <1>2, <3>2 DEF Shown
    <3>4. Removed(c, d, n)
      BY <1>1, <2>1, <3>1, <3>3 DEF RemovalComes
    <3> QED BY <1>2, <1>13, <2>1, <3>4 DEF Removed
  <2>4. CASE ShouldApply(e) /\ d = e.client
    <3>1. ~e.active
      <4>1. store' = [store EXCEPT ![e.client] = Stored(e, s)]
        BY <1>6, <2>4
      <4>2. store'[d] = Stored(e, s)
        BY <1>1, <2>4, <4>1 DEF TypeOK
      <4> QED BY <4>2 DEF Stored
    <3>2. e \in wire'[current[c]]
      BY <1>13, <2>1, <2>4, <3>1
    <3>3. n <= store[d].clock
      <4>1. CASE view[c][d].active /\ n = view[c][d].clock
        BY <1>1, <4>1 DEF ViewsSound
      <4>2. CASE Entry(d, n, TRUE) \in wire'[current[c]]
        <5>1. Entry(d, n, TRUE) # e
          BY <3>1 DEF Entry
        <5>2. Entry(d, n, TRUE) \in wire[current[c]]
          BY <1>13, <2>1, <4>2, <5>1
        <5>3. Entry(d, n, TRUE).clock <= store[Entry(d, n, TRUE).client].clock
          BY <1>1, <2>1, <5>2 DEF ClocksSound
        <5> QED BY <5>3 DEF Entry
      <4> QED BY <1>2, <4>1, <4>2 DEF Shown
    <3>4. e.clock >= n
      <4>1. store[d].clock <= e.clock
        BY <1>7, <1>9, <2>4 DEF ShouldApply
      <4> QED BY <1>7, <1>9, <2>1, <3>3, <4>1
    <3> QED BY <1>2, <2>4, <3>1, <3>2, <3>4 DEF Removed
  <2> QED BY <2>2, <2>3, <2>4
<1> QED BY <1>14, <1>15, <1>16, <1>17, <1>18, <1>19, <1>20, <1>21 DEF IInv

(* What an ended connection leaves of a browser.                           *)
LEMMA LeftBehind ==
    ASSUME IInv, NEW s \in Sockets, EndSocket(s)
    PROVE  /\ pc' \in [Sockets -> {"free", "join", "greet", "receive"}]
           /\ \A t \in Sockets : pc'[t] = IF t = s THEN "free" ELSE pc[t]
           /\ conn' \in [Sockets -> Clients \cup {Nobody}]
           /\ \A t \in Sockets : conn'[t] = IF t = s THEN Nobody ELSE conn[t]
           /\ up' \in [Sockets -> Seq(Entries)]
           /\ \A t \in Sockets : up'[t] = IF t = s THEN <<>> ELSE up[t]
           /\ \A c \in Clients :
                /\ current'[c] # Nobody => /\ current'[c] = current[c]
                                           /\ current[c] \in Sockets \ {s}
                                           /\ view'[c] = view[c]
                /\ \A d \in Clients : view'[c][d].active =>
                     view[c][d].active /\ current'[c] = current[c] /\ current'[c] # s
                     /\ view'[c] = view[c]
<1>1. TypeOK
  BY DEF IInv
<1>2. /\ pc' = [pc EXCEPT ![s] = "free"] /\ conn' = [conn EXCEPT ![s] = Nobody]
      /\ up' = [up EXCEPT ![s] = <<>>]
  BY DEF EndSocket
<1>3. /\ pc' \in [Sockets -> {"free", "join", "greet", "receive"}]
      /\ \A t \in Sockets : pc'[t] = IF t = s THEN "free" ELSE pc[t]
  BY <1>1, <1>2 DEF TypeOK
<1>4. /\ conn' \in [Sockets -> Clients \cup {Nobody}]
      /\ \A t \in Sockets : conn'[t] = IF t = s THEN Nobody ELSE conn[t]
  BY <1>1, <1>2 DEF TypeOK
<1>5. up' \in [Sockets -> Seq(Entries)] /\ \A t \in Sockets : up'[t] = IF t = s THEN <<>> ELSE up[t]
  BY <1>1, <1>2 DEF TypeOK
<1>6. ASSUME NEW c \in Clients
      PROVE  /\ current'[c] # Nobody => /\ current'[c] = current[c]
                                        /\ current[c] \in Sockets \ {s}
                                        /\ view'[c] = view[c]
             /\ \A d \in Clients : view'[c][d].active =>
                  view[c][d].active /\ current'[c] = current[c] /\ current'[c] # s
                  /\ view'[c] = view[c]
  <2>1. IF current[c] = s
          THEN current'[c] = Nobody /\ \A d \in Clients : ~view'[c][d].active
          ELSE current'[c] = current[c] /\ view'[c] = view[c]
    BY EndSocketFacts
  <2>2. current[c] \in Sockets \cup {Nobody}
    BY <1>1 DEF TypeOK
  <2> QED BY <2>1, <2>2
<1> QED BY <1>3, <1>4, <1>5, <1>6

(* The clocks that the browsers and the frames hold are as before.         *)
LEMMA EndKeepsClocks ==
    ASSUME IInv, NEW s \in Sockets, EndSocket(s)
    PROVE  /\ \A c, d \in Clients : view'[c][d].active => view'[c][d].clock > 0
           /\ \A t \in Sockets : \A e \in Frames(up'[t]) : e.clock <= clock'[e.client]
<1>1. ClocksSound /\ clock' = clock
  BY EndSocketFacts DEF IInv
<1>2. ASSUME NEW c \in Clients, NEW d \in Clients, view'[c][d].active
      PROVE  view'[c][d].clock > 0
  <2>1. view[c][d].active /\ view'[c] = view[c]
    BY <1>2, LeftBehind
  <2> QED BY <1>1, <2>1 DEF ClocksSound
<1>3. ASSUME NEW t \in Sockets, NEW e \in Frames(up'[t]) PROVE e.clock <= clock'[e.client]
  <2>1. up'[t] = IF t = s THEN <<>> ELSE up[t]
    BY LeftBehind
  <2>2. e \in Frames(up[t])
    BY <1>3, <2>1, FramesOfNew
  <2> QED BY <1>1, <2>2 DEF ClocksSound
<1> QED BY <1>2, <1>3

LEMMA NotJoinedIInv == ASSUME IInv, NEW s \in Sockets, NotJoined(s) PROVE IInv'
<1>1. TypeOK /\ SocketsSound /\ ClocksSound /\ EchoesSound /\ ViewsSound /\ ClockComes
      /\ PresenceIsOwned /\ RemovalComes
  BY DEF IInv
<1>2. EndSocket(s) /\ UNCHANGED <<room, store, wire>> /\ s \notin room
  BY <1>1 DEF NotJoined, TypeOK
<1>3. /\ pc' \in [Sockets -> {"free", "join", "greet", "receive"}]
      /\ \A t \in Sockets : pc'[t] = IF t = s THEN "free" ELSE pc[t]
      /\ conn' \in [Sockets -> Clients \cup {Nobody}]
      /\ \A t \in Sockets : conn'[t] = IF t = s THEN Nobody ELSE conn[t]
      /\ up' \in [Sockets -> Seq(Entries)]
      /\ \A t \in Sockets : up'[t] = IF t = s THEN <<>> ELSE up[t]
  BY <1>2, LeftBehind
<1>4. \A c \in Clients :
        /\ current'[c] # Nobody => /\ current'[c] = current[c]
                                   /\ current[c] \in Sockets \ {s}
                                   /\ view'[c] = view[c]
        /\ \A d \in Clients : view'[c][d].active =>
             view[c][d].active /\ current'[c] = current[c] /\ current'[c] # s
             /\ view'[c] = view[c]
  BY <1>2, LeftBehind
<1>5. /\ current' \in [Clients -> Sockets \cup {Nobody}]
      /\ view' \in [Clients -> [Clients -> [clock : Clocks, active : BOOLEAN]]]
      /\ clock' = clock
  BY <1>2, EndSocketFacts
<1>6. TypeOK'
  <2>1. \A t \in Sockets : t \in room' <=> pc'[t] \in {"greet", "receive"}
    BY <1>1, <1>2, <1>3 DEF TypeOK
  <2> QED BY <1>1, <1>2, <1>3, <1>5, <2>1 DEF TypeOK
<1>7. SocketsSound'
  <2>1. \A t \in Sockets : pc'[t] = "free" => conn'[t] = Nobody
    BY <1>1, <1>3 DEF SocketsSound
  <2>2. \A t \in Sockets : t \notin room => wire[t] = {}
    BY <1>1 DEF SocketsSound
  <2>3. \A c \in Clients : current'[c] # Nobody => conn'[current'[c]] = c
    BY <1>1, <1>3, <1>4 DEF SocketsSound
  <2> QED BY <1>2, <2>1, <2>2, <2>3 DEF SocketsSound
<1>8. ClocksSound'
  <2>1. /\ \A c, d \in Clients : view'[c][d].active => view'[c][d].clock > 0
        /\ \A t \in Sockets : \A e \in Frames(up'[t]) : e.clock <= clock'[e.client]
    BY <1>2, EndKeepsClocks
  <2> QED BY <1>1, <1>2, <1>5, <2>1 DEF ClocksSound
<1>9. EchoesSound'
  <2>1. ASSUME NEW t \in Sockets, NEW e \in Frames(up'[t]), e.active, e.client # conn'[t]
        PROVE  t \in room /\ e.clock <= store[e.client].clock
    <3>1. t # s
      BY <1>3, <2>1, FramesOfNew
    <3> QED BY <1>1, <1>3, <2>1, <3>1 DEF EchoesSound
  <2> QED BY <1>2, <2>1 DEF EchoesSound
<1>10. ViewsSound'
  <2>1. ASSUME NEW c \in Clients, NEW d \in Clients, view'[c][d].active
        PROVE  current'[c] \in room /\ view'[c][d].clock <= store[d].clock
    BY <1>1, <1>4, <2>1 DEF ViewsSound
  <2> QED BY <1>2, <2>1 DEF ViewsSound
<1>11. ClockComes'
  <2>1. ASSUME NEW c \in Clients, current'[c] # Nobody
        PROVE  \/ current'[c] \in room /\ store[c].clock = clock[c]
               \/ \E e \in Frames(up'[current'[c]]) : e.client = c /\ e.clock = clock[c]
    <3>1. current'[c] = current[c] /\ current[c] \in Sockets \ {s} /\ current[c] # Nobody
      BY <1>4, <2>1
    <3>2. up'[current[c]] = up[current[c]]
      BY <1>3, <3>1
    <3> QED BY <1>1, <3>1, <3>2 DEF ClockComes
  <2> QED BY <1>2, <1>5, <2>1 DEF ClockComes
<1>12. PresenceIsOwned'
  <2>1. ASSUME NEW c \in Clients, store[c].active
        PROVE  store[c].owner \in room /\ conn'[store[c].owner] = c
    <3>1. store[c].owner \in room /\ conn[store[c].owner] = c
      BY <1>1, <2>1 DEF PresenceIsOwned
    <3>2. store[c].owner \in Sockets /\ store[c].owner # s
      BY <1>1, <1>2, <3>1 DEF TypeOK
    <3> QED BY <1>3, <3>1, <3>2
  <2> QED BY <1>2, <2>1 DEF PresenceIsOwned
<1>13. RemovalComes'
  <2> SUFFICES ASSUME NEW c \in Clients, NEW d \in Clients, c # d, current'[c] \in room',
                      ~store'[d].active, NEW n \in Clocks, Shown(c, d, n)'
               PROVE  Removed(c, d, n)'
    BY DEF RemovalComes
  <2>1. current'[c] # Nobody
    <3>1. current'[c] \in Sockets
      BY <1>1, <1>2 DEF TypeOK
    <3> QED BY <3>1, AwarenessAssumption
  <2>2. current'[c] = current[c] /\ view'[c] = view[c] /\ current[c] \in room
    BY <1>2, <1>4, <2>1
  <2>3. Shown(c, d, n) /\ ~store[d].active
    BY <1>2, <2>2 DEF Shown
  <2>4. Removed(c, d, n)
    BY <1>1, <2>2, <2>3 DEF RemovalComes
  <2> QED BY <1>2, <2>2, <2>4 DEF Removed
<1> QED BY <1>6, <1>7, <1>8, <1>9, <1>10, <1>11, <1>12, <1>13 DEF IInv

LEMMA CrashIInv == ASSUME IInv, Crash PROVE IInv'
<1>1. TypeOK /\ ClocksSound
  BY DEF IInv
<1>2. /\ room' = {} /\ pc' = [s \in Sockets |-> "free"]
      /\ store' = [c \in Clients |-> Absent]
      /\ conn' = [s \in Sockets |-> Nobody]
      /\ up' = [s \in Sockets |-> <<>>] /\ wire' = [s \in Sockets |-> {}]
      /\ current' = [c \in Clients |-> Nobody]
      /\ view' = [c \in Clients |-> Hidden(c)] /\ clock' = clock
  BY DEF Crash
<1>3. \A c \in Clients : /\ Hidden(c) \in [Clients -> [clock : Clocks, active : BOOLEAN]]
                         /\ \A d \in Clients : ~Hidden(c)[d].active
  BY <1>1, HiddenFacts
<1>4. /\ view' \in [Clients -> [Clients -> [clock : Clocks, active : BOOLEAN]]]
      /\ \A c, d \in Clients : ~view'[c][d].active
  BY <1>2, <1>3
<1>5. /\ store' \in [Clients -> [clock : Clocks, active : BOOLEAN, owner : Sockets \cup {Nobody}]]
      /\ \A c \in Clients : store'[c].clock = 0 /\ ~store'[c].active
  BY <1>2, ClockFacts DEF Absent
<1>6. /\ up' \in [Sockets -> Seq(Entries)] /\ wire' \in [Sockets -> SUBSET Entries]
      /\ \A s \in Sockets : Frames(up'[s]) = {} /\ wire'[s] = {}
  BY <1>2, FramesOfNew
<1>7. TypeOK'
  <2>1. \A s \in Sockets : s \in room' <=> pc'[s] \in {"greet", "receive"}
    BY <1>2
  <2> QED BY <1>1, <1>2, <1>4, <1>5, <1>6, <2>1 DEF TypeOK
<1>8. SocketsSound' /\ EchoesSound' /\ ViewsSound' /\ ClockComes' /\ PresenceIsOwned'
  BY <1>2, <1>4, <1>5, <1>6 DEF SocketsSound, EchoesSound, ViewsSound, ClockComes, PresenceIsOwned
<1>9. ClocksSound'
  <2>1. \A c \in Clients : store'[c].clock <= clock[c]
    <3>1. \A c \in Clients : clock[c] \in Nat
      BY <1>1, Numbers
    <3> QED BY <1>5, <3>1
  <2> QED BY <1>2, <1>4, <1>5, <1>6, <2>1 DEF ClocksSound
<1>10. RemovalComes'
  BY <1>2 DEF RemovalComes
<1> QED BY <1>7, <1>8, <1>9, <1>10 DEF IInv

(* What the room and the store are when a connection has left.             *)
LEMMA LeftFacts ==
    ASSUME IInv, NEW s \in room, LeaveRoom(s)
    PROVE  /\ store' \in [Clients -> [clock : Clocks, active : BOOLEAN, owner : Sockets \cup {Nobody}]]
           /\ \A c \in Clients :
                /\ store'[c].clock <= store[c].clock
                /\ store'[c].active => store'[c] = store[c] /\ store[c].owner # s
                /\ room' # {} => store'[c].clock = store[c].clock
           /\ wire' \in [Sockets -> SUBSET Entries]
           /\ \A t \in Sockets : t \notin room' => wire'[t] = {}
           /\ \A t \in Sockets : \A e \in wire'[t] :
                /\ room' # {} /\ t # s
                /\ e \in wire[t] \/ (~e.active /\ e.clock = store[e.client].clock)
           /\ \A t \in room' : wire[t] \subseteq wire'[t]
           /\ \A c, d \in Clients :
                current[c] \in room' /\ store[d].active /\ ~store'[d].active =>
                  \E e \in wire'[current[c]] :
                     e.client = d /\ ~e.active /\ e.clock = store[d].clock
<1>1. TypeOK /\ SocketsSound /\ ClocksSound /\ s \in Sockets
  BY DEF IInv, TypeOK
<1> DEFINE gone == OwnedBy(s)
<1>2. /\ room' = room \ {s} /\ store' = Left(s)
      /\ wire' = [t \in Sockets |->
                    IF t = s THEN {}
                    ELSE IF t \in room /\ Hears(t) THEN wire[t] \cup Removals(gone)
                    ELSE wire[t]]
  BY DEF LeaveRoom
<1>3. gone \in SUBSET Active /\ \A c \in Clients : store[c].active => (c \in gone <=> store[c].owner = s)
  BY DEF OwnedBy, Active
<1> HIDE DEF gone
<1>4. /\ MarkRemoved(gone) \in [Clients -> [clock : Clocks, active : BOOLEAN,
                                            owner : Sockets \cup {Nobody}]]
      /\ \A c \in Clients :
           IF c \in gone THEN /\ MarkRemoved(gone)[c].clock = store[c].clock
                              /\ ~MarkRemoved(gone)[c].active
           ELSE MarkRemoved(gone)[c] = store[c]
      /\ Removals(gone) \in SUBSET Entries
      /\ \A e \in Removals(gone) : ~e.active /\ e.clock = store[e.client].clock
      /\ \A c \in gone : \E e \in Removals(gone) :
           e.client = c /\ ~e.active /\ e.clock = store[c].clock
  BY <1>1, <1>3, RemovedFacts
<1>5. \A c \in Clients : store[c].clock \in Nat
  BY <1>1, Numbers
<1>6. room' = {} => store' = [c \in Clients |-> Absent]
  BY <1>1, <1>2 DEF Left
<1>7. room' # {} => store' = MarkRemoved(gone)
  BY <1>2 DEF Left, gone
<1>8. /\ store' \in [Clients -> [clock : Clocks, active : BOOLEAN, owner : Sockets \cup {Nobody}]]
      /\ \A c \in Clients :
           /\ store'[c].clock <= store[c].clock
           /\ store'[c].active => store'[c] = store[c] /\ store[c].owner # s
           /\ room' # {} => store'[c].clock = store[c].clock
  <2>1. CASE room' = {}
    <3>1. /\ store' \in [Clients -> [clock : Clocks, active : BOOLEAN,
                                     owner : Sockets \cup {Nobody}]]
          /\ \A c \in Clients : store'[c].clock = 0 /\ ~store'[c].active
      <4>1. store' = [c \in Clients |-> Absent]
        BY <1>6, <2>1
      <4>2. \A c \in Clients : 0 \in Clocks
        BY ClockFacts
      <4> QED BY <4>1, <4>2 DEF Absent
    <3> QED BY <1>5, <2>1, <3>1
  <2>2. CASE room' # {}
    <3>1. store' = MarkRemoved(gone)
      BY <1>7, <2>2
    <3>2. \A c \in Clients : store'[c].clock = store[c].clock
      BY <1>4, <3>1
    <3>3. \A c \in Clients : store'[c].active => c \notin gone /\ store'[c] = store[c]
      BY <1>4, <3>1
    <3>4. \A c \in Clients : store'[c].active => store'[c] = store[c] /\ store[c].owner # s
      BY <1>3, <3>3
    <3> QED BY <1>4, <1>5, <3>1, <3>2, <3>4
  <2> QED BY <2>1, <2>2
<1>9. \A t \in Sockets : wire'[t] =
        IF t = s THEN {} ELSE IF t \in room /\ Hears(t) THEN wire[t] \cup Removals(gone) ELSE wire[t]
  BY <1>2
<1>10. wire' \in [Sockets -> SUBSET Entries]
  <2>1. \A t \in Sockets : (IF t = s THEN {}
                            ELSE IF t \in room /\ Hears(t) THEN wire[t] \cup Removals(gone)
                            ELSE wire[t]) \in SUBSET Entries
    BY <1>1, <1>4 DEF TypeOK
  <2> QED BY <1>2, <2>1
<1>11. \A t \in Sockets : t \notin room => wire[t] = {}
  BY <1>1 DEF SocketsSound
<1>12. \A t \in Sockets : t \notin room' => wire'[t] = {}
  BY <1>2, <1>9, <1>11
<1>13. ASSUME NEW t \in Sockets, NEW e \in wire'[t]
       PROVE  /\ room' # {} /\ t # s
              /\ e \in wire[t] \/ (~e.active /\ e.clock = store[e.client].clock)
  <2>1. t \in room' /\ t # s
    BY <1>2, <1>12, <1>13
  <2>2. e \in wire[t] \/ e \in Removals(gone)
    BY <1>9, <1>13, <2>1
  <2> QED BY <1>4, <2>1, <2>2
<1>14. \A t \in room' : wire[t] \subseteq wire'[t]
  BY <1>1, <1>2, <1>9 DEF TypeOK
<1>15. ASSUME NEW c \in Clients, NEW d \in Clients, current[c] \in room',
              store[d].active, ~store'[d].active
       PROVE  \E e \in wire'[current[c]] : e.client = d /\ ~e.active /\ e.clock = store[d].clock
  <2>1. current[c] \in room /\ current[c] # s /\ current[c] \in Sockets /\ current[c] # Nobody
        /\ c # Nobody
    BY <1>1, <1>2, <1>15, AwarenessAssumption DEF TypeOK
  <2>2. conn[current[c]] = c
    BY <1>1, <2>1 DEF SocketsSound
  <2>3. Hears(current[c])
    BY <2>1, <2>2 DEF Hears
  <2>4. wire'[current[c]] = wire[current[c]] \cup Removals(gone)
    BY <1>9, <2>1, <2>3
  <2>5. d \in gone
    BY <1>4, <1>7, <1>15
  <2> QED BY <1>4, <2>4, <2>5
<1> QED BY <1>8, <1>10, <1>12, <1>13, <1>14, <1>15

LEMMA LeaveRoomIInv == ASSUME IInv, NEW s \in Sockets, LeaveRoom(s) PROVE IInv'
<1>1. TypeOK /\ SocketsSound /\ ClocksSound /\ EchoesSound /\ ViewsSound /\ ClockComes
      /\ PresenceIsOwned /\ RemovalComes
  BY DEF IInv
<1>2. EndSocket(s) /\ room' = room \ {s} /\ s \in room
  BY DEF LeaveRoom
<1>3. /\ pc' \in [Sockets -> {"free", "join", "greet", "receive"}]
      /\ \A t \in Sockets : pc'[t] = IF t = s THEN "free" ELSE pc[t]
      /\ conn' \in [Sockets -> Clients \cup {Nobody}]
      /\ \A t \in Sockets : conn'[t] = IF t = s THEN Nobody ELSE conn[t]
      /\ up' \in [Sockets -> Seq(Entries)]
      /\ \A t \in Sockets : up'[t] = IF t = s THEN <<>> ELSE up[t]
  BY <1>2, LeftBehind
<1>4. \A c \in Clients :
        /\ current'[c] # Nobody => /\ current'[c] = current[c]
                                   /\ current[c] \in Sockets \ {s}
                                   /\ view'[c] = view[c]
        /\ \A d \in Clients : view'[c][d].active =>
             view[c][d].active /\ current'[c] = current[c] /\ current'[c] # s
             /\ view'[c] = view[c]
  BY <1>2, LeftBehind
<1>5. /\ current' \in [Clients -> Sockets \cup {Nobody}]
      /\ view' \in [Clients -> [Clients -> [clock : Clocks, active : BOOLEAN]]]
      /\ clock' = clock
  BY <1>2, EndSocketFacts
<1>6. /\ store' \in [Clients -> [clock : Clocks, active : BOOLEAN, owner : Sockets \cup {Nobody}]]
      /\ \A c \in Clients :
           /\ store'[c].clock <= store[c].clock
           /\ store'[c].active => store'[c] = store[c] /\ store[c].owner # s
           /\ room' # {} => store'[c].clock = store[c].clock
  BY <1>2, LeftFacts
<1>7. /\ wire' \in [Sockets -> SUBSET Entries]
      /\ \A t \in Sockets : t \notin room' => wire'[t] = {}
      /\ \A t \in Sockets : \A e \in wire'[t] :
           /\ room' # {} /\ t # s
           /\ e \in wire[t] \/ (~e.active /\ e.clock = store[e.client].clock)
      /\ \A t \in room' : wire[t] \subseteq wire'[t]
  BY <1>2, LeftFacts
<1>8. \A c, d \in Clients :
        current[c] \in room' /\ store[d].active /\ ~store'[d].active =>
          \E e \in wire'[current[c]] : e.client = d /\ ~e.active /\ e.clock = store[d].clock
  BY <1>2, LeftFacts
<1>9. /\ \A c \in Clients : store[c].clock \in Nat /\ store'[c].clock \in Nat /\ clock[c] \in Nat
      /\ \A t \in Sockets : wire[t] \subseteq Entries /\ Frames(up[t]) \subseteq Entries
      /\ \A e \in Entries : e.client \in Clients /\ e.clock \in Nat
  <2>1. \A c \in Clients : store'[c].clock \in Clocks
    BY <1>6
  <2>2. \A c \in Clients : store'[c].clock \in Nat
    BY <2>1, ClockFacts
  <2> QED BY <1>1, <2>2, Numbers
<1>10. TypeOK'
  <2>1. \A t \in Sockets : t \in room' <=> pc'[t] \in {"greet", "receive"}
    BY <1>1, <1>2, <1>3 DEF TypeOK
  <2> QED BY <1>1, <1>2, <1>3, <1>5, <1>6, <1>7, <2>1 DEF TypeOK
<1>11. SocketsSound'
  <2>1. \A t \in Sockets : pc'[t] = "free" => conn'[t] = Nobody
    BY <1>1, <1>3 DEF SocketsSound
  <2>2. \A c \in Clients : current'[c] # Nobody => conn'[current'[c]] = c
    BY <1>1, <1>3, <1>4 DEF SocketsSound
  <2> QED BY <1>7, <2>1, <2>2 DEF SocketsSound
<1>12. ClocksSound'
  <2>1. /\ \A c, d \in Clients : view'[c][d].active => view'[c][d].clock > 0
        /\ \A t \in Sockets : \A e \in Frames(up'[t]) : e.clock <= clock'[e.client]
    BY <1>2, EndKeepsClocks
  <2>2. ASSUME NEW c \in Clients
        PROVE  store'[c].clock <= clock[c] /\ (store'[c].active => store'[c].clock > 0)
    <3>1. store[c].clock <= clock[c] /\ (store[c].active => store[c].clock > 0)
      BY <1>1 DEF ClocksSound
    <3> QED BY <1>6, <1>9, <3>1
  <2>3. ASSUME NEW t \in Sockets, NEW e \in wire'[t] PROVE e.clock <= store'[e.client].clock
    <3>1. room' # {} /\ (e \in wire[t] \/ e.clock = store[e.client].clock)
      BY <1>7, <2>3
    <3>2. e \in Entries /\ e.client \in Clients /\ e.clock \in Nat
      BY <1>7, <1>9, <2>3
    <3>3. e.clock <= store[e.client].clock
      <4>1. CASE e \in wire[t]
        BY <1>1, <4>1 DEF ClocksSound
      <4>2. CASE e.clock = store[e.client].clock
        BY <3>2, <4>2
      <4> QED BY <3>1, <4>1, <4>2
    <3>4. store'[e.client].clock = store[e.client].clock
      BY <1>6, <3>1, <3>2
    <3> QED BY <3>3, <3>4
  <2> QED BY <1>5, <2>1, <2>2, <2>3 DEF ClocksSound
<1>13. EchoesSound'
  <2>1. ASSUME NEW t \in Sockets, NEW e \in Frames(up'[t]), e.active, e.client # conn'[t]
        PROVE  t \in room' /\ e.clock <= store'[e.client].clock
    <3>1. t # s
      BY <1>3, <2>1, FramesOfNew
    <3>2. e \in Frames(up[t]) /\ e.client # conn[t]
      BY <1>3, <2>1, <3>1
    <3>3. t \in room' /\ e.clock <= store[e.client].clock
      BY <1>1, <1>2, <2>1, <3>1, <3>2 DEF EchoesSound
    <3>4. store'[e.client].clock = store[e.client].clock
      BY <1>6, <1>9, <3>2, <3>3
    <3> QED BY <3>3, <3>4
  <2> QED BY <2>1 DEF EchoesSound
<1>14. ViewsSound'
  <2>1. ASSUME NEW c \in Clients, NEW d \in Clients, view'[c][d].active
        PROVE  current'[c] \in room' /\ view'[c][d].clock <= store'[d].clock
    <3>1. view[c][d].active /\ current'[c] = current[c] /\ current'[c] # s /\ view'[c] = view[c]
      BY <1>4, <2>1
    <3>2. current[c] \in room /\ view[c][d].clock <= store[d].clock
      BY <1>1, <3>1 DEF ViewsSound
    <3>3. current'[c] \in room'
      BY <1>2, <3>1, <3>2
    <3>4. store'[d].clock = store[d].clock
      BY <1>6, <3>3
    <3> QED BY <3>1, <3>2, <3>3, <3>4
  <2> QED BY <2>1 DEF ViewsSound
<1>15. ClockComes'
  <2>1. ASSUME NEW c \in Clients, current'[c] # Nobody
        PROVE  \/ current'[c] \in room' /\ store'[c].clock = clock[c]
               \/ \E e \in Frames(up'[current'[c]]) : e.client = c /\ e.clock = clock[c]
    <3>1. current'[c] = current[c] /\ current[c] \in Sockets \ {s} /\ current[c] # Nobody
      BY <1>4, <2>1
    <3>2. up'[current[c]] = up[current[c]]
      BY <1>3, <3>1
    <3>3. CASE current[c] \in room /\ store[c].clock = clock[c]
      <4>1. current[c] \in room'
        BY <1>2, <3>1, <3>3
      <4> QED BY <1>6, <3>1, <3>3, <4>1
    <3>4. CASE \E e \in Frames(up[current[c]]) : e.client = c /\ e.clock = clock[c]
      BY <3>1, <3>2, <3>4
    <3> QED BY <1>1, <3>1, <3>3, <3>4 DEF ClockComes
  <2> QED BY <1>5, <2>1 DEF ClockComes
<1>16. PresenceIsOwned'
  <2>1. ASSUME NEW c \in Clients, store'[c].active
        PROVE  store'[c].owner \in room' /\ conn'[store'[c].owner] = c
    <3>1. store'[c] = store[c] /\ store[c].owner # s
      BY <1>6, <2>1
    <3>2. store[c].owner \in room /\ conn[store[c].owner] = c
      BY <1>1, <2>1, <3>1 DEF PresenceIsOwned
    <3>3. store[c].owner \in Sockets
      BY <1>1, <3>2 DEF TypeOK
    <3> QED BY <1>2, <1>3, <3>1, <3>2, <3>3
  <2> QED BY <2>1 DEF PresenceIsOwned
<1>17. RemovalComes'
  <2> SUFFICES ASSUME NEW c \in Clients, NEW d \in Clients, c # d, current'[c] \in room',
                      ~store'[d].active, NEW n \in Clocks, Shown(c, d, n)'
               PROVE  Removed(c, d, n)'
    BY DEF RemovalComes
  <2>1. current'[c] \in Sockets /\ current'[c] # Nobody
    <3>1. current'[c] \in Sockets
      BY <1>1, <1>2 DEF TypeOK
    <3> QED BY <3>1, AwarenessAssumption
  <2>2. /\ current'[c] = current[c] /\ view'[c] = view[c] /\ n \in Nat
        /\ current[c] \in room /\ current[c] \in room'
    BY <1>2, <1>4, <2>1, ClockFacts
  <2>3. Shown(c, d, n)
    <3>1. ASSUME Entry(d, n, TRUE) \in wire'[current[c]] PROVE Entry(d, n, TRUE) \in wire[current[c]]
      <4>1. Entry(d, n, TRUE).active
        BY DEF Entry
      <4> QED BY <1>7, <2>1, <2>2, <3>1, <4>1
    <3> QED BY <2>2, <3>1 DEF Shown
  <2>4. CASE ~store[d].active
    <3>1. Removed(c, d, n)
      BY <1>1, <2>2, <2>3, <2>4 DEF RemovalComes
    <3> QED BY <1>7, <2>2, <3>1 DEF Removed
  <2>5. CASE store[d].active
    <3>1. n <= store[d].clock
      <4>1. CASE view[c][d].active /\ n = view[c][d].clock
        BY <1>1, <4>1 DEF ViewsSound
      <4>2. CASE Entry(d, n, TRUE) \in wire[current[c]]
        <5>1. Entry(d, n, TRUE).clock <= store[Entry(d, n, TRUE).client].clock
          BY <1>1, <2>1, <2>2, <4>2 DEF ClocksSound
        <5> QED BY <5>1 DEF Entry
      <4> QED BY <2>3, <4>1, <4>2 DEF Shown
    <3>2. PICK e \in wire'[current[c]] : e.client = d /\ ~e.active /\ e.clock = store[d].clock
      BY <1>8, <2>2, <2>5
    <3>3. e.clock >= n
      BY <1>9, <2>2, <3>1, <3>2
    <3> QED BY <2>2, <3>2, <3>3 DEF Removed
  <2> QED BY <2>4, <2>5
<1> QED BY <1>10, <1>11, <1>12, <1>13, <1>14, <1>15, <1>16, <1>17 DEF IInv

-----------------------------------------------------------------------------
(***************************************************************************)
(* The steps of the browsers                                               *)
(***************************************************************************)
LEMMA OpenIInv == ASSUME IInv, NEW c \in Clients, Open(c) PROVE IInv'
<1>1. TypeOK /\ SocketsSound /\ ClocksSound /\ EchoesSound /\ ViewsSound /\ ClockComes
      /\ PresenceIsOwned /\ RemovalComes
  BY DEF IInv
<1>2. PICK s \in Sockets :
        /\ current[c] = Nobody
        /\ pc[s] = "free"
        /\ pc' = [pc EXCEPT ![s] = "join"]
        /\ conn' = [conn EXCEPT ![s] = c]
        /\ up' = [up EXCEPT ![s] = <<Entry(c, clock[c], TRUE)>>]
        /\ current' = [current EXCEPT ![c] = s]
        /\ UNCHANGED <<room, store, wire, clock, view>>
  BY DEF Open
<1>3. s \notin room /\ conn[s] = Nobody /\ s # Nobody /\ c # Nobody /\ room \subseteq Sockets
  BY <1>1, <1>2, AwarenessAssumption DEF TypeOK, SocketsSound
<1> DEFINE e == Entry(c, clock[c], TRUE)
<1>4. e \in Entries /\ e.client = c /\ e.clock = clock[c]
  BY <1>1 DEF Entry, Entries, TypeOK
<1>5. UNCHANGED <<room, store, wire, clock, view>> /\ up' = [up EXCEPT ![s] = <<e>>]
  BY <1>2
<1> HIDE DEF e
<1>6. /\ pc' \in [Sockets -> {"free", "join", "greet", "receive"}]
      /\ \A t \in Sockets : pc'[t] = IF t = s THEN "join" ELSE pc[t]
  BY <1>1, <1>2 DEF TypeOK
<1>7. conn' \in [Sockets -> Clients \cup {Nobody}] /\ \A t \in Sockets : conn'[t] = IF t = s THEN c ELSE conn[t]
  BY <1>1, <1>2 DEF TypeOK
<1>8. /\ up' \in [Sockets -> Seq(Entries)]
      /\ \A t \in Sockets : Frames(up'[t]) = IF t = s THEN {e} ELSE Frames(up[t])
  <2>1. <<e>> \in Seq(Entries)
    BY <1>4
  <2>2. up' \in [Sockets -> Seq(Entries)] /\ \A t \in Sockets : up'[t] = IF t = s THEN <<e>> ELSE up[t]
    BY <1>1, <1>5, <2>1 DEF TypeOK
  <2> QED BY <2>2, FramesOfNew
<1>9. /\ current' \in [Clients -> Sockets \cup {Nobody}]
      /\ \A d \in Clients : current'[d] = IF d = c THEN s ELSE current[d]
  BY <1>1, <1>2 DEF TypeOK
<1>10. \A d \in Clients : ~view[c][d].active
  BY <1>1, <1>2, <1>3, AwarenessAssumption DEF ViewsSound
<1>11. TypeOK'
  <2>1. \A t \in Sockets : t \in room <=> pc'[t] \in {"greet", "receive"}
    BY <1>1, <1>3, <1>6 DEF TypeOK
  <2> QED BY <1>1, <1>5, <1>6, <1>7, <1>8, <1>9, <2>1 DEF TypeOK
<1>12. SocketsSound'
  <2>1. \A t \in Sockets : pc'[t] = "free" => conn'[t] = Nobody
    BY <1>1, <1>6, <1>7 DEF SocketsSound
  <2>2. ASSUME NEW d \in Clients, current'[d] # Nobody PROVE conn'[current'[d]] = d
    <3>1. CASE d = c
      BY <1>7, <1>9, <3>1
    <3>2. CASE d # c
      <4>1. current'[d] = current[d] /\ conn[current[d]] = d /\ current[d] \in Sockets
        BY <1>1, <1>9, <2>2, <3>2 DEF SocketsSound, TypeOK
      <4>2. current[d] # s
        BY <1>3, <4>1, AwarenessAssumption
      <4> QED BY <1>7, <4>1, <4>2
    <3> QED BY <3>1, <3>2
  <2>3. \A t \in Sockets : t \notin room => wire[t] = {}
    BY <1>1 DEF SocketsSound
  <2> QED BY <1>5, <2>1, <2>2, <2>3 DEF SocketsSound
<1>13. ClocksSound'
  <2>1. \A t \in Sockets : \A f \in Frames(up'[t]) : f.clock <= clock[f.client]
    <3>1. e.clock <= clock[e.client]
      <4>1. clock[c] \in Nat
        BY <1>1, Numbers
      <4> QED BY <1>4, <4>1
    <3> QED BY <1>1, <1>8, <3>1 DEF ClocksSound
  <2> QED BY <1>1, <1>5, <2>1 DEF ClocksSound
<1>14. EchoesSound'
  <2>1. ASSUME NEW t \in Sockets, NEW f \in Frames(up'[t]), f.active, f.client # conn'[t]
        PROVE  t \in room /\ f.clock <= store[f.client].clock
    <3>1. t # s
      BY <1>4, <1>7, <1>8, <2>1
    <3> QED BY <1>1, <1>7, <1>8, <2>1, <3>1 DEF EchoesSound
  <2> QED BY <1>5, <2>1 DEF EchoesSound
<1>15. ViewsSound'
  BY <1>1, <1>5, <1>9, <1>10 DEF ViewsSound
<1>16. ClockComes'
  <2>1. ASSUME NEW d \in Clients, current'[d] # Nobody
        PROVE  \/ current'[d] \in room /\ store[d].clock = clock[d]
               \/ \E f \in Frames(up'[current'[d]]) : f.client = d /\ f.clock = clock[d]
    <3>1. CASE d = c
      BY <1>4, <1>8, <1>9, <3>1
    <3>2. CASE d # c
      <4>1. current'[d] = current[d] /\ conn[current[d]] = d /\ current[d] \in Sockets
        BY <1>1, <1>9, <2>1, <3>2 DEF SocketsSound, TypeOK
      <4>2. current[d] # s
        BY <1>3, <4>1, AwarenessAssumption
      <4>3. Frames(up'[current[d]]) = Frames(up[current[d]])
        BY <1>8, <4>1, <4>2
      <4> QED BY <1>1, <2>1, <4>1, <4>3 DEF ClockComes
    <3> QED BY <3>1, <3>2
  <2> QED BY <1>5, <2>1 DEF ClockComes
<1>17. PresenceIsOwned'
  <2>1. ASSUME NEW d \in Clients, store[d].active
        PROVE  store[d].owner \in room /\ conn'[store[d].owner] = d
    BY <1>1, <1>3, <1>7, <2>1 DEF PresenceIsOwned
  <2> QED BY <1>5, <2>1 DEF PresenceIsOwned
<1>18. RemovalComes'
  <2> SUFFICES ASSUME NEW a \in Clients, NEW d \in Clients, a # d, current'[a] \in room',
                      ~store'[d].active, NEW n \in Clocks, Shown(a, d, n)'
               PROVE  Removed(a, d, n)'
    BY DEF RemovalComes
  <2>1. current'[a] = current[a] /\ current[a] \in room
    BY <1>3, <1>5, <1>9
  <2>2. Shown(a, d, n) /\ ~store[d].active
    BY <1>5, <2>1 DEF Shown
  <2>3. Removed(a, d, n)
    BY <1>1, <2>1, <2>2 DEF RemovalComes
  <2> QED BY <1>5, <2>1, <2>3 DEF Removed
<1> QED BY <1>11, <1>12, <1>13, <1>14, <1>15, <1>16, <1>17, <1>18 DEF IInv

LEMMA DropIInv == ASSUME IInv, NEW c \in Clients, Drop(c) PROVE IInv'
<1>1. TypeOK /\ SocketsSound /\ ClocksSound /\ EchoesSound /\ ViewsSound /\ ClockComes
      /\ PresenceIsOwned /\ RemovalComes
  BY DEF IInv
<1>2. /\ current[c] # Nobody
      /\ current' = [current EXCEPT ![c] = Nobody]
      /\ view' = [view EXCEPT ![c] = Hidden(c)]
      /\ wire' = [wire EXCEPT ![current[c]] = {}]
      /\ UNCHANGED <<room, pc, store, conn, up, clock>>
  BY DEF Drop, LoseConnection, server
<1>3. current[c] \in Sockets
  BY <1>1, <1>2 DEF TypeOK
<1>4. /\ view' \in [Clients -> [Clients -> [clock : Clocks, active : BOOLEAN]]]
      /\ \A d \in Clients : IF d = c THEN \A a \in Clients : ~view'[d][a].active ELSE view'[d] = view[d]
  <2>1. /\ Hidden(c) \in [Clients -> [clock : Clocks, active : BOOLEAN]]
        /\ \A d \in Clients : ~Hidden(c)[d].active
    BY <1>1, HiddenFacts
  <2> QED BY <1>1, <1>2, <2>1 DEF TypeOK
<1>5. /\ current' \in [Clients -> Sockets \cup {Nobody}]
      /\ \A d \in Clients : current'[d] = IF d = c THEN Nobody ELSE current[d]
  BY <1>1, <1>2 DEF TypeOK
<1>6. /\ wire' \in [Sockets -> SUBSET Entries]
      /\ \A t \in Sockets : wire'[t] = IF t = current[c] THEN {} ELSE wire[t]
  BY <1>1, <1>2 DEF TypeOK
<1>7. TypeOK'
  BY <1>1, <1>2, <1>4, <1>5, <1>6 DEF TypeOK
<1>8. SocketsSound' /\ EchoesSound' /\ PresenceIsOwned'
  BY <1>1, <1>2, <1>5, <1>6 DEF SocketsSound, EchoesSound, PresenceIsOwned
<1>9. ClocksSound'
  <2>1. \A a, d \in Clients : view'[a][d].active => view'[a][d].clock > 0
    BY <1>1, <1>4 DEF ClocksSound
  <2>2. \A t \in Sockets : \A e \in wire'[t] : e.clock <= store[e.client].clock
    BY <1>1, <1>6 DEF ClocksSound
  <2> QED BY <1>1, <1>2, <2>1, <2>2 DEF ClocksSound
<1>10. ViewsSound'
  BY <1>1, <1>2, <1>4, <1>5 DEF ViewsSound
<1>11. ClockComes'
  BY <1>1, <1>2, <1>5 DEF ClockComes
<1>12. RemovalComes'
  <2> SUFFICES ASSUME NEW a \in Clients, NEW d \in Clients, a # d, current'[a] \in room',
                      ~store'[d].active, NEW n \in Clocks, Shown(a, d, n)'
               PROVE  Removed(a, d, n)'
    BY DEF RemovalComes
  <2>1. current'[a] \in Sockets /\ current'[a] # Nobody
    <3>1. current'[a] \in Sockets
      BY <1>1, <1>2 DEF TypeOK
    <3> QED BY <3>1, AwarenessAssumption
  <2>2. a # c /\ current'[a] = current[a] /\ view'[a] = view[a]
    BY <1>4, <1>5, <2>1
  <2>3. conn[current[a]] = a /\ conn[current[c]] = c
    BY <1>1, <1>2, <2>1, <2>2 DEF SocketsSound
  <2>4. wire'[current[a]] = wire[current[a]]
    BY <1>6, <2>1, <2>2, <2>3
  <2>5. Shown(a, d, n) /\ ~store[d].active /\ current[a] \in room
    <3>1. ~store[d].active /\ current[a] \in room
      BY <1>2, <2>2
    <3>2. view'[a][d] = view[a][d]
      BY <2>2
    <3> QED BY <2>2, <2>4, <3>1, <3>2 DEF Shown
  <2>6. Removed(a, d, n)
    BY <1>1, <2>5 DEF RemovalComes
  <2> QED BY <2>2, <2>4, <2>6 DEF Removed
<1> QED BY <1>7, <1>8, <1>9, <1>10, <1>11, <1>12 DEF IInv

LEMMA HeartbeatIInv == ASSUME IInv, NEW c \in Clients, Heartbeat(c) PROVE IInv'
<1>1. TypeOK /\ SocketsSound /\ ClocksSound /\ EchoesSound /\ ViewsSound /\ ClockComes
      /\ PresenceIsOwned /\ RemovalComes
  BY DEF IInv
<1> DEFINE e == Entry(c, clock[c] + 1, TRUE)
<1>2. /\ clock[c] < MaxClock[c] /\ clock' = [clock EXCEPT ![c] = @ + 1] /\ SendUp(c, e)
      /\ UNCHANGED <<room, pc, store, conn, wire, current, view>>
  BY DEF Heartbeat, server
<1>3. clock[c] + 1 \in Clocks \ {0} /\ clock[c] \in Nat
  <2>1. clock[c] \in Nat /\ MaxClock[c] \in Nat
    BY <1>1, Numbers, AwarenessAssumption
  <2>2. clock[c] + 1 \in 0 .. MaxClock[c] /\ clock[c] + 1 # 0
    BY <1>2, <2>1
  <2> QED BY <2>1, <2>2, ClockFacts
<1>4. e \in Entries /\ e.client = c /\ e.clock = clock[c] + 1
  BY <1>3 DEF Entry, Entries
<1> HIDE DEF e
<1>5. /\ up' \in [Sockets -> Seq(Entries)]
      /\ \A s \in Sockets : s # current[c] => up'[s] = up[s]
      /\ current[c] # Nobody => Frames(up'[current[c]]) = Frames(up[current[c]]) \cup {e}
  BY <1>2, <1>4, SendUpFacts
<1>6. /\ clock' \in [Clients -> Clocks \ {0}]
      /\ \A d \in Clients : clock'[d] = IF d = c THEN clock[c] + 1 ELSE clock[d]
  BY <1>1, <1>2, <1>3 DEF TypeOK
<1>7. \A d \in Clients : clock[d] \in Nat /\ clock[d] <= clock'[d] /\ clock'[d] \in Nat
  <2>1. \A d \in Clients : clock[d] \in Nat
    BY <1>1, Numbers
  <2> QED BY <1>6, <2>1
<1>8. \A s \in Sockets : Nobody # s
  BY AwarenessAssumption
<1>9. TypeOK'
  BY <1>1, <1>2, <1>5, <1>6 DEF TypeOK
<1>10. SocketsSound' /\ ViewsSound' /\ PresenceIsOwned'
  BY <1>1, <1>2 DEF SocketsSound, ViewsSound, PresenceIsOwned
<1>11. ClocksSound'
  <2>1. \A d \in Clients : store[d].clock <= clock'[d]
    <3>1. \A d \in Clients : store[d].clock \in Nat /\ store[d].clock <= clock[d]
      BY <1>1, Numbers DEF ClocksSound
    <3> QED BY <1>7, <3>1
  <2>2. ASSUME NEW s \in Sockets, NEW f \in Frames(up'[s]) PROVE f.clock <= clock'[f.client]
    <3>1. CASE f = e
      <4>1. e.clock = clock'[e.client] /\ e.clock \in Nat
        BY <1>3, <1>4, <1>6
      <4> QED BY <3>1, <4>1
    <3>2. CASE f \in Frames(up[s])
      <4>1. f.clock <= clock[f.client] /\ f.client \in Clients /\ f.clock \in Nat
        BY <1>1, <3>2, Numbers DEF ClocksSound
      <4> QED BY <1>7, <4>1
    <3> QED BY <1>5, <1>8, <2>2, <3>1, <3>2
  <2> QED BY <1>1, <1>2, <2>1, <2>2 DEF ClocksSound
<1>12. EchoesSound'
  <2>1. ASSUME NEW s \in Sockets, NEW f \in Frames(up'[s]), f.active, f.client # conn[s]
        PROVE  s \in room /\ f.clock <= store[f.client].clock
    <3>1. CASE s # current[c]
      BY <1>1, <1>5, <2>1, <3>1 DEF EchoesSound
    <3>2. CASE s = current[c]
      <4>1. conn[s] = c
        BY <1>1, <1>8, <3>2 DEF SocketsSound
      <4>2. f \in Frames(up[s])
        BY <1>4, <1>5, <1>8, <2>1, <3>2, <4>1
      <4> QED BY <1>1, <2>1, <4>2 DEF EchoesSound
    <3> QED BY <3>1, <3>2
  <2> QED BY <1>2, <2>1 DEF EchoesSound
<1>13. ClockComes'
  <2>1. ASSUME NEW d \in Clients, current[d] # Nobody
        PROVE  \/ current[d] \in room /\ store[d].clock = clock'[d]
               \/ \E f \in Frames(up'[current[d]]) : f.client = d /\ f.clock = clock'[d]
    <3>1. CASE d = c
      BY <1>4, <1>5, <1>6, <2>1, <3>1
    <3>2. CASE d # c
      <4>1. current[d] \in Sockets /\ conn[current[d]] = d
        BY <1>1, <2>1 DEF TypeOK, SocketsSound
      <4>2. current[d] # current[c]
        BY <1>1, <2>1, <3>2, <4>1 DEF SocketsSound
      <4>3. up'[current[d]] = up[current[d]] /\ clock'[d] = clock[d]
        BY <1>5, <1>6, <3>2, <4>1, <4>2
      <4> QED BY <1>1, <2>1, <4>3 DEF ClockComes
    <3> QED BY <3>1, <3>2
  <2> QED BY <1>2, <2>1 DEF ClockComes
<1>14. RemovalComes'
  <2> SUFFICES ASSUME NEW a \in Clients, NEW d \in Clients, a # d, current'[a] \in room',
                      ~store'[d].active, NEW n \in Clocks, Shown(a, d, n)'
               PROVE  Removed(a, d, n)'
    BY DEF RemovalComes
  <2>1. Shown(a, d, n) /\ ~store[d].active /\ current[a] \in room
    BY <1>2 DEF Shown
  <2>2. Removed(a, d, n)
    BY <1>1, <2>1 DEF RemovalComes
  <2> QED BY <1>2, <2>2 DEF Removed
<1> QED BY <1>9, <1>10, <1>11, <1>12, <1>13, <1>14 DEF IInv

(* A frame that a browser sends of another client does not disturb what is *)
(* said of the queues, if the server knows the clock it has.               *)
LEMMA QueueSound ==
    ASSUME IInv, NEW c \in Clients, NEW e \in Entries, SendUp(c, e),
           UNCHANGED <<room, store, conn, current>>,
           clock' \in [Clients -> Clocks \ {0}],
           \A d \in Clients : clock[d] <= clock'[d] /\ (d # c => clock'[d] = clock[d]),
           clock'[c] # clock[c] => e.client = c /\ e.clock = clock'[c],
           e.clock <= clock'[e.client],
           e.active /\ e.client # c /\ current[c] # Nobody =>
               current[c] \in room /\ e.clock <= store[e.client].clock
    PROVE  /\ \A s \in Sockets : \A f \in Frames(up'[s]) : f.clock <= clock'[f.client]
           /\ EchoesSound'
           /\ ClockComes'
<1>1. TypeOK /\ SocketsSound /\ ClocksSound /\ EchoesSound /\ ClockComes
  BY DEF IInv
<1>2. /\ \A s \in Sockets : s # current[c] => up'[s] = up[s]
      /\ current[c] # Nobody => Frames(up'[current[c]]) = Frames(up[current[c]]) \cup {e}
  BY SendUpFacts
<1>3. \A s \in Sockets : Nobody # s
  BY AwarenessAssumption
<1>4. /\ \A d \in Clients : clock[d] \in Nat /\ clock'[d] \in Nat
      /\ \A f \in Entries : f.client \in Clients /\ f.clock \in Nat
      /\ \A s \in Sockets : Frames(up[s]) \subseteq Entries
  <2>1. \A d \in Clients : clock'[d] \in Clocks
    OBVIOUS
  <2>2. \A d \in Clients : clock'[d] \in Nat
    BY <2>1, ClockFacts
  <2> QED BY <1>1, <2>2, Numbers
<1>5. ASSUME NEW s \in Sockets, NEW f \in Frames(up'[s]) PROVE f.clock <= clock'[f.client]
  <2>1. CASE f = e
    BY <2>1
  <2>2. CASE f \in Frames(up[s])
    <3>1. f \in Entries /\ f.clock <= clock[f.client]
      BY <1>1, <1>4, <2>2 DEF ClocksSound
    <3> QED BY <1>4, <3>1
  <2> QED BY <1>2, <1>3, <1>5, <2>1, <2>2
<1>6. EchoesSound'
  <2>1. ASSUME NEW s \in Sockets, NEW f \in Frames(up'[s]), f.active, f.client # conn[s]
        PROVE  s \in room /\ f.clock <= store[f.client].clock
    <3>1. CASE f \in Frames(up[s])
      BY <1>1, <2>1, <3>1 DEF EchoesSound
    <3>2. CASE f \notin Frames(up[s])
      <4>1. s = current[c] /\ f = e
        BY <1>2, <1>3, <2>1, <3>2
      <4>2. conn[s] = c
        BY <1>1, <1>3, <4>1 DEF SocketsSound
      <4> QED BY <1>3, <2>1, <4>1, <4>2
    <3> QED BY <3>1, <3>2
  <2> QED BY <2>1 DEF EchoesSound
<1>7. ClockComes'
  <2>1. ASSUME NEW d \in Clients, current[d] # Nobody
        PROVE  \/ current[d] \in room /\ store[d].clock = clock'[d]
               \/ \E f \in Frames(up'[current[d]]) : f.client = d /\ f.clock = clock'[d]
    <3>1. current[d] \in Sockets
      BY <1>1, <2>1 DEF TypeOK
    <3>2. CASE clock'[d] # clock[d]
      <4>1. d = c /\ e.client = d /\ e.clock = clock'[d]
        BY <3>2
      <4> QED BY <1>2, <2>1, <4>1
    <3>3. CASE clock'[d] = clock[d]
      <4>1. Frames(up[current[d]]) \subseteq Frames(up'[current[d]])
        BY <1>2, <2>1, <3>1
      <4> QED BY <1>1, <2>1, <3>3, <4>1 DEF ClockComes
    <3> QED BY <3>2, <3>3
  <2> QED BY <2>1 DEF ClockComes
<1> QED BY <1>5, <1>6, <1>7

LEMMA HidePeerIInv == ASSUME IInv, NEW c \in Clients, HidePeer(c) PROVE IInv'
<1>1. TypeOK /\ SocketsSound /\ ClocksSound /\ EchoesSound /\ ViewsSound /\ ClockComes
      /\ PresenceIsOwned /\ RemovalComes
  BY DEF IInv
<1>2. PICK d \in Clients \ {c} :
        /\ view[c][d].active
        /\ view' = [view EXCEPT ![c][d].active = FALSE]
        /\ SendUp(c, Entry(d, view[c][d].clock, FALSE))
  BY DEF HidePeer
<1>3. UNCHANGED <<room, pc, store, conn, wire, current, clock>>
  BY DEF HidePeer, server
<1> DEFINE e == Entry(d, view[c][d].clock, FALSE)
<1>4. /\ view[c][d] \in [clock : Clocks, active : BOOLEAN]
      /\ \A a, b \in Clients : view[a][b] \in [clock : Clocks, active : BOOLEAN]
      /\ view \in [Clients -> [Clients -> [clock : Clocks, active : BOOLEAN]]]
  BY <1>1 DEF TypeOK
<1>5. view[c][d].clock \in Clocks \ {0} /\ view[c][d].clock <= store[d].clock
  <2>1. view[c][d].clock > 0 /\ view[c][d].clock <= store[d].clock
    BY <1>1, <1>2 DEF ClocksSound, ViewsSound
  <2>2. view[c][d].clock # 0
    BY <2>1
  <2> QED BY <1>4, <2>1, <2>2
<1>6. e \in Entries /\ e.client = d /\ e.clock = view[c][d].clock /\ ~e.active
  BY <1>5 DEF Entry, Entries
<1>7. SendUp(c, e)
  BY <1>2
<1> HIDE DEF e
<1>8. e.clock <= clock[d]
  <2>1. store[d].clock <= clock[d]
    BY <1>1 DEF ClocksSound
  <2>2. store[d].clock \in Nat /\ clock[d] \in Nat /\ view[c][d].clock \in Nat
    BY <1>1, Numbers
  <2> QED BY <1>5, <1>6, <2>1, <2>2
<1>9. /\ view' \in [Clients -> [Clients -> [clock : Clocks, active : BOOLEAN]]]
      /\ \A a, b \in Clients : /\ view'[a][b].clock = view[a][b].clock
                               /\ view'[a][b].active => view[a][b].active
  <2> DEFINE r == [view[c][d] EXCEPT !.active = FALSE]
  <2>1. r \in [clock : Clocks, active : BOOLEAN] /\ r.clock = view[c][d].clock /\ ~r.active
    BY <1>4
  <2>2. view' = [view EXCEPT ![c] = [view[c] EXCEPT ![d] = r]]
    BY <1>2
  <2> HIDE DEF r
  <2> DEFINE row == [view[c] EXCEPT ![d] = r]
  <2>3. view[c] \in [Clients -> [clock : Clocks, active : BOOLEAN]]
    BY <1>4
  <2>4. /\ row \in [Clients -> [clock : Clocks, active : BOOLEAN]]
        /\ \A b \in Clients : row[b] = IF b = d THEN r ELSE view[c][b]
    BY <2>1, <2>3
  <2>5. view' = [view EXCEPT ![c] = row]
    BY <2>2
  <2> HIDE DEF row
  <2>6. /\ view' \in [Clients -> [Clients -> [clock : Clocks, active : BOOLEAN]]]
        /\ \A a \in Clients : view'[a] = IF a = c THEN row ELSE view[a]
    BY <1>4, <2>4, <2>5
  <2>7. ASSUME NEW a \in Clients, NEW b \in Clients
        PROVE  view'[a][b].clock = view[a][b].clock /\ (view'[a][b].active => view[a][b].active)
    BY <2>1, <2>4, <2>6
  <2> QED BY <2>6, <2>7
<1>10. /\ \A s \in Sockets : \A f \in Frames(up'[s]) : f.clock <= clock'[f.client]
       /\ EchoesSound' /\ ClockComes'
  <2>1. \A a \in Clients : clock[a] <= clock'[a]
    <3>1. \A a \in Clients : clock[a] \in Nat
      BY <1>1, Numbers
    <3> QED BY <1>3, <3>1
  <2>2. clock' \in [Clients -> Clocks \ {0}] /\ e.clock <= clock'[e.client]
    BY <1>1, <1>3, <1>6, <1>8 DEF TypeOK
  <2> QED BY <1>3, <1>6, <1>7, <2>1, <2>2, QueueSound
<1>11. TypeOK'
  <2>1. up' \in [Sockets -> Seq(Entries)]
    BY <1>6, <1>7, SendUpFacts
  <2> QED BY <1>1, <1>3, <1>9, <2>1 DEF TypeOK
<1>12. SocketsSound' /\ PresenceIsOwned'
  BY <1>1, <1>3 DEF SocketsSound, PresenceIsOwned
<1>13. ClocksSound'
  <2>1. \A a, b \in Clients : view'[a][b].active => view'[a][b].clock > 0
    BY <1>1, <1>9 DEF ClocksSound
  <2> QED BY <1>1, <1>3, <1>10, <2>1 DEF ClocksSound
<1>14. ViewsSound'
  BY <1>1, <1>3, <1>9 DEF ViewsSound
<1>15. RemovalComes'
  <2> SUFFICES ASSUME NEW a \in Clients, NEW b \in Clients, a # b, current'[a] \in room',
                      ~store'[b].active, NEW n \in Clocks, Shown(a, b, n)'
               PROVE  Removed(a, b, n)'
    BY DEF RemovalComes
  <2>1. Shown(a, b, n)
    <3>1. view'[a][b].clock = view[a][b].clock /\ (view'[a][b].active => view[a][b].active)
      BY <1>9
    <3> QED BY <1>3, <3>1 DEF Shown
  <2>2. Removed(a, b, n)
    BY <1>1, <1>3, <2>1 DEF RemovalComes
  <2> QED BY <1>3, <2>2 DEF Removed
<1> QED BY <1>10, <1>11, <1>12, <1>13, <1>14, <1>15 DEF IInv

(* An entry that a browser receives, and what it does with it.             *)
Received(c, e) ==
    /\ current[c] # Nobody
    /\ e \in wire[current[c]]
    /\ wire' = [wire EXCEPT ![current[c]] = @ \ {e}]
    /\ UNCHANGED <<room, pc, store, conn, current>>

LEMMA ReceivedFacts ==
    ASSUME IInv, NEW c \in Clients, NEW e, Received(c, e)
    PROVE  /\ wire' \in [Sockets -> SUBSET Entries]
           /\ \A s \in Sockets : wire'[s] \subseteq wire[s]
           /\ \A d \in Clients : d # c /\ current[d] \in Sockets =>
                wire'[current[d]] = wire[current[d]]
           /\ wire'[current[c]] = wire[current[c]] \ {e}
           /\ current[c] \in room /\ e \in Entries
           /\ e.clock <= store[e.client].clock /\ e.clock <= clock[e.client]
           /\ SocketsSound' /\ PresenceIsOwned'
<1>1. TypeOK /\ SocketsSound /\ ClocksSound /\ PresenceIsOwned
  BY DEF IInv
<1>2. current[c] \in Sockets
  BY <1>1 DEF Received, TypeOK
<1>3. \A s \in Sockets : wire'[s] = IF s = current[c] THEN wire[s] \ {e} ELSE wire[s]
  BY <1>1, <1>2 DEF Received, TypeOK
<1>4. wire' \in [Sockets -> SUBSET Entries]
  BY <1>1, <1>2 DEF Received, TypeOK
<1>5. ASSUME NEW d \in Clients, d # c, current[d] \in Sockets
      PROVE  wire'[current[d]] = wire[current[d]]
  <2>1. conn[current[d]] = d /\ conn[current[c]] = c
    BY <1>1, <1>2, <1>5, AwarenessAssumption DEF SocketsSound
  <2> QED BY <1>3, <1>5, <2>1
<1>6. current[c] \in room /\ e \in Entries
  BY <1>1, <1>2 DEF Received, SocketsSound, TypeOK
<1>7. e.clock <= store[e.client].clock
  BY <1>1, <1>2 DEF Received, ClocksSound
<1>8. e.clock <= clock[e.client]
  <2>1. e.client \in Clients /\ e.clock \in Nat
    BY <1>1, <1>6, Numbers
  <2>2. store[e.client].clock <= clock[e.client]
    BY <1>1, <2>1 DEF ClocksSound
  <2>3. store[e.client].clock \in Nat /\ clock[e.client] \in Nat
    BY <1>1, <2>1, Numbers
  <2> QED BY <1>7, <2>1, <2>2, <2>3
<1>9. SocketsSound'
  BY <1>1, <1>3 DEF Received, SocketsSound
<1>10. PresenceIsOwned'
  BY <1>1 DEF Received, PresenceIsOwned
<1> QED BY <1>2, <1>3, <1>4, <1>5, <1>6, <1>7, <1>8, <1>9, <1>10

(* Nothing is new about a peer: only the entry is gone.                    *)
LEMMA NoNewsIInv ==
    ASSUME IInv, NEW c \in Clients, NEW e, Received(c, e), UNCHANGED <<clock, view, up>>,
           e.client = c \/ ~ \/ view[c][e.client].clock < e.clock
                             \/ view[c][e.client].clock = e.clock /\ ~e.active /\ view[c][e.client].active
    PROVE  IInv'
<1>1. TypeOK /\ SocketsSound /\ ClocksSound /\ EchoesSound /\ ViewsSound /\ ClockComes
      /\ RemovalComes
  BY DEF IInv
<1>2. UNCHANGED <<room, pc, store, conn, current>>
  BY DEF Received
<1>3. /\ wire' \in [Sockets -> SUBSET Entries]
      /\ \A s \in Sockets : wire'[s] \subseteq wire[s]
      /\ \A d \in Clients : d # c /\ current[d] \in Sockets => wire'[current[d]] = wire[current[d]]
      /\ wire'[current[c]] = wire[current[c]] \ {e}
      /\ e \in Entries
      /\ SocketsSound' /\ PresenceIsOwned'
  BY ReceivedFacts
<1>4. TypeOK' /\ ClocksSound' /\ EchoesSound' /\ ViewsSound' /\ ClockComes'
  <2>1. TypeOK'
    BY <1>1, <1>2, <1>3 DEF TypeOK
  <2>2. ClocksSound'
    BY <1>1, <1>2, <1>3 DEF ClocksSound
  <2> QED BY <1>1, <1>2, <2>1, <2>2 DEF EchoesSound, ViewsSound, ClockComes
<1>5. RemovalComes'
  <2> SUFFICES ASSUME NEW a \in Clients, NEW d \in Clients, a # d, current'[a] \in room',
                      ~store'[d].active, NEW n \in Clocks, Shown(a, d, n)'
               PROVE  Removed(a, d, n)'
    BY DEF RemovalComes
  <2>1. current[a] \in room /\ current[a] \in Sockets /\ ~store[d].active /\ n \in Nat
    BY <1>1, <1>2, ClockFacts DEF TypeOK
  <2>2. Shown(a, d, n)
    BY <1>2, <1>3, <2>1 DEF Shown
  <2>3. PICK r \in wire[current[a]] : r.client = d /\ ~r.active /\ r.clock >= n
    BY <1>1, <2>1, <2>2 DEF RemovalComes, Removed
  <2>4. r \in wire'[current[a]]
    <3>1. CASE a # c
      BY <1>3, <2>1, <3>1
    <3>2. CASE a = c
      <4>1. SUFFICES ASSUME r = e PROVE FALSE
        BY <1>3, <3>2
      <4>2. view[c][d].clock \in Nat /\ e.clock \in Nat
        BY <1>1, <1>3, Numbers
      <4>3. e.client = d /\ ~e.active /\ e.clock >= n
        BY <2>3, <4>1
      <4>4. view[c][d].clock >= e.clock /\ ~(view[c][d].clock = e.clock /\ view[c][d].active)
        BY <3>2, <4>2, <4>3
      <4>5. (view[c][d].active /\ n = view[c][d].clock) \/ n > view[c][d].clock
        BY <2>2, <3>2 DEF Shown
      <4> QED BY <2>1, <4>2, <4>3, <4>4, <4>5
    <3> QED BY <3>1, <3>2
  <2> QED BY <1>2, <2>3, <2>4 DEF Removed
<1> QED BY <1>3, <1>4, <1>5 DEF IInv

(* The browser learns that the server has removed it, and comes back.      *)
LEMMA ComeBackIInv ==
    ASSUME IInv, NEW c \in Clients, NEW e, Received(c, e), e.client = c,
           e.clock >= clock[c], e.clock < MaxClock[c],
           clock' = [clock EXCEPT ![c] = e.clock + 1],
           SendUp(c, Entry(c, e.clock + 1, TRUE)), UNCHANGED view
    PROVE  IInv'
<1>1. TypeOK /\ SocketsSound /\ ClocksSound /\ EchoesSound /\ ViewsSound /\ ClockComes
      /\ RemovalComes
  BY DEF IInv
<1>2. UNCHANGED <<room, pc, store, conn, current>>
  BY DEF Received
<1>3. /\ wire' \in [Sockets -> SUBSET Entries]
      /\ \A s \in Sockets : wire'[s] \subseteq wire[s]
      /\ \A d \in Clients : d # c /\ current[d] \in Sockets => wire'[current[d]] = wire[current[d]]
      /\ wire'[current[c]] = wire[current[c]] \ {e}
      /\ e \in Entries
      /\ SocketsSound' /\ PresenceIsOwned'
  BY ReceivedFacts
<1>4. e.clock + 1 \in Clocks \ {0} /\ e.clock \in Nat /\ clock[c] \in Nat
  <2>1. e.clock \in Nat /\ clock[c] \in Nat /\ MaxClock[c] \in Nat
    BY <1>1, <1>3, Numbers, AwarenessAssumption
  <2>2. e.clock + 1 \in 0 .. MaxClock[c] /\ e.clock + 1 # 0
    BY <2>1
  <2> QED BY <2>1, <2>2, ClockFacts
<1> DEFINE f == Entry(c, e.clock + 1, TRUE)
<1>5. f \in Entries /\ f.client = c /\ f.clock = e.clock + 1 /\ SendUp(c, f)
  BY <1>4 DEF Entry, Entries
<1> HIDE DEF f
<1>6. /\ clock' \in [Clients -> Clocks \ {0}]
      /\ \A d \in Clients : clock'[d] = IF d = c THEN e.clock + 1 ELSE clock[d]
  BY <1>1, <1>4 DEF TypeOK
<1>7. \A d \in Clients : clock[d] \in Nat /\ clock'[d] \in Nat /\ clock[d] <= clock'[d]
  <2>1. \A d \in Clients : clock[d] \in Nat
    BY <1>1, Numbers
  <2> QED BY <1>4, <1>6, <2>1
<1>8. /\ \A s \in Sockets : \A g \in Frames(up'[s]) : g.clock <= clock'[g.client]
      /\ EchoesSound' /\ ClockComes'
  <2>1. f.clock <= clock'[f.client] /\ f.clock = clock'[c]
    BY <1>4, <1>5, <1>6
  <2> QED BY <1>2, <1>5, <1>6, <1>7, <2>1, QueueSound
<1>9. TypeOK'
  <2>1. up' \in [Sockets -> Seq(Entries)]
    BY <1>5, SendUpFacts
  <2> QED BY <1>1, <1>2, <1>3, <1>6, <2>1 DEF TypeOK
<1>10. ClocksSound'
  <2>1. \A d \in Clients : store[d].clock <= clock'[d]
    <3>1. \A d \in Clients : store[d].clock \in Nat /\ store[d].clock <= clock[d]
      BY <1>1, Numbers DEF ClocksSound
    <3> QED BY <1>7, <3>1
  <2>2. \A s \in Sockets : \A g \in wire'[s] : g.clock <= store[g.client].clock
    BY <1>1, <1>3 DEF ClocksSound
  <2> QED BY <1>1, <1>2, <1>8, <2>1, <2>2 DEF ClocksSound
<1>11. ViewsSound'
  BY <1>1, <1>2 DEF ViewsSound
<1>12. RemovalComes'
  <2> SUFFICES ASSUME NEW a \in Clients, NEW d \in Clients, a # d, current'[a] \in room',
                      ~store'[d].active, NEW n \in Clocks, Shown(a, d, n)'
               PROVE  Removed(a, d, n)'
    BY DEF RemovalComes
  <2>1. current[a] \in room /\ current[a] \in Sockets /\ ~store[d].active
    BY <1>1, <1>2 DEF TypeOK
  <2>2. Shown(a, d, n)
    BY <1>2, <1>3, <2>1 DEF Shown
  <2>3. PICK r \in wire[current[a]] : r.client = d /\ ~r.active /\ r.clock >= n
    BY <1>1, <2>1, <2>2 DEF RemovalComes, Removed
  <2>4. r \in wire'[current[a]]
    <3>1. CASE a # c
      BY <1>3, <2>1, <3>1
    <3>2. CASE a = c
      BY <1>3, <2>3, <3>2
    <3> QED BY <3>1, <3>2
  <2> QED BY <1>2, <2>3, <2>4 DEF Removed
<1> QED BY <1>3, <1>8, <1>9, <1>10, <1>11, <1>12 DEF IInv

(* What is new about a peer is shown, and sent back.                       *)
LEMMA NewsIInv ==
    ASSUME IInv, NEW c \in Clients, NEW e, Received(c, e), e.client # c,
           \/ view[c][e.client].clock < e.clock
           \/ view[c][e.client].clock = e.clock /\ ~e.active /\ view[c][e.client].active,
           view' = [view EXCEPT ![c][e.client] = [clock |-> e.clock, active |-> e.active]],
           SendUp(c, e), UNCHANGED clock
    PROVE  IInv'
<1>1. TypeOK /\ SocketsSound /\ ClocksSound /\ EchoesSound /\ ViewsSound /\ ClockComes
      /\ RemovalComes
  BY DEF IInv
<1>2. UNCHANGED <<room, pc, store, conn, current>> /\ e \in wire[current[c]]
  BY DEF Received
<1>3. /\ wire' \in [Sockets -> SUBSET Entries]
      /\ \A s \in Sockets : wire'[s] \subseteq wire[s]
      /\ \A d \in Clients : d # c /\ current[d] \in Sockets => wire'[current[d]] = wire[current[d]]
      /\ wire'[current[c]] = wire[current[c]] \ {e}
      /\ current[c] \in room /\ e \in Entries
      /\ e.clock <= store[e.client].clock /\ e.clock <= clock[e.client]
      /\ SocketsSound' /\ PresenceIsOwned'
  BY ReceivedFacts
<1>4. e.client \in Clients /\ e.clock \in Nat /\ e.clock > 0
  BY <1>1, <1>3, Numbers
<1>5. /\ view' \in [Clients -> [Clients -> [clock : Clocks, active : BOOLEAN]]]
      /\ \A a, d \in Clients :
           IF a = c /\ d = e.client
             THEN view'[a][d].clock = e.clock /\ view'[a][d].active = e.active
             ELSE view'[a][d] = view[a][d]
  <2> DEFINE v == [clock |-> e.clock, active |-> e.active]
             row == [view[c] EXCEPT ![e.client] = v]
  <2>1. v \in [clock : Clocks, active : BOOLEAN] /\ v.clock = e.clock /\ v.active = e.active
    BY <1>3 DEF Entries
  <2>2. /\ view \in [Clients -> [Clients -> [clock : Clocks, active : BOOLEAN]]]
        /\ view[c] \in [Clients -> [clock : Clocks, active : BOOLEAN]]
    BY <1>1 DEF TypeOK
  <2>3. view' = [view EXCEPT ![c] = row]
    OBVIOUS
  <2> HIDE DEF v
  <2>4. /\ row \in [Clients -> [clock : Clocks, active : BOOLEAN]]
        /\ \A d \in Clients : row[d] = IF d = e.client THEN v ELSE view[c][d]
    BY <2>1, <2>2
  <2> HIDE DEF row
  <2>5. /\ view' \in [Clients -> [Clients -> [clock : Clocks, active : BOOLEAN]]]
        /\ \A a \in Clients : view'[a] = IF a = c THEN row ELSE view[a]
    BY <2>2, <2>3, <2>4
  <2>6. ASSUME NEW a \in Clients, NEW d \in Clients
        PROVE  IF a = c /\ d = e.client
                 THEN view'[a][d].clock = e.clock /\ view'[a][d].active = e.active
                 ELSE view'[a][d] = view[a][d]
    BY <2>1, <2>4, <2>5
  <2> QED BY <2>5, <2>6
<1>6. /\ \A s \in Sockets : \A g \in Frames(up'[s]) : g.clock <= clock'[g.client]
      /\ EchoesSound' /\ ClockComes'
  <2>1. \A d \in Clients : clock[d] <= clock'[d]
    <3>1. \A d \in Clients : clock[d] \in Nat
      BY <1>1, Numbers
    <3> QED BY <3>1
  <2>2. clock' \in [Clients -> Clocks \ {0}] /\ e.clock <= clock'[e.client]
    BY <1>1, <1>3 DEF TypeOK
  <2> QED BY <1>2, <1>3, <2>1, <2>2, QueueSound
<1>7. TypeOK'
  <2>1. up' \in [Sockets -> Seq(Entries)]
    BY <1>3, SendUpFacts
  <2> QED BY <1>1, <1>2, <1>3, <1>5, <2>1 DEF TypeOK
<1>8. ClocksSound'
  <2>1. \A a, d \in Clients : view'[a][d].active => view'[a][d].clock > 0
    BY <1>1, <1>4, <1>5 DEF ClocksSound
  <2>2. \A s \in Sockets : \A g \in wire'[s] : g.clock <= store[g.client].clock
    BY <1>1, <1>3 DEF ClocksSound
  <2> QED BY <1>1, <1>2, <1>6, <2>1, <2>2 DEF ClocksSound
<1>9. ViewsSound'
  <2>1. ASSUME NEW a \in Clients, NEW d \in Clients, view'[a][d].active
        PROVE  current[a] \in room /\ view'[a][d].clock <= store[d].clock
    <3>1. CASE a = c /\ d = e.client
      BY <1>3, <1>5, <3>1
    <3>2. CASE ~(a = c /\ d = e.client)
      BY <1>1, <1>5, <2>1, <3>2 DEF ViewsSound
    <3> QED BY <3>1, <3>2
  <2> QED BY <1>2, <2>1 DEF ViewsSound
<1>10. RemovalComes'
  <2> SUFFICES ASSUME NEW a \in Clients, NEW d \in Clients, a # d, current'[a] \in room',
                      ~store'[d].active, NEW n \in Clocks, Shown(a, d, n)'
               PROVE  Removed(a, d, n)'
    BY DEF RemovalComes
  <2>1. current[a] \in room /\ current[a] \in Sockets /\ ~store[d].active /\ n \in Nat
    BY <1>1, <1>2, ClockFacts DEF TypeOK
  <2>2. CASE ~(a = c /\ d = e.client)
    <3>1. view'[a][d] = view[a][d]
      BY <1>5, <2>2
    <3>2. Shown(a, d, n)
      BY <1>2, <1>3, <2>1, <3>1 DEF Shown
    <3>3. PICK r \in wire[current[a]] : r.client = d /\ ~r.active /\ r.clock >= n
      BY <1>1, <2>1, <3>2 DEF RemovalComes, Removed
    <3>4. r \in wire'[current[a]]
      <4>1. CASE a # c
        BY <1>3, <2>1, <4>1
      <4>2. CASE a = c
        BY <1>3, <2>2, <3>3, <4>2
      <4> QED BY <4>1, <4>2
    <3> QED BY <1>2, <3>3, <3>4 DEF Removed
  <2>3. CASE a = c /\ d = e.client
    <3>1. view'[c][d].clock = e.clock /\ view'[c][d].active = e.active
      BY <1>5, <2>3
    <3>2. view[c][d].clock \in Nat /\ view[c][d].clock <= e.clock
          /\ (e.active => view[c][d].clock < e.clock)
      BY <1>1, <1>4, <2>3, Numbers
    <3>3. CASE e.active /\ n = e.clock
      <4>1. Entry(d, n, TRUE) = e
        BY <1>3, <2>3, <3>3 DEF Entry, Entries
      <4>2. Shown(c, d, n)
        BY <1>2, <3>2, <3>3, <4>1 DEF Shown
      <4>3. PICK r \in wire[current[c]] : r.client = d /\ ~r.active /\ r.clock >= n
        BY <1>1, <2>1, <2>3, <4>2 DEF RemovalComes, Removed
      <4>4. r \in wire'[current[c]]
        BY <1>3, <3>3, <4>3
      <4> QED BY <1>2, <2>3, <4>3, <4>4 DEF Removed
    <3>4. CASE n > e.clock /\ Entry(d, n, TRUE) \in wire'[current[c]]
      <4>1. n > view[c][d].clock
        BY <1>4, <2>1, <3>2, <3>4
      <4>2. Shown(c, d, n)
        BY <1>3, <3>4, <4>1 DEF Shown
      <4>3. PICK r \in wire[current[c]] : r.client = d /\ ~r.active /\ r.clock >= n
        BY <1>1, <2>1, <2>3, <4>2 DEF RemovalComes, Removed
      <4>4. r # e
        <5>1. SUFFICES ASSUME r = e PROVE FALSE
          OBVIOUS
        <5>2. e.clock >= n
          BY <4>3, <5>1
        <5> QED BY <1>4, <2>1, <3>4, <5>2
      <4>5. r \in wire'[current[c]]
        BY <1>3, <4>3, <4>4
      <4> QED BY <1>2, <2>3, <4>3, <4>5 DEF Removed
    <3>5. \/ e.active /\ n = e.clock
          \/ n > e.clock /\ Entry(d, n, TRUE) \in wire'[current[c]]
      BY <1>2, <2>3, <3>1 DEF Shown
    <3> QED BY <3>3, <3>4, <3>5
  <2> QED BY <2>2, <2>3
<1> QED BY <1>3, <1>6, <1>7, <1>8, <1>9, <1>10 DEF IInv

LEMMA DeliverIInv == ASSUME IInv, NEW c \in Clients, Deliver(c) PROVE IInv'
<1>1. PICK e \in wire[current[c]] :
        /\ wire' = [wire EXCEPT ![current[c]] = @ \ {e}]
        /\ HearOfSelf(c, e) \/ HearOfPeer(c, e)
  BY DEF Deliver
<1>2. UNCHANGED <<room, pc, store, conn>> /\ current[c] # Nobody
  BY DEF Deliver, server
<1>3. Received(c, e)
  BY <1>1, <1>2 DEF Received, HearOfSelf, HearOfPeer
<1>4. CASE HearOfSelf(c, e)
  <2>1. CASE ~e.active /\ e.clock >= clock[c] /\ e.clock < MaxClock[c]
    BY <1>3, <1>4, <2>1, ComeBackIInv DEF HearOfSelf
  <2>2. CASE ~(~e.active /\ e.clock >= clock[c] /\ e.clock < MaxClock[c])
    BY <1>3, <1>4, <2>2, NoNewsIInv DEF HearOfSelf
  <2> QED BY <2>1, <2>2
<1>5. CASE HearOfPeer(c, e)
  <2> DEFINE news == \/ view[c][e.client].clock < e.clock
                     \/ view[c][e.client].clock = e.clock /\ ~e.active /\ view[c][e.client].active
  <2>1. CASE news
    BY <1>3, <1>5, <2>1, NewsIInv DEF HearOfPeer
  <2>2. CASE ~news
    BY <1>3, <1>5, <2>2, NoNewsIInv DEF HearOfPeer
  <2> QED BY <2>1, <2>2
<1> QED BY <1>1, <1>4, <1>5

-----------------------------------------------------------------------------
(***************************************************************************)
(* The theorems                                                            *)
(***************************************************************************)
LEMMA NextIInv == IInv /\ [Next]_vars => IInv'
<1> SUFFICES ASSUME IInv, [Next]_vars PROVE IInv'
  OBVIOUS
<1>1. CASE UNCHANGED vars
  <2>1. UNCHANGED <<room, pc, store, conn, up, wire, current, clock, view>>
    BY <1>1 DEF vars, server, browser
  <2>2. TypeOK' /\ SocketsSound' /\ ClocksSound' /\ EchoesSound' /\ ViewsSound'
    BY <2>1 DEF IInv, TypeOK, SocketsSound, ClocksSound, EchoesSound, ViewsSound
  <2>3. ClockComes' /\ PresenceIsOwned'
    BY <2>1 DEF IInv, ClockComes, PresenceIsOwned
  <2>4. RemovalComes'
    <3>1. \A c, d \in Clients, n \in Clocks :
            /\ Shown(c, d, n)' => Shown(c, d, n)
            /\ Removed(c, d, n) => Removed(c, d, n)'
      BY <2>1 DEF Shown, Removed
    <3> QED BY <2>1, <3>1 DEF IInv, RemovalComes
  <2> QED BY <2>2, <2>3, <2>4 DEF IInv
<1>2. ASSUME NEW s \in Sockets, SocketStep(s) PROVE IInv'
  BY <1>2, JoinIInv, GreetIInv, PruneIInv, ApplyIInv, AnswerQueryIInv, LeaveRoomIInv,
     NotJoinedIInv DEF SocketStep
<1>3. ASSUME NEW c \in Clients, BrowserStep(c) PROVE IInv'
  BY <1>3, OpenIInv, DropIInv, HeartbeatIInv, DeliverIInv, HidePeerIInv DEF BrowserStep
<1> QED BY <1>1, <1>2, <1>3, CrashIInv DEF Next

(* The invariant holds always: the socket handlers of websocket.py, the    *)
(* AwarenessStore and the browsers keep it together.                       *)
THEOREM Invariance == Spec => []IInv
<1>1. Init => IInv
  BY InitIInv
<1>2. IInv /\ [Next]_vars => IInv'
  BY NextIInv
<1> QED BY <1>1, <1>2, PTL DEF Spec

(* Every variable keeps its type: only connections of the room have their  *)
(* handler in the receiving loop, and no clock passes its client's bound   *)
(* (websocket.py's socket handlers, AwarenessStore).                       *)
THEOREM TypeCorrect == Spec => []TypeOK
<1>1. IInv => TypeOK
  BY DEF IInv
<1> QED BY <1>1, Invariance, PTL

(* A state that the server shows belongs to a connection of the room that  *)
(* is the client's own, though browsers send each other's states back      *)
(* (AwarenessStore.apply_update, remove_owner).                            *)
THEOREM Owned == Spec => []PresenceIsOwned
<1>1. IInv => PresenceIsOwned
  BY DEF IInv
<1> QED BY <1>1, Invariance, PTL

(* A browser that shows a client whom the server has removed has the       *)
(* removal on its way, in whatever order the broadcasts arrive             *)
(* (websocket._broadcast_awareness, _leave_room, _prune_stale).            *)
THEOREM RemovalsArrive == Spec => []RemovalReaches
<1>1. IInv => RemovalReaches
  <2> SUFFICES ASSUME IInv, NEW c \in Clients, NEW d \in Clients, c # d, current[c] \in room,
                      view[c][d].active, ~store[d].active
               PROVE  \E e \in wire[current[c]] :
                        e.client = d /\ ~e.active /\ e.clock >= view[c][d].clock
    BY DEF RemovalReaches
  <2>1. view[c][d].clock \in Clocks
    BY DEF IInv, TypeOK
  <2>2. Shown(c, d, view[c][d].clock)
    BY DEF Shown
  <2>3. Removed(c, d, view[c][d].clock)
    BY <2>1, <2>2 DEF IInv, RemovalComes
  <2> QED BY <2>3 DEF Removed
<1> QED BY <1>1, Invariance, PTL

(* The server never has a clock newer than the client's own, and once the  *)
(* frames of a browser in the room are handled it has exactly that clock   *)
(* (AwarenessStore.apply_update, discard_session).                         *)
THEOREM ClocksAgree == Spec => []ClockIsKnown
<1>1. IInv => ClockIsKnown
  <2> SUFFICES ASSUME IInv, NEW c \in Clients
               PROVE  /\ store[c].clock <= clock[c]
                      /\ current[c] \in room /\ up[current[c]] = <<>> => store[c].clock = clock[c]
    BY DEF ClockIsKnown
  <2>1. store[c].clock <= clock[c]
    BY DEF IInv, ClocksSound
  <2>2. ASSUME current[c] \in room, up[current[c]] = <<>> PROVE store[c].clock = clock[c]
    <3>1. current[c] \in Sockets /\ current[c] # Nobody
      BY <2>2, AwarenessAssumption DEF IInv, TypeOK
    <3> QED BY <2>2, <3>1, FramesOfNew DEF IInv, ClockComes
  <2> QED BY <2>1, <2>2
<1> QED BY <1>1, Invariance, PTL

=============================================================================
