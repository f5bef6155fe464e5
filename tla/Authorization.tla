---------------------------- MODULE Authorization ----------------------------
(***************************************************************************)
(* Live authorization of ONE session: the membership rows in PostgreSQL,   *)
(* the role each WebSocket cached when it authenticated, and the in-memory *)
(* fence (invalidation versions, connection stamps, revoked connections)   *)
(* that role changes, removals and session closes put between the two      *)
(* (collaboration/websocket.py, sessions/router.py, sessions/service.py).  *)
(*                                                                         *)
(* Only what authorization depends on is kept of the document: how many    *)
(* updates of each user it holds, and which of those a client has seen.    *)
(* Loading, saving and checkpointing under the room lock are CollabRoom's. *)
(***************************************************************************)
EXTENDS Integers

CONSTANTS
    Users,          \* the members other than the owner, present or past
    Sockets,        \* WebSocket connections (a slot is reused after a close)
    Admins,         \* the owner's membership requests in flight
    Savers,         \* HTTP requests that mutate the document
    Nobody,
    Faults,         \* failures of the database connection (FaultKinds)
    MaxVersion,     \* BOUND: membership requests start below this version
    MaxEdits        \* BOUND: edits per user that are sent

FaultKinds == {"commit", "refresh"}

Tasks == Sockets \cup Admins \cup Savers

ASSUME AuthorizationAssumption ==
    /\ Faults \subseteq FaultKinds
    /\ Sockets \cap Admins = {} /\ Sockets \cap Savers = {} /\ Admins \cap Savers = {}
    /\ Nobody \notin Tasks
    /\ MaxVersion \in Nat /\ MaxEdits \in Nat

VARIABLES
    role,       \* SessionMember.role, "none" where there is no row
    active,     \* Session.is_active
    memberInv,  \* _member_invalidations: version and what it asks for
    sessionInv, \* _session_invalidations: version
    roomLock,   \* the task holding the session's room lock, or Nobody
    room,       \* _rooms[session]
    pc,         \* where each task is suspended
    user,       \* the user behind a socket or an HTTP save
    cached,     \* the role a socket's handler works with
    stamp,      \* _connection_stamps
    revoked,    \* _revoked_connections: the close reason, or "none"
    act,        \* the membership request an admin task runs
    doc,        \* how many updates of each user the document holds
    seen        \* what each socket's client has received of it

dbVars == <<role, active>>
fenceVars == <<memberInv, sessionInv>>
connVars == <<user, cached, stamp, revoked>>
vars == <<dbVars, fenceVars, roomLock, room, pc, connVars, act, doc, seen>>

Roles == {"viewer", "editor"}
Reasons == {"none", "changed", "removed", "closed"}
ActKinds == {"add", "role", "remove", "close"}

SocketPcs == {"away", "session", "member", "accept", "join", "open", "sync",
              "update", "leave"}
AdminPcs == {"idle", "add", "lock", "commit", "refresh", "fence", "closing"}
SaverPcs == {"idle", "lock", "check", "apply"}

TypeOK ==
    /\ role \in [Users -> Roles \cup {"none"}]
    /\ active \in BOOLEAN
    /\ memberInv \in [Users -> [version : Nat, reason : Reasons]]
    /\ sessionInv \in Nat
    /\ roomLock \in Admins \cup Savers \cup {Nobody}
    /\ room \in SUBSET Sockets
    /\ pc \in [Tasks -> SocketPcs \cup AdminPcs \cup SaverPcs]
    /\ \A s \in Sockets : pc[s] \in SocketPcs
    /\ \A a \in Admins : pc[a] \in AdminPcs
    /\ \A h \in Savers : pc[h] \in SaverPcs
    /\ user \in [Sockets \cup Savers -> Users]
    /\ cached \in [Sockets -> Roles \cup {"none"}]
    /\ \A s \in Sockets :
           pc[s] \in SocketPcs \ {"away", "session", "member"} => cached[s] # "none"
    /\ stamp \in [Sockets -> [member : Nat, session : Nat]]
    /\ revoked \in [Sockets -> Reasons]
    /\ act \in [Admins -> [kind : ActKinds, who : Users, to : Roles,
                           saw : Roles \cup {"none"}]]
    /\ doc \in [Users -> Nat]
    /\ seen \in [Sockets -> [Users -> Nat]]

NoStamp == [member |-> 0, session |-> 0]
NoInvalidation == [version |-> 0, reason |-> "none"]
Rest == [t \in Tasks |-> IF t \in Sockets THEN "away" ELSE "idle"]

Init ==
    /\ role \in [Users -> Roles \cup {"none"}]
    /\ active = TRUE
    /\ memberInv = [u \in Users |-> NoInvalidation]
    /\ sessionInv = 0
    /\ roomLock = Nobody
    /\ room = {}
    /\ pc = Rest
    /\ user \in [Sockets \cup Savers -> Users]
    /\ cached = [s \in Sockets |-> "none"]
    /\ stamp = [s \in Sockets |-> NoStamp]
    /\ revoked = [s \in Sockets |-> "none"]
    /\ act \in [Admins -> [kind : {"add"}, who : Users, to : {"viewer"}, saw : {"none"}]]
    /\ doc = [u \in Users |-> 0]
    /\ seen = [s \in Sockets |-> doc]

At(t, where) == pc[t] = where
Goto(t, where) == pc' = [pc EXCEPT ![t] = where]

(* The handler of s ends, and its entries in the tables with it.           *)
Gone(s) ==
    /\ Goto(s, "away")
    /\ cached' = [cached EXCEPT ![s] = "none"]
    /\ stamp' = [stamp EXCEPT ![s] = NoStamp]
    /\ revoked' = [revoked EXCEPT ![s] = "none"]
    /\ UNCHANGED user

LockFree == roomLock = Nobody /\ UNCHANGED roomLock
Acquire(t) == roomLock = Nobody /\ roomLock' = t
Release == roomLock' = Nobody

-----------------------------------------------------------------------------
(***************************************************************************)
(* The fence                                                               *)
(***************************************************************************)

(* The stamp of s predates an invalidation.                                *)
SessionStale(s) == sessionInv > stamp[s].session
MemberStale(s) == memberInv[user[s]].version > stamp[s].member

(* _authorization_failure: why s may not go on, "none" if it may.          *)
AuthorizationFailure(s) ==
    IF revoked[s] # "none" THEN revoked[s]
    ELSE IF SessionStale(s) THEN "closed"
    ELSE IF MemberStale(s) THEN memberInv[user[s]].reason
    ELSE "none"

Revoke(s) == revoked' = [revoked EXCEPT ![s] = AuthorizationFailure(s)]

-----------------------------------------------------------------------------
(***************************************************************************)
(* _authenticate_ws.  The stamp is taken before the database is read.  The *)
(* user row brings the user's memberships with it (lazy="selectin"), and   *)
(* the identity map keeps that role when the membership row is read again. *)
(***************************************************************************)
Connect(s) ==
    /\ At(s, "away")
    /\ \E u \in Users :
        /\ user' = [user EXCEPT ![s] = u]
        /\ stamp' = [stamp EXCEPT ![s] = [member |-> memberInv[u].version,
                                          session |-> sessionInv]]
        /\ cached' = [cached EXCEPT ![s] = role[u]]
    /\ Goto(s, "session")
    /\ UNCHANGED <<dbVars, fenceVars, roomLock, room, revoked, act, doc, seen>>

ReadSession(s) ==
    /\ At(s, "session")
    /\ \/ active /\ Goto(s, "member") /\ UNCHANGED connVars
       \/ ~active /\ Gone(s)
    /\ UNCHANGED <<dbVars, fenceVars, roomLock, room, act, doc, seen>>

(* The stamp is taken once the role has been read.                         *)
Mut_StampLate(s) ==
    /\ At(s, "member")
    /\ role[user[s]] # "none"
    /\ cached' = IF cached[s] = "none" THEN [cached EXCEPT ![s] = role[user[s]]]
                                       ELSE cached
    /\ stamp' = [stamp EXCEPT ![s] = [member |-> memberInv[user[s]].version,
                                      session |-> sessionInv]]
    /\ Goto(s, "accept")
    /\ UNCHANGED <<user, revoked, dbVars, fenceVars, roomLock, room, act, doc, seen>>

ReadMember(s) ==
    /\ At(s, "member")
    /\ \/ role[user[s]] = "none" /\ Gone(s)
       \/ /\ role[user[s]] # "none"
          /\ cached' = IF cached[s] = "none"
                          THEN [cached EXCEPT ![s] = role[user[s]]]
                          ELSE cached
          /\ Goto(s, "accept")
          /\ UNCHANGED <<user, stamp, revoked>>
    /\ UNCHANGED <<dbVars, fenceVars, roomLock, room, act, doc, seen>>

(* The socket is accepted and the fence looked at before it joins.         *)
Accept(s) ==
    /\ At(s, "accept")
    /\ \/ AuthorizationFailure(s) = "none" /\ Goto(s, "join") /\ UNCHANGED connVars
       \/ AuthorizationFailure(s) # "none" /\ Gone(s)
    /\ UNCHANGED <<dbVars, fenceVars, roomLock, room, act, doc, seen>>

(* The fence is not looked at again after the lock was obtained.           *)
Mut_Join(s) ==
    /\ At(s, "join")
    /\ LockFree
    /\ room' = room \cup {s}
    /\ Goto(s, "open")
    /\ UNCHANGED <<dbVars, fenceVars, connVars, act, doc, seen>>

(* _join_room, and the second look at the fence when the lock was obtained.*)
Join(s) ==
    /\ At(s, "join")
    /\ LockFree
    /\ room' = room \cup {s}
    /\ Revoke(s)
    /\ Goto(s, IF AuthorizationFailure(s) = "none" THEN "open" ELSE "leave")
    /\ UNCHANGED <<dbVars, fenceVars, user, cached, stamp, act, doc, seen>>

-----------------------------------------------------------------------------
(***************************************************************************)
(* The receive loop and _handle_binary_message                             *)
(***************************************************************************)

(* A frame has arrived: a state vector to answer, or a document update.    *)
(* _prune_stale_awareness awaits between this check and the handler's.     *)
Receive(s) ==
    /\ At(s, "open")
    /\ Revoke(s)
    /\ \/ AuthorizationFailure(s) # "none" /\ Goto(s, "leave")
       \/ AuthorizationFailure(s) = "none" /\ Goto(s, "sync")
       \/ AuthorizationFailure(s) = "none" /\ doc[user[s]] < MaxEdits /\ Goto(s, "update")
    /\ UNCHANGED <<dbVars, fenceVars, roomLock, room, user, cached, stamp, act,
                   doc, seen>>

(* The handler's first look drops a frame of a revoked connection.         *)
DropFrame(s) ==
    /\ pc[s] \in {"sync", "update"}
    /\ revoked[s] # "none"
    /\ Goto(s, "open")
    /\ UNCHANGED <<dbVars, fenceVars, roomLock, room, connVars, act, doc, seen>>

AnswerSync(s) ==
    /\ At(s, "sync")
    /\ revoked[s] = "none"
    /\ seen' = [seen EXCEPT ![s] = doc]
    /\ Goto(s, "open")
    /\ UNCHANGED <<dbVars, fenceVars, roomLock, room, connVars, act, doc>>

(* The fence is not looked at again under the room lock.                   *)
Mut_ApplyFrame(s) ==
    /\ At(s, "update")
    /\ LockFree
    /\ doc' = IF cached[s] = "editor" THEN [doc EXCEPT ![user[s]] = @ + 1] ELSE doc
    /\ Goto(s, "open")
    /\ UNCHANGED <<dbVars, fenceVars, room, connVars, act, seen>>

(* apply_if_authorized, under the room lock.  A viewer's update is denied. *)
ApplyFrame(s) ==
    /\ At(s, "update")
    /\ LockFree
    /\ Revoke(s)
    /\ doc' = IF AuthorizationFailure(s) = "none" /\ cached[s] = "editor"
                 THEN [doc EXCEPT ![user[s]] = @ + 1]
                 ELSE doc
    /\ Goto(s, "open")
    /\ UNCHANGED <<dbVars, fenceVars, room, user, cached, stamp, act, seen>>

(* _broadcast_binary reaches s: every send looks at the revoked ones first.*)
Hear(s) ==
    /\ s \in room
    /\ revoked[s] = "none"
    /\ pc[s] # "leave"
    /\ seen[s] # doc
    /\ seen' = [seen EXCEPT ![s] = doc]
    /\ UNCHANGED <<dbVars, fenceVars, roomLock, room, pc, connVars, act, doc>>

(* The transport closes: always after a revocation, at any time otherwise. *)
Disconnect(s) ==
    /\ At(s, "open")
    /\ Goto(s, "leave")
    /\ UNCHANGED <<dbVars, fenceVars, roomLock, room, connVars, act, doc, seen>>

LeaveRoom(s) ==
    /\ At(s, "leave")
    /\ LockFree
    /\ room' = room \ {s}
    /\ Gone(s)
    /\ UNCHANGED <<dbVars, fenceVars, act, doc, seen>>

-----------------------------------------------------------------------------
(***************************************************************************)
(* The owner's requests.  get_current_user loads the owner, and with it    *)
(* the owned sessions and their members, into the request's identity map:  *)
(* what is read of those rows afterwards is what was read then.  In        *)
(* particular _get_active_session never sees a close by another request.   *)
(***************************************************************************)
OwnerRequest(a) ==
    /\ At(a, "idle")
    /\ active
    /\ \E u \in Users, k \in ActKinds, r \in Roles :
        /\ IF k = "close" THEN sessionInv < MaxVersion
                          ELSE memberInv[u].version < MaxVersion
        /\ act' = [act EXCEPT ![a] = [kind |-> k, who |-> u, to |-> r, saw |-> role[u]]]
        /\ Goto(a, IF k = "add" THEN "add" ELSE "lock")
    /\ UNCHANGED <<dbVars, fenceVars, roomLock, room, connVars, doc, seen>>

(* add_member takes no lock: nobody is authorized less by it.              *)
AddMember(a) ==
    /\ At(a, "add")
    /\ role' = IF role[act[a].who] = "none"
                  THEN [role EXCEPT ![act[a].who] = act[a].to]
                  ELSE role
    /\ Goto(a, "idle")
    /\ UNCHANGED <<active, fenceVars, roomLock, room, connVars, act, doc, seen>>

LockSession(a) ==
    /\ At(a, "lock")
    /\ Acquire(a)
    /\ Goto(a, "commit")
    /\ UNCHANGED <<dbVars, fenceVars, room, connVars, act, doc, seen>>

(* A missing member is a 404: nothing was changed.                         *)
NoSuchMember(a) ==
    /\ At(a, "commit")
    /\ act[a].kind # "close"
    /\ role[act[a].who] = "none"
    /\ Release
    /\ Goto(a, "idle")
    /\ UNCHANGED <<dbVars, fenceVars, room, connVars, act, doc, seen>>

(* The role update_member_role compares with: the loaded one.              *)
LoadedRole(a) == IF act[a].saw = "none" THEN role[act[a].who] ELSE act[a].saw

(* update_member_role returns early when the role already is the new one.  *)
CommitRole(a) ==
    /\ At(a, "commit")
    /\ act[a].kind = "role"
    /\ role[act[a].who] # "none"
    /\ \/ LoadedRole(a) = act[a].to /\ UNCHANGED role /\ Goto(a, "fence")
       \/ /\ LoadedRole(a) # act[a].to
          /\ role' = [role EXCEPT ![act[a].who] = act[a].to]
          /\ Goto(a, "refresh")
    /\ UNCHANGED <<active, fenceVars, roomLock, room, connVars, act, doc, seen>>

CommitRemoval(a) ==
    /\ At(a, "commit")
    /\ act[a].kind = "remove"
    /\ role[act[a].who] # "none"
    /\ role' = [role EXCEPT ![act[a].who] = "none"]
    /\ Goto(a, "fence")
    /\ UNCHANGED <<active, fenceVars, roomLock, room, connVars, act, doc, seen>>

CommitClose(a) ==
    /\ At(a, "commit")
    /\ act[a].kind = "close"
    /\ active' = FALSE
    /\ Goto(a, "refresh")
    /\ UNCHANGED <<role, fenceVars, roomLock, room, connVars, act, doc, seen>>

(* The commit raised and was not executed: a 500, and no fence.            *)
CommitFail(a) ==
    /\ "commit" \in Faults
    /\ At(a, "commit")
    /\ Release
    /\ Goto(a, "idle")
    /\ UNCHANGED <<dbVars, fenceVars, room, connVars, act, doc, seen>>

Refresh(a) ==
    /\ At(a, "refresh")
    /\ Goto(a, "fence")
    /\ UNCHANGED <<dbVars, fenceVars, roomLock, room, connVars, act, doc, seen>>

(* db.refresh raised after the commit: a 500, and no fence either.         *)
RefreshFail(a) ==
    /\ "refresh" \in Faults
    /\ At(a, "refresh")
    /\ Release
    /\ Goto(a, "idle")
    /\ UNCHANGED <<dbVars, fenceVars, room, connVars, act, doc, seen>>

(* invalidate_member_connections, close_session_connections: the version   *)
(* advances and the connections that joined are revoked, in one go; the    *)
(* closing handshakes are then awaited under the lock.                     *)
FenceMember(a) ==
    LET u == act[a].who
        why == IF act[a].kind = "role" THEN "changed" ELSE "removed"
    IN  /\ act[a].kind \in {"role", "remove"}
        /\ memberInv' = [memberInv EXCEPT ![u] = [version |-> @.version + 1,
                                                  reason |-> why]]
        /\ revoked' = [s \in Sockets |-> IF s \in room /\ user[s] = u
                                            THEN why ELSE revoked[s]]
        /\ UNCHANGED sessionInv

FenceSession(a) ==
    /\ act[a].kind = "close"
    /\ sessionInv' = sessionInv + 1
    /\ revoked' = [s \in Sockets |-> IF s \in room THEN "closed" ELSE revoked[s]]
    /\ UNCHANGED memberInv

Fence(a) ==
    /\ At(a, "fence")
    /\ FenceMember(a) \/ FenceSession(a)
    /\ Goto(a, "closing")
    /\ UNCHANGED <<dbVars, roomLock, room, user, cached, stamp, act, doc, seen>>

(* The lock is kept after the closing handshakes.                          *)
Mut_Respond(a) ==
    /\ At(a, "closing")
    /\ Goto(a, "idle")
    /\ UNCHANGED <<dbVars, fenceVars, roomLock, room, connVars, act, doc, seen>>

Respond(a) ==
    /\ At(a, "closing")
    /\ Release
    /\ Goto(a, "idle")
    /\ UNCHANGED <<dbVars, fenceVars, room, connVars, act, doc, seen>>

-----------------------------------------------------------------------------
(***************************************************************************)
(* HTTP mutations of the document (save, restore)                          *)
(***************************************************************************)

(* RoleChecker lets an editor through, before the room lock is requested.  *)
HttpRequest(h) ==
    /\ At(h, "idle")
    /\ active
    /\ \E u \in Users :
        /\ role[u] = "editor"
        /\ doc[u] < MaxEdits
        /\ user' = [user EXCEPT ![h] = u]
    /\ Goto(h, "lock")
    /\ UNCHANGED <<dbVars, fenceVars, roomLock, room, cached, stamp, revoked, act,
                   doc, seen>>

LockDocument(h) ==
    /\ At(h, "lock")
    /\ Acquire(h)
    /\ Goto(h, "check")
    /\ UNCHANGED <<dbVars, fenceVars, room, connVars, act, doc, seen>>

(* _require_current_editor selects columns, which are always read anew.    *)
RequireCurrentEditor(h) ==
    /\ At(h, "check")
    /\ IF active /\ role[user[h]] = "editor"
          THEN Goto(h, "apply") /\ UNCHANGED roomLock
          ELSE Goto(h, "idle") /\ Release
    /\ UNCHANGED <<dbVars, fenceVars, room, connVars, act, doc, seen>>

ApplyHttp(h) ==
    /\ At(h, "apply")
    /\ doc' = [doc EXCEPT ![user[h]] = @ + 1]
    /\ Release
    /\ Goto(h, "idle")
    /\ UNCHANGED <<dbVars, fenceVars, room, connVars, act, seen>>

-----------------------------------------------------------------------------
(* The API process restarts: every in-memory table and connection is gone. *)
Restart ==
    /\ memberInv' = [u \in Users |-> NoInvalidation]
    /\ sessionInv' = 0
    /\ roomLock' = Nobody
    /\ room' = {}
    /\ pc' = Rest
    /\ revoked' = [s \in Sockets |-> "none"]
    /\ stamp' = [s \in Sockets |-> NoStamp]
    /\ cached' = [s \in Sockets |-> "none"]
    /\ UNCHANGED <<dbVars, user, act, doc, seen>>

SocketStep(s) ==
    \/ Connect(s) \/ ReadSession(s) \/ ReadMember(s) \/ Accept(s) \/ Join(s)
    \/ Receive(s) \/ DropFrame(s) \/ AnswerSync(s) \/ ApplyFrame(s) \/ Hear(s)
    \/ Disconnect(s) \/ LeaveRoom(s)

AdminStep(a) ==
    \/ OwnerRequest(a) \/ AddMember(a) \/ LockSession(a) \/ NoSuchMember(a)
    \/ CommitRole(a) \/ CommitRemoval(a) \/ CommitClose(a) \/ CommitFail(a)
    \/ Refresh(a) \/ RefreshFail(a) \/ Fence(a) \/ Respond(a)

SaverStep(h) ==
    HttpRequest(h) \/ LockDocument(h) \/ RequireCurrentEditor(h) \/ ApplyHttp(h)

Next ==
    \/ \E s \in Sockets : SocketStep(s)
    \/ \E a \in Admins : AdminStep(a)
    \/ \E h \in Savers : SaverStep(h)
    \/ Restart

Spec == Init /\ [][Next]_vars

(***************************************************************************)
(* Fairness: coroutines run on, waiters for the room lock are not          *)
(* overtaken for ever (asyncio.Lock is FIFO), and a closed transport is    *)
(* noticed by its receive loop.                                            *)
(***************************************************************************)
Fairness ==
    /\ \A s \in Sockets :
        /\ WF_vars(DropFrame(s)) /\ WF_vars(AnswerSync(s))
        /\ WF_vars(revoked[s] # "none" /\ Disconnect(s))
        /\ SF_vars(ApplyFrame(s)) /\ SF_vars(LeaveRoom(s))
    /\ \A a \in Admins : WF_vars(AdminStep(a) /\ roomLock = a)
    /\ \A h \in Savers : WF_vars(SaverStep(h) /\ roomLock = h)

FairSpec == Spec /\ Fairness

-----------------------------------------------------------------------------
(***************************************************************************)
(* Properties                                                              *)
(***************************************************************************)

(* Nobody but a current editor of an open session changes the document,    *)
(* however the update was submitted, whatever role its connection cached   *)
(* and however long it waited for the room lock (websocket.                *)
(* _handle_binary_message, sessions.router._require_current_editor).       *)
OnlyEditorsWrite ==
    [][\A u \in Users : doc'[u] # doc[u] => active /\ role[u] = "editor"]_vars

(* The owner's request about u is between its commit and its fence.        *)
Pending(u) ==
    \E a \in Admins : /\ pc[a] \in {"refresh", "fence"}
                      /\ act[a].kind = "close" \/ act[a].who = u

(* Document content goes to current members of an open session only; the   *)
(* one exception is the moment between a commit and its fence, for which   *)
(* the owner's request has not been answered (websocket._broadcast_binary, *)
(* SYNC_STEP1 in _handle_binary_message).                                  *)
OnlyMembersRead ==
    [][\A s \in Sockets : seen'[s] # seen[s] =>
          \/ active /\ role[user[s]] # "none"
          \/ Pending(user[s])]_vars

(* A joined connection whose stamp is current works with the role that the *)
(* database has (websocket._authenticate_ws: stamp first, then read).      *)
CachedRoleIsCurrent ==
    \A s \in room :
        ~SessionStale(s) /\ ~MemberStale(s) =>
            (active /\ cached[s] = role[user[s]]) \/ Pending(user[s])

(* A revoked connection leaves the room, also when closing it failed       *)
(* (websocket.invalidate_member_connections, websocket_endpoint).          *)
RevokedLeave == \A s \in Sockets : revoked[s] # "none" ~> s \notin room

(* A membership change that the owner is told succeeded is in force        *)
(* (sessions.router.update_member_role_endpoint: "Role updated").          *)
AcknowledgedRoleHolds ==
    \A a \in Admins :
        At(a, "closing") /\ act[a].kind = "role" => role[act[a].who] = act[a].to

=============================================================================
