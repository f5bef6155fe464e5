------------------------- MODULE AuthorizationProofs -------------------------
(***************************************************************************)
(* Proofs about Authorization, for every set of users, connections and     *)
(* concurrent requests.                                                    *)
(***************************************************************************)
EXTENDS Authorization, TLAPS

(* Who holds the room lock, and who is in the room.                        *)
AdminHolds(a) == pc[a] \in {"commit", "refresh", "fence", "closing"}
SaverHolds(h) == pc[h] \in {"check", "apply"}
InRoom(s) == pc[s] \in {"open", "sync", "update", "leave"}

LocksAgree ==
    /\ \A a \in Admins : roomLock = a <=> AdminHolds(a)
    /\ \A h \in Savers : roomLock = h <=> SaverHolds(h)
    /\ \A s \in Sockets : s \in room <=> InRoom(s)

(* A stamp is never ahead of the versions; an invalidation has a reason.   *)
StampsBehind ==
    /\ \A s \in Sockets : /\ stamp[s].member <= memberInv[user[s]].version
                          /\ stamp[s].session <= sessionInv
    /\ \A u \in Users : memberInv[u].version > 0 => memberInv[u].reason # "none"

(* The fence reaches every joined connection: one that is not revoked is   *)
(* not stale.                                                              *)
FenceComplete ==
    \A s \in room : revoked[s] = "none" => ~SessionStale(s) /\ ~MemberStale(s)

(* The members that a request of the owner between its commit and its      *)
(* fence is about, and whether one of these requests is a close.           *)
PendingMembers ==
    {act[a].who : a \in {b \in Admins : /\ pc[b] \in {"refresh", "fence"}
                                       /\ act[b].kind \in {"role", "remove"}}}

PendingClose ==
    \E a \in Admins : pc[a] \in {"refresh", "fence"} /\ act[a].kind = "close"

(* What a handler with a current stamp has read is still true, or the      *)
(* fence that will make its stamp stale is on its way.                     *)
RoleFresh ==
    \A s \in Sockets :
        pc[s] # "away" /\ cached[s] # "none" /\ ~MemberStale(s) =>
            cached[s] = role[user[s]] \/ user[s] \in PendingMembers

ActiveFresh ==
    \A s \in Sockets :
        pc[s] \notin {"away", "session"} /\ ~SessionStale(s) => active \/ PendingClose

SaverAllowed ==
    \A h \in Savers : pc[h] = "apply" => active /\ role[user[h]] = "editor"

(* Only membership changes and closes reach the commit.                    *)
KindAgrees ==
    \A a \in Admins :
        /\ AdminHolds(a) => act[a].kind # "add"
        /\ pc[a] = "lock" => act[a].kind # "add"

IInv ==
    /\ TypeOK
    /\ LocksAgree
    /\ StampsBehind
    /\ FenceComplete
    /\ KindAgrees
    /\ RoleFresh
    /\ ActiveFresh
    /\ SaverAllowed

(* No failure between a commit and its fence.                              *)
RefreshReliable == "refresh" \notin Faults

-----------------------------------------------------------------------------
LEMMA InitTypeOK == Init => TypeOK
BY AuthorizationAssumption
   DEF Init, TypeOK, Rest, NoInvalidation, NoStamp, Tasks, Roles, Reasons, ActKinds,
       SocketPcs, AdminPcs, SaverPcs

(* The parts of TypeOK that a move of a task disturbs.                     *)
PcTypeOK ==
    /\ pc \in [Tasks -> SocketPcs \cup AdminPcs \cup SaverPcs]
    /\ \A s \in Sockets : pc[s] \in SocketPcs
    /\ \A a \in Admins : pc[a] \in AdminPcs
    /\ \A h \in Savers : pc[h] \in SaverPcs

Working == SocketPcs \ {"away", "session", "member"}

RoleKnown == \A s \in Sockets : pc[s] \in Working => cached[s] # "none"

LEMMA GotoTypeOK ==
    ASSUME TypeOK, NEW t \in Tasks, NEW where, Goto(t, where),
           \/ t \in Sockets /\ where \in SocketPcs
           \/ t \in Admins /\ where \in AdminPcs
           \/ t \in Savers /\ where \in SaverPcs
    PROVE  PcTypeOK'
BY AuthorizationAssumption DEF TypeOK, PcTypeOK, Goto, Tasks

LEMMA GotoRoleKnown ==
    ASSUME TypeOK, NEW t \in Tasks, NEW where, Goto(t, where), UNCHANGED cached,
           t \in Sockets /\ where \in Working => cached[t] # "none"
    PROVE  RoleKnown'
BY AuthorizationAssumption DEF TypeOK, RoleKnown, Working, Goto, Tasks

LEMMA GoneTypeOK ==
    ASSUME TypeOK, NEW s \in Sockets, Gone(s)
    PROVE  /\ PcTypeOK' /\ RoleKnown'
           /\ cached' \in [Sockets -> Roles \cup {"none"}]
           /\ stamp' \in [Sockets -> [member : Nat, session : Nat]]
           /\ revoked' \in [Sockets -> Reasons]
<1>1. PcTypeOK'
  BY GotoTypeOK DEF Gone, Tasks, SocketPcs
<1>2. RoleKnown'
  BY AuthorizationAssumption DEF TypeOK, RoleKnown, Working, Gone, Goto, Tasks
<1> QED
  BY <1>1, <1>2 DEF TypeOK, Gone, NoStamp, Reasons

LEMMA SocketTypeOK ==
    ASSUME TypeOK, NEW s \in Sockets, SocketStep(s)
    PROVE  TypeOK'
<1> USE DEF At, dbVars, fenceVars, connVars
<1>0. s \in Tasks /\ AuthorizationFailure(s) \in Reasons
  BY DEF TypeOK, Tasks, AuthorizationFailure, Reasons
<1>1. CASE Connect(s)
  <2>1. PcTypeOK'
    BY <1>0, <1>1, GotoTypeOK DEF Connect, SocketPcs
  <2>2. RoleKnown'
    BY <1>1, AuthorizationAssumption DEF Connect, Goto, TypeOK, RoleKnown, Working, Tasks
  <2> QED
    BY <1>1, <2>1, <2>2 DEF Connect, TypeOK, PcTypeOK, RoleKnown, Working
<1>2. CASE ReadSession(s)
  <2>1. CASE Gone(s)
    BY <1>2, <2>1, GoneTypeOK DEF ReadSession, Gone, TypeOK, PcTypeOK, RoleKnown, Working
  <2>2. CASE Goto(s, "member") /\ UNCHANGED connVars
    <3>1. PcTypeOK' /\ RoleKnown'
      BY <1>0, <2>2, GotoTypeOK, GotoRoleKnown DEF SocketPcs, Working
    <3> QED BY <1>2, <2>2, <3>1 DEF ReadSession, TypeOK, PcTypeOK, RoleKnown, Working
  <2> QED BY <1>2, <2>1, <2>2 DEF ReadSession
<1>3. CASE ReadMember(s)
  <2>1. CASE Gone(s)
    BY <1>3, <2>1, GoneTypeOK DEF ReadMember, Gone, TypeOK, PcTypeOK, RoleKnown, Working
  <2>2. CASE ~Gone(s)
    <3>1. PcTypeOK'
      BY <1>0, <1>3, <2>2, GotoTypeOK DEF ReadMember, SocketPcs
    <3>2. RoleKnown'
      BY <1>3, <2>2, AuthorizationAssumption
         DEF ReadMember, Goto, TypeOK, RoleKnown, Working, Tasks
    <3> QED
      BY <1>3, <2>2, <3>1, <3>2 DEF ReadMember, TypeOK, PcTypeOK, RoleKnown, Working
  <2> QED BY <2>1, <2>2
<1>4. CASE Accept(s)
  <2>1. CASE Gone(s)
    BY <1>4, <2>1, GoneTypeOK DEF Accept, Gone, TypeOK, PcTypeOK, RoleKnown, Working
  <2>2. CASE Goto(s, "join") /\ UNCHANGED connVars
    <3>1. PcTypeOK' /\ RoleKnown'
      BY <1>0, <1>4, <2>2, GotoTypeOK, GotoRoleKnown DEF Accept, SocketPcs, Working, TypeOK
    <3> QED BY <1>4, <2>2, <3>1 DEF Accept, TypeOK, PcTypeOK, RoleKnown, Working
  <2> QED BY <1>4, <2>1, <2>2 DEF Accept
<1>5. ASSUME NEW where \in SocketPcs, Goto(s, where), pc[s] \in Working \/ where \notin Working,
             UNCHANGED cached
      PROVE  PcTypeOK' /\ RoleKnown'
  BY <1>0, <1>5, GotoTypeOK, GotoRoleKnown DEF TypeOK, Working
<1>6. CASE Join(s)
  <2>1. PcTypeOK' /\ RoleKnown'
    BY <1>5, <1>6 DEF Join, SocketPcs, Working
  <2> QED
    BY <1>0, <1>6, <2>1 DEF Join, Revoke, LockFree, TypeOK, PcTypeOK, RoleKnown, Working
<1>7. CASE Receive(s)
  <2>1. PcTypeOK' /\ RoleKnown'
    BY <1>5, <1>7 DEF Receive, SocketPcs, Working
  <2> QED
    BY <1>0, <1>7, <2>1 DEF Receive, Revoke, TypeOK, PcTypeOK, RoleKnown, Working
<1>8. CASE DropFrame(s) \/ AnswerSync(s) \/ Disconnect(s)
  <2>1. PcTypeOK' /\ RoleKnown'
    BY <1>5, <1>8 DEF DropFrame, AnswerSync, Disconnect, SocketPcs, Working
  <2> QED
    BY <1>8, <2>1 DEF DropFrame, AnswerSync, Disconnect, TypeOK, PcTypeOK, RoleKnown,
                      Working
<1>9. CASE ApplyFrame(s)
  <2>1. PcTypeOK' /\ RoleKnown'
    BY <1>5, <1>9 DEF ApplyFrame, SocketPcs, Working
  <2> QED
    BY <1>0, <1>9, <2>1
       DEF ApplyFrame, Revoke, LockFree, TypeOK, PcTypeOK, RoleKnown, Working
<1>10. CASE Hear(s)
  BY <1>10 DEF Hear, TypeOK
<1>11. CASE LeaveRoom(s)
  BY <1>11, GoneTypeOK
     DEF LeaveRoom, Gone, LockFree, TypeOK, PcTypeOK, RoleKnown, Working
<1> QED
  BY <1>1, <1>2, <1>3, <1>4, <1>6, <1>7, <1>8, <1>9, <1>10, <1>11 DEF SocketStep

LEMMA AdminTypeOK ==
    ASSUME TypeOK, NEW a \in Admins, AdminStep(a)
    PROVE  TypeOK'
<1> USE DEF At, Release, dbVars, fenceVars, connVars
<1>0. a \in Tasks /\ a \notin Sockets
  BY AuthorizationAssumption DEF Tasks
<1>1. PcTypeOK' /\ (UNCHANGED cached => RoleKnown')
  BY <1>0, GotoTypeOK, GotoRoleKnown
     DEF AdminStep, OwnerRequest, AddMember, LockSession, NoSuchMember, CommitRole,
         CommitRemoval, CommitClose, CommitFail, Refresh, RefreshFail, Fence, Respond,
         AdminPcs
<1> USE <1>1 DEF TypeOK, PcTypeOK, RoleKnown, Working
<1>2. CASE OwnerRequest(a)
  BY <1>2 DEF OwnerRequest, ActKinds
<1>3. CASE AddMember(a)
  BY <1>3 DEF AddMember
<1>4. CASE LockSession(a) \/ NoSuchMember(a) \/ CommitFail(a)
  BY <1>4 DEF LockSession, Acquire, NoSuchMember, CommitFail
<1>5. CASE CommitRole(a) \/ CommitRemoval(a) \/ CommitClose(a)
  <2>0. act[a] \in [kind : ActKinds, who : Users, to : Roles, saw : Roles \cup {"none"}]
    OBVIOUS
  <2>1. act[a].to \in Roles
    BY <2>0
  <2>2. role' \in [Users -> Roles \cup {"none"}]
    BY <1>5, <2>1 DEF CommitRole, CommitRemoval, CommitClose
  <2> QED
    BY <1>5, <2>2 DEF CommitRole, CommitRemoval, CommitClose
<1>6. CASE Refresh(a) \/ RefreshFail(a) \/ Respond(a)
  BY <1>6 DEF Refresh, RefreshFail, Respond
<1>7. CASE Fence(a)
  <2>1. CASE FenceMember(a)
    BY <1>7, <2>1 DEF Fence, FenceMember, Reasons
  <2>2. CASE FenceSession(a)
    BY <1>7, <2>2 DEF Fence, FenceSession, Reasons
  <2> QED BY <1>7, <2>1, <2>2 DEF Fence
<1> QED
  BY <1>2, <1>3, <1>4, <1>5, <1>6, <1>7 DEF AdminStep

LEMMA SaverTypeOK ==
    ASSUME TypeOK, NEW h \in Savers, SaverStep(h)
    PROVE  TypeOK'
<1> USE DEF At, Release, dbVars, fenceVars, connVars
<1>0. h \in Tasks /\ h \notin Sockets
  BY AuthorizationAssumption DEF Tasks
<1>1. PcTypeOK' /\ RoleKnown'
  BY <1>0, GotoTypeOK, GotoRoleKnown
     DEF SaverStep, HttpRequest, LockDocument, RequireCurrentEditor, ApplyHttp, SaverPcs
<1> USE <1>1 DEF TypeOK, PcTypeOK, RoleKnown, Working
<1>2. CASE HttpRequest(h)
  BY <1>2 DEF HttpRequest
<1>3. CASE LockDocument(h)
  BY <1>3 DEF LockDocument, Acquire
<1>4. CASE RequireCurrentEditor(h)
  BY <1>4 DEF RequireCurrentEditor
<1>5. CASE ApplyHttp(h)
  BY <1>5 DEF ApplyHttp
<1> QED
  BY <1>2, <1>3, <1>4, <1>5 DEF SaverStep

LEMMA RestartTypeOK == TypeOK /\ Restart => TypeOK'
BY AuthorizationAssumption
   DEF TypeOK, Restart, Rest, NoInvalidation, NoStamp, Tasks, Reasons, SocketPcs,
       AdminPcs, SaverPcs, dbVars

LEMMA NextTypeOK == TypeOK /\ [Next]_vars => TypeOK'
<1> SUFFICES ASSUME TypeOK, [Next]_vars PROVE TypeOK'
  OBVIOUS
<1>1. CASE UNCHANGED vars
  BY <1>1 DEF TypeOK, vars, dbVars, fenceVars, connVars
<1> QED
  BY <1>1, SocketTypeOK, AdminTypeOK, SaverTypeOK, RestartTypeOK DEF Next

(* Every variable keeps its type.                                          *)
THEOREM TypeCorrect == Spec => []TypeOK
BY InitTypeOK, NextTypeOK, PTL DEF Spec

-----------------------------------------------------------------------------
(***************************************************************************)
(* The inductive invariant                                                 *)
(***************************************************************************)
LEMMA InitIInv == Init => IInv
<1> SUFFICES ASSUME Init PROVE IInv
  OBVIOUS
<1>1. TypeOK
  BY InitTypeOK
<1>2. /\ \A s \in Sockets : pc[s] = "away"
      /\ \A a \in Admins : pc[a] = "idle"
      /\ \A h \in Savers : pc[h] = "idle"
  BY AuthorizationAssumption DEF Init, Rest, Tasks
<1>3. LocksAgree
  BY <1>2, AuthorizationAssumption
     DEF Init, LocksAgree, AdminHolds, SaverHolds, InRoom, Tasks
<1>4. StampsBehind /\ FenceComplete
  BY DEF Init, StampsBehind, FenceComplete, NoStamp, NoInvalidation
<1>5. KindAgrees /\ RoleFresh /\ ActiveFresh /\ SaverAllowed
  BY <1>2 DEF KindAgrees, AdminHolds, RoleFresh, ActiveFresh, SaverAllowed
<1> QED
  BY <1>1, <1>3, <1>4, <1>5 DEF IInv

(* One task moves, and the others stay where they are.                     *)
LEMMA GotoMoves ==
    ASSUME TypeOK, NEW t \in Tasks, NEW where, Goto(t, where)
    PROVE  pc'[t] = where /\ \A u \in Tasks \ {t} : pc'[u] = pc[u]
BY DEF TypeOK, Goto

(* Where a step of a socket, of the owner or of a save goes.               *)
LEMMA SocketMoves ==
    ASSUME TypeOK, NEW s \in Sockets, SocketStep(s)
    PROVE  \A t \in Tasks \ {s} : pc'[t] = pc[t]
<1> s \in Tasks
  BY DEF Tasks
<1> QED
  BY GotoMoves
     DEF SocketStep, Connect, ReadSession, ReadMember, Accept, Join, Receive, DropFrame,
         AnswerSync, ApplyFrame, Hear, Disconnect, LeaveRoom, Gone

LEMMA SocketLocks ==
    ASSUME TypeOK, LocksAgree, NEW s \in Sockets, SocketStep(s)
    PROVE  LocksAgree'
<1> USE DEF At
<1>0. s \in Tasks /\ (\A t \in Tasks \ {s} : pc'[t] = pc[t])
  BY SocketMoves DEF Tasks
<1>1. UNCHANGED roomLock
  BY DEF SocketStep, Connect, ReadSession, ReadMember, Accept, Join, Receive, DropFrame,
         AnswerSync, ApplyFrame, Hear, Disconnect, LeaveRoom, LockFree
<1>2. \A d \in Sockets \ {s} : d \in room' <=> d \in room
  BY DEF SocketStep, Connect, ReadSession, ReadMember, Accept, Join, Receive, DropFrame,
         AnswerSync, ApplyFrame, Hear, Disconnect, LeaveRoom
<1>3. s \in room' <=> InRoom(s)'
  BY <1>0, GotoMoves
     DEF SocketStep, Connect, ReadSession, ReadMember, Accept, Join, Receive, DropFrame,
         AnswerSync, ApplyFrame, Hear, Disconnect, LeaveRoom, Gone, LocksAgree, InRoom
<1> QED
  BY <1>0, <1>1, <1>2, <1>3, AuthorizationAssumption
     DEF LocksAgree, AdminHolds, SaverHolds, InRoom, Tasks

LEMMA AdminMoves ==
    ASSUME TypeOK, NEW a \in Admins, AdminStep(a)
    PROVE  \A t \in Tasks \ {a} : pc'[t] = pc[t]
<1> a \in Tasks
  BY DEF Tasks
<1> QED
  BY GotoMoves
     DEF AdminStep, OwnerRequest, AddMember, LockSession, NoSuchMember, CommitRole,
         CommitRemoval, CommitClose, CommitFail, Refresh, RefreshFail, Fence, Respond

(* The lock changes hands with the moves into and out of the locked part.  *)
LEMMA AdminLock ==
    ASSUME TypeOK, LocksAgree, NEW a \in Admins, AdminStep(a)
    PROVE  /\ roomLock' = a <=> AdminHolds(a)'
           /\ \A t \in Tasks \ {a} : roomLock' = t <=> roomLock = t
<1> USE DEF At, Release
<1>0. a \in Tasks /\ Nobody # a /\ Nobody \notin Tasks /\ (roomLock = a <=> AdminHolds(a))
  BY AuthorizationAssumption DEF Tasks, LocksAgree
<1> USE <1>0, GotoMoves
<1>1. CASE OwnerRequest(a) \/ AddMember(a)
  BY <1>1 DEF OwnerRequest, AddMember, AdminHolds
<1>2. CASE LockSession(a)
  BY <1>2 DEF LockSession, Acquire, AdminHolds
<1>3. CASE NoSuchMember(a) \/ CommitFail(a) \/ RefreshFail(a) \/ Respond(a)
  BY <1>3 DEF NoSuchMember, CommitFail, RefreshFail, Respond, AdminHolds
<1>4. CASE CommitRole(a) \/ CommitRemoval(a) \/ CommitClose(a)
  BY <1>4 DEF CommitRole, CommitRemoval, CommitClose, AdminHolds
<1>5. CASE Refresh(a) \/ Fence(a)
  BY <1>5 DEF Refresh, Fence, AdminHolds
<1> QED
  BY <1>1, <1>2, <1>3, <1>4, <1>5 DEF AdminStep

LEMMA AdminLocks ==
    ASSUME TypeOK, LocksAgree, NEW a \in Admins, AdminStep(a)
    PROVE  LocksAgree'
<1>1. UNCHANGED room
  BY DEF AdminStep, OwnerRequest, AddMember, LockSession, NoSuchMember, CommitRole,
         CommitRemoval, CommitClose, CommitFail, Refresh, RefreshFail, Fence, Respond
<1> QED
  BY <1>1, AdminLock, AdminMoves, AuthorizationAssumption
     DEF LocksAgree, AdminHolds, SaverHolds, InRoom, Tasks

LEMMA SaverMoves ==
    ASSUME TypeOK, NEW h \in Savers, SaverStep(h)
    PROVE  \A t \in Tasks \ {h} : pc'[t] = pc[t]
<1> h \in Tasks
  BY DEF Tasks
<1> QED
  BY GotoMoves DEF SaverStep, HttpRequest, LockDocument, RequireCurrentEditor, ApplyHttp

LEMMA SaverLock ==
    ASSUME TypeOK, LocksAgree, NEW h \in Savers, SaverStep(h)
    PROVE  /\ roomLock' = h <=> SaverHolds(h)'
           /\ \A t \in Tasks \ {h} : roomLock' = t <=> roomLock = t
<1> USE DEF At, Release
<1>0. h \in Tasks /\ Nobody # h /\ Nobody \notin Tasks /\ (roomLock = h <=> SaverHolds(h))
  BY AuthorizationAssumption DEF Tasks, LocksAgree
<1> USE <1>0, GotoMoves
<1>1. CASE HttpRequest(h)
  BY <1>1 DEF HttpRequest, SaverHolds
<1>2. CASE LockDocument(h)
  BY <1>2 DEF LockDocument, Acquire, SaverHolds
<1>3. CASE RequireCurrentEditor(h)
  BY <1>3 DEF RequireCurrentEditor, SaverHolds
<1>4. CASE ApplyHttp(h)
  BY <1>4 DEF ApplyHttp, SaverHolds
<1> QED
  BY <1>1, <1>2, <1>3, <1>4 DEF SaverStep

LEMMA SaverLocks ==
    ASSUME TypeOK, LocksAgree, NEW h \in Savers, SaverStep(h)
    PROVE  LocksAgree'
<1>1. UNCHANGED room
  BY DEF SaverStep, HttpRequest, LockDocument, RequireCurrentEditor, ApplyHttp
<1> QED
  BY <1>1, SaverLock, SaverMoves, AuthorizationAssumption
     DEF LocksAgree, AdminHolds, SaverHolds, InRoom, Tasks

LEMMA RestartIInv == IInv /\ Restart => IInv'
<1> SUFFICES ASSUME IInv, Restart PROVE IInv'
  OBVIOUS
<1>1. TypeOK'
  BY RestartTypeOK DEF IInv
<1>2. /\ \A s \in Sockets : pc'[s] = "away"
      /\ \A a \in Admins : pc'[a] = "idle"
      /\ \A h \in Savers : pc'[h] = "idle"
  BY AuthorizationAssumption DEF Restart, Rest, Tasks
<1>3. LocksAgree'
  BY <1>2, AuthorizationAssumption
     DEF Restart, LocksAgree, AdminHolds, SaverHolds, InRoom, Tasks
<1>4. StampsBehind' /\ FenceComplete'
  BY <1>1 DEF Restart, StampsBehind, FenceComplete, NoStamp, NoInvalidation, TypeOK
<1>5. KindAgrees' /\ RoleFresh' /\ ActiveFresh' /\ SaverAllowed'
  BY <1>2 DEF KindAgrees, AdminHolds, RoleFresh, ActiveFresh, SaverAllowed
<1> QED
  BY <1>1, <1>3, <1>4, <1>5 DEF IInv

-----------------------------------------------------------------------------
(* What a socket's step leaves alone.                                      *)
LEMMA SocketFrame ==
    ASSUME TypeOK, NEW s \in Sockets, SocketStep(s)
    PROVE  /\ UNCHANGED <<dbVars, fenceVars, act>>
           /\ \A h \in Savers : user'[h] = user[h]
           /\ \A d \in Sockets \ {s} : /\ user'[d] = user[d] /\ cached'[d] = cached[d]
                                       /\ stamp'[d] = stamp[d] /\ revoked'[d] = revoked[d]
                                       /\ d \in room' <=> d \in room
<1> USE DEF TypeOK, dbVars, fenceVars, connVars
<1>1. UNCHANGED <<dbVars, fenceVars, act>>
  BY DEF SocketStep, Connect, ReadSession, ReadMember, Accept, Join, Receive, DropFrame,
         AnswerSync, ApplyFrame, Hear, Disconnect, LeaveRoom
<1>2. \A x \in (Sockets \cup Savers) \ {s} : user'[x] = user[x]
  BY DEF SocketStep, Connect, ReadSession, ReadMember, Accept, Join, Receive, DropFrame,
         AnswerSync, ApplyFrame, Hear, Disconnect, LeaveRoom, Gone
<1>3. \A d \in Sockets \ {s} : cached'[d] = cached[d] /\ stamp'[d] = stamp[d]
  BY DEF SocketStep, Connect, ReadSession, ReadMember, Accept, Join, Receive, DropFrame,
         AnswerSync, ApplyFrame, Hear, Disconnect, LeaveRoom, Gone
<1>4. \A d \in Sockets \ {s} : revoked'[d] = revoked[d] /\ (d \in room' <=> d \in room)
  BY DEF SocketStep, Connect, ReadSession, ReadMember, Accept, Join, Receive, DropFrame,
         AnswerSync, ApplyFrame, Hear, Disconnect, LeaveRoom, Gone, Revoke
<1> QED
  BY <1>1, <1>2, <1>3, <1>4, AuthorizationAssumption

LEMMA SocketPending ==
    ASSUME TypeOK, NEW s \in Sockets, SocketStep(s)
    PROVE  (PendingClose' <=> PendingClose) /\ UNCHANGED PendingMembers
<1>1. UNCHANGED act /\ \A a \in Admins : pc'[a] = pc[a]
  BY SocketFrame, SocketMoves, AuthorizationAssumption DEF Tasks
<1> QED
  BY <1>1 DEF PendingClose, PendingMembers

(* The reason a handler goes on with is the fence's, for a live stamp.     *)
LEMMA NoFailure ==
    ASSUME TypeOK, StampsBehind, NEW s \in Sockets, AuthorizationFailure(s) = "none"
    PROVE  revoked[s] = "none" /\ ~SessionStale(s) /\ ~MemberStale(s)
BY DEF TypeOK, StampsBehind, AuthorizationFailure, SessionStale, MemberStale

LEMMA SocketStamps ==
    ASSUME IInv, NEW s \in Sockets, SocketStep(s)
    PROVE  StampsBehind'
<1> USE DEF IInv, TypeOK, StampsBehind
<1>1. UNCHANGED <<memberInv, sessionInv>>
  BY SocketFrame DEF fenceVars
<1>2. /\ stamp'[s].member <= memberInv[user'[s]].version
      /\ stamp'[s].session <= sessionInv
  <2>1. CASE Connect(s)
    BY <2>1 DEF Connect
  <2>2. CASE user' = user /\ (stamp' = stamp \/ stamp' = [stamp EXCEPT ![s] = NoStamp])
    BY <2>2 DEF NoStamp
  <2> QED
    BY <2>1, <2>2
       DEF SocketStep, ReadSession, ReadMember, Accept, Join, Receive, DropFrame,
           AnswerSync, ApplyFrame, Hear, Disconnect, LeaveRoom, Gone, connVars
<1> QED
  BY <1>1, <1>2, SocketFrame

LEMMA SocketFence ==
    ASSUME IInv, NEW s \in Sockets, SocketStep(s)
    PROVE  FenceComplete'
<1> USE DEF IInv, TypeOK, connVars
<1>1. UNCHANGED <<memberInv, sessionInv>>
  BY SocketFrame DEF fenceVars
<1>2. ASSUME s \in room', revoked'[s] = "none"
      PROVE  ~SessionStale(s)' /\ ~MemberStale(s)'
  <2>1. CASE Join(s) \/ Receive(s) \/ ApplyFrame(s)
    <3>1. AuthorizationFailure(s) = "none" /\ UNCHANGED <<stamp, user>>
      BY <1>2, <2>1 DEF Join, Receive, ApplyFrame, Revoke
    <3> QED
      BY <1>1, <3>1, NoFailure DEF SessionStale, MemberStale
  <2>2. CASE DropFrame(s) \/ AnswerSync(s) \/ Hear(s) \/ Disconnect(s)
    BY <1>1, <1>2, <2>2
       DEF DropFrame, AnswerSync, Hear, Disconnect, FenceComplete, SessionStale, MemberStale
  <2>3. CASE Connect(s) \/ ReadSession(s) \/ ReadMember(s) \/ Accept(s) \/ LeaveRoom(s)
    <3>1. s \notin room'
      BY <2>3
         DEF Connect, ReadSession, ReadMember, Accept, LeaveRoom, At, LocksAgree, InRoom
    <3> QED
      BY <1>2, <3>1
  <2> QED
    BY <2>1, <2>2, <2>3 DEF SocketStep
<1>3. ASSUME NEW d \in Sockets \ {s}, d \in room', revoked'[d] = "none"
      PROVE  ~SessionStale(d)' /\ ~MemberStale(d)'
  BY <1>1, <1>3, SocketFrame DEF FenceComplete, SessionStale, MemberStale
<1>4. room' \subseteq Sockets
  BY SocketTypeOK
<1> QED
  BY <1>2, <1>3, <1>4 DEF FenceComplete

LEMMA SocketFresh ==
    ASSUME IInv, NEW s \in Sockets, SocketStep(s)
    PROVE  RoleFresh' /\ ActiveFresh'
<1> USE DEF IInv, TypeOK, connVars, At
<1>1. UNCHANGED <<memberInv, sessionInv, role, active>>
  BY SocketFrame DEF fenceVars, dbVars
<1>2. s \in Tasks /\ \A t \in Tasks \ {s} : pc'[t] = pc[t]
  BY SocketMoves DEF Tasks
<1>3. user'[s] \in Users /\ \A d \in Sockets : user[d] \in Users
  BY SocketTypeOK
<1>4. ASSUME NEW d \in Sockets \ {s}
      PROVE  /\ pc'[d] # "away" /\ cached'[d] # "none" /\ ~MemberStale(d)' =>
                    cached'[d] = role'[user'[d]] \/ user'[d] \in PendingMembers'
             /\ pc'[d] \notin {"away", "session"} /\ ~SessionStale(d)' =>
                    active' \/ PendingClose'
  BY <1>1, <1>2, <1>3, SocketFrame, SocketPending
     DEF RoleFresh, ActiveFresh, MemberStale, SessionStale, Tasks
<1>5. /\ pc'[s] # "away" /\ cached'[s] # "none" /\ ~MemberStale(s)' =>
             cached'[s] = role'[user'[s]] \/ user'[s] \in PendingMembers'
      /\ pc'[s] \notin {"away", "session"} /\ ~SessionStale(s)' =>
             active' \/ PendingClose'
  <2>1. CASE Connect(s)
    BY <1>1, <1>2, <2>1, GotoMoves DEF Connect
  <2>2. CASE ReadSession(s) /\ ~Gone(s)
    BY <1>1, <1>2, <1>3, <2>2, SocketPending, GotoMoves
       DEF ReadSession, RoleFresh, MemberStale
  <2>3. CASE ReadMember(s) /\ ~Gone(s)
    <3>1. pc[s] = "member" /\ UNCHANGED <<user, stamp>>
      BY <2>3 DEF ReadMember
    <3>2. cached'[s] = IF cached[s] = "none" THEN role[user[s]] ELSE cached[s]
      BY <2>3 DEF ReadMember
    <3>3. ~SessionStale(s)' => active' \/ PendingClose'
      BY <1>1, <3>1, SocketPending DEF ActiveFresh, SessionStale
    <3>4. ASSUME cached[s] # "none", ~MemberStale(s)'
          PROVE  cached'[s] = role'[user'[s]] \/ user'[s] \in PendingMembers'
      BY <1>1, <3>1, <3>2, <3>4, SocketPending DEF RoleFresh, MemberStale
    <3>5. cached[s] = "none" => cached'[s] = role'[user'[s]]
      BY <1>1, <3>1, <3>2
    <3> QED
      BY <3>3, <3>4, <3>5
  <2>4. CASE /\ UNCHANGED <<user, cached, stamp>>
             /\ pc[s] \notin {"away", "session"}
    BY <1>1, <1>2, <1>3, <2>4, SocketPending
       DEF RoleFresh, ActiveFresh, MemberStale, SessionStale
  <2>5. CASE ~Gone(s) /\ ~Connect(s) /\ ~ReadSession(s) /\ ~ReadMember(s)
    <3>1. UNCHANGED <<user, cached, stamp>> /\ pc[s] \notin {"away", "session"}
      BY <2>5
         DEF SocketStep, Accept, Join, Receive, DropFrame, AnswerSync, ApplyFrame, Hear,
             Disconnect, LeaveRoom, LocksAgree, InRoom
    <3> QED
      BY <2>4, <3>1
  <2>6. CASE Gone(s)
    BY <1>2, <2>6, GotoMoves DEF Gone
  <2> QED
    BY <2>1, <2>2, <2>3, <2>5, <2>6
<1> QED
  BY <1>4, <1>5 DEF RoleFresh, ActiveFresh

LEMMA SocketIInv ==
    ASSUME IInv, NEW s \in Sockets, SocketStep(s)
    PROVE  IInv'
<1>1. TypeOK' /\ LocksAgree'
  BY SocketTypeOK, SocketLocks DEF IInv
<1>2. \A t \in Admins \cup Savers : pc'[t] = pc[t]
  BY SocketMoves, AuthorizationAssumption DEF IInv, Tasks
<1>3. KindAgrees'
  BY <1>2, SocketFrame DEF IInv, KindAgrees, AdminHolds
<1>4. SaverAllowed'
  BY <1>2, SocketFrame DEF IInv, SaverAllowed, dbVars
<1> QED
  BY <1>1, <1>3, <1>4, SocketStamps, SocketFence, SocketFresh DEF IInv

-----------------------------------------------------------------------------
(* What a request of the owner leaves alone.                               *)
LEMMA AdminFrame ==
    ASSUME TypeOK, NEW a \in Admins, AdminStep(a)
    PROVE  /\ UNCHANGED <<room, user, cached, stamp, doc, seen>>
           /\ \A b \in Admins \ {a} : act'[b] = act[b]
           /\ Fence(a) \/ UNCHANGED <<memberInv, sessionInv, revoked>>
           /\ pc[a] # "idle" => UNCHANGED act
<1> USE DEF TypeOK, fenceVars, connVars, At
<1>1. UNCHANGED <<room, user, cached, stamp, doc, seen>>
  BY DEF AdminStep, OwnerRequest, AddMember, LockSession, NoSuchMember, CommitRole,
         CommitRemoval, CommitClose, CommitFail, Refresh, RefreshFail, Fence, Respond
<1>2. (\A b \in Admins \ {a} : act'[b] = act[b]) /\ (pc[a] # "idle" => UNCHANGED act)
  BY DEF AdminStep, OwnerRequest, AddMember, LockSession, NoSuchMember, CommitRole,
         CommitRemoval, CommitClose, CommitFail, Refresh, RefreshFail, Fence, Respond
<1>3. Fence(a) \/ UNCHANGED <<memberInv, sessionInv, revoked>>
  BY DEF AdminStep, OwnerRequest, AddMember, LockSession, NoSuchMember, CommitRole,
         CommitRemoval, CommitClose, CommitFail, Refresh, RefreshFail, Respond
<1> QED
  BY <1>1, <1>2, <1>3

LEMMA AdminKinds ==
    ASSUME IInv, NEW a \in Admins, AdminStep(a)
    PROVE  KindAgrees'
<1> USE DEF IInv, TypeOK, At, AdminHolds
<1>0. a \in Tasks /\ Admins \subseteq Tasks
  BY DEF Tasks
<1>1. ASSUME NEW b \in Admins \ {a}
      PROVE  (AdminHolds(b)' \/ pc'[b] = "lock") => act'[b].kind # "add"
  BY <1>0, <1>1, AdminMoves, AdminFrame DEF KindAgrees
<1>2. (AdminHolds(a)' \/ pc'[a] = "lock") => act'[a].kind # "add"
  <2>1. CASE OwnerRequest(a)
    <3> PICK u \in Users, k \in ActKinds, r \in Roles :
            /\ act' = [act EXCEPT ![a] = [kind |-> k, who |-> u, to |-> r, saw |-> role[u]]]
            /\ Goto(a, IF k = "add" THEN "add" ELSE "lock")
      BY <2>1 DEF OwnerRequest
    <3> QED
      BY <1>0, GotoMoves
  <2>2. CASE AddMember(a) \/ NoSuchMember(a) \/ CommitFail(a) \/ RefreshFail(a) \/ Respond(a)
    BY <1>0, <2>2, GotoMoves DEF AddMember, NoSuchMember, CommitFail, RefreshFail, Respond
  <2>3. CASE /\ LockSession(a) \/ CommitRole(a) \/ CommitRemoval(a) \/ CommitClose(a)
                \/ Refresh(a) \/ Fence(a)
    <3>1. UNCHANGED act /\ (pc[a] = "lock" \/ AdminHolds(a))
      BY <2>3 DEF LockSession, CommitRole, CommitRemoval, CommitClose, Refresh, Fence
    <3> QED
      BY <3>1 DEF KindAgrees
  <2> QED
    BY <2>1, <2>2, <2>3 DEF AdminStep
<1> QED
  BY <1>1, <1>2 DEF KindAgrees

LEMMA AdminStamps ==
    ASSUME IInv, NEW a \in Admins, AdminStep(a)
    PROVE  StampsBehind'
<1> USE DEF IInv, TypeOK, StampsBehind
<1>1. CASE Fence(a) /\ FenceMember(a)
  <2>1. /\ \A u \in Users : memberInv'[u] = memberInv[u] \/
             (memberInv'[u].version = memberInv[u].version + 1 /\ memberInv'[u].reason # "none")
        /\ UNCHANGED <<sessionInv, stamp, user>>
    BY <1>1, AdminFrame DEF FenceMember
  <2> QED
    BY <2>1
<1>2. CASE Fence(a) /\ FenceSession(a)
  BY <1>2, AdminFrame DEF FenceSession
<1>3. CASE ~Fence(a)
  BY <1>3, AdminFrame
<1> QED
  BY <1>1, <1>2, <1>3 DEF Fence

LEMMA AdminFence ==
    ASSUME IInv, NEW a \in Admins, AdminStep(a)
    PROVE  FenceComplete'
<1> USE DEF IInv, TypeOK, FenceComplete, SessionStale, MemberStale
<1>0. UNCHANGED <<room, stamp, user>> /\ room \subseteq Sockets
  BY AdminFrame
<1>1. CASE Fence(a) /\ FenceMember(a)
  <2>1. ASSUME NEW s \in room, revoked'[s] = "none"
        PROVE  revoked[s] = "none" /\ memberInv'[user[s]] = memberInv[user[s]]
    BY <1>0, <1>1, <2>1 DEF FenceMember
  <2> QED
    BY <1>0, <1>1, <2>1 DEF FenceMember
<1>2. CASE Fence(a) /\ FenceSession(a)
  BY <1>0, <1>2 DEF FenceSession
<1>3. CASE ~Fence(a)
  BY <1>0, <1>3, AdminFrame
<1> QED
  BY <1>1, <1>2, <1>3 DEF Fence

(* Only the fence ends the time between a commit and its fence.            *)
LEMMA AdminPending ==
    ASSUME RefreshReliable, IInv, NEW a \in Admins, AdminStep(a)
    PROVE  /\ ~Fence(a) => /\ PendingMembers \subseteq PendingMembers'
                           /\ PendingClose => PendingClose'
           /\ CommitRole(a) \/ CommitRemoval(a) => act[a].who \in PendingMembers'
           /\ CommitClose(a) => PendingClose'
           /\ FenceMember(a) => /\ PendingMembers \ {act[a].who} \subseteq PendingMembers'
                                /\ PendingClose => PendingClose'
           /\ FenceSession(a) => PendingMembers \subseteq PendingMembers'
<1> USE DEF IInv, At
<1>0. a \in Tasks /\ Admins \subseteq Tasks
  BY DEF Tasks
<1>1. \A b \in Admins \ {a} : pc'[b] = pc[b] /\ act'[b] = act[b]
  BY <1>0, AdminMoves, AdminFrame
<1>2. ASSUME ~Fence(a), pc[a] \in {"refresh", "fence"}
      PROVE  pc'[a] = "fence" /\ act' = act
  <2>1. Refresh(a)
    BY <1>2
       DEF RefreshReliable, AdminStep, OwnerRequest, AddMember, LockSession, NoSuchMember,
           CommitRole, CommitRemoval, CommitClose, CommitFail, RefreshFail, Respond
  <2> QED
    BY <1>0, <2>1, GotoMoves DEF Refresh
<1>3. ~Fence(a) => /\ PendingMembers \subseteq PendingMembers'
                   /\ PendingClose => PendingClose'
  BY <1>1, <1>2 DEF PendingMembers, PendingClose
<1>4. ASSUME CommitRole(a) \/ CommitRemoval(a)
      PROVE  act[a].who \in PendingMembers'
  <2>1. /\ pc'[a] \in {"refresh", "fence"}
        /\ act' = act /\ act[a].kind \in {"role", "remove"}
    BY <1>0, <1>4, GotoMoves DEF CommitRole, CommitRemoval
  <2> QED
    BY <2>1 DEF PendingMembers
<1>5. CommitClose(a) => PendingClose'
  <2>1. CommitClose(a) => pc'[a] = "refresh" /\ act' = act /\ act[a].kind = "close"
    BY <1>0, GotoMoves DEF CommitClose
  <2> QED
    BY <2>1 DEF PendingClose
<1>6. FenceMember(a) => /\ PendingMembers \ {act[a].who} \subseteq PendingMembers'
                        /\ PendingClose => PendingClose'
  BY <1>1 DEF PendingMembers, PendingClose, FenceMember
<1>7. FenceSession(a) => PendingMembers \subseteq PendingMembers'
  BY <1>1 DEF PendingMembers, FenceSession
<1> QED
  BY <1>3, <1>4, <1>5, <1>6, <1>7

(* A role that changes is one being committed, or that of a newcomer.      *)
LEMMA AdminRole ==
    ASSUME TypeOK, NEW a \in Admins, AdminStep(a), NEW u \in Users, role'[u] # role[u]
    PROVE  role[u] = "none" \/ ((CommitRole(a) \/ CommitRemoval(a)) /\ u = act[a].who)
BY DEF TypeOK, dbVars, AdminStep, OwnerRequest, AddMember, LockSession, NoSuchMember,
       CommitRole, CommitRemoval, CommitClose, CommitFail, Refresh, RefreshFail, Fence,
       Respond

LEMMA AdminActive ==
    ASSUME TypeOK, NEW a \in Admins, AdminStep(a)
    PROVE  CommitClose(a) \/ (active' <=> active)
BY DEF dbVars, AdminStep, OwnerRequest, AddMember, LockSession, NoSuchMember, CommitRole,
       CommitRemoval, CommitFail, Refresh, RefreshFail, Fence, Respond

LEMMA AdminFresh ==
    ASSUME RefreshReliable, IInv, NEW a \in Admins, AdminStep(a)
    PROVE  RoleFresh' /\ ActiveFresh'
<1> USE DEF IInv
<1>0. UNCHANGED <<user, cached, stamp>> /\ \A s \in Sockets : pc'[s] = pc[s]
  BY AdminFrame, AdminMoves, AuthorizationAssumption DEF Tasks
<1>1. ASSUME NEW s \in Sockets, pc[s] # "away", cached[s] # "none", ~MemberStale(s)'
      PROVE  cached[s] = role'[user[s]] \/ user[s] \in PendingMembers'
  <2>0. user[s] \in Users
    BY DEF TypeOK
  <2>1. ~MemberStale(s) /\ (Fence(a) /\ FenceMember(a) => user[s] # act[a].who)
    <3>1. CASE Fence(a) /\ FenceMember(a)
      BY <1>0, <1>1, <2>0, <3>1 DEF FenceMember, MemberStale, StampsBehind, TypeOK
    <3>2. CASE ~(Fence(a) /\ FenceMember(a))
      <4>1. UNCHANGED memberInv
        BY <3>2, AdminFrame DEF Fence, FenceSession
      <4> QED
        BY <1>0, <1>1, <3>2, <4>1 DEF MemberStale
    <3> QED
      BY <3>1, <3>2
  <2>2. cached[s] = role[user[s]] \/ user[s] \in PendingMembers
    BY <1>1, <2>1 DEF RoleFresh
  <2>3. CASE user[s] \in PendingMembers
    BY <2>1, <2>3, AdminPending DEF Fence
  <2>4. CASE cached[s] = role[user[s]]
    <3>1. CASE role'[user[s]] = role[user[s]]
      BY <2>4, <3>1
    <3>2. CASE role'[user[s]] # role[user[s]]
      BY <1>1, <2>0, <2>4, <3>2, AdminRole, AdminPending
    <3> QED
      BY <3>1, <3>2
  <2> QED
    BY <2>2, <2>3, <2>4
<1>2. ASSUME NEW s \in Sockets, pc[s] \notin {"away", "session"}, ~SessionStale(s)'
      PROVE  active' \/ PendingClose'
  <2>1. ~SessionStale(s) /\ ~(Fence(a) /\ FenceSession(a))
    <3>1. ~(Fence(a) /\ FenceSession(a))
      BY <1>0, <1>2 DEF FenceSession, SessionStale, StampsBehind, TypeOK
    <3>2. UNCHANGED sessionInv
      BY <3>1, AdminFrame DEF Fence, FenceMember
    <3> QED
      BY <1>0, <1>2, <3>1, <3>2 DEF SessionStale
  <2>2. active \/ PendingClose
    BY <1>2, <2>1 DEF ActiveFresh
  <2> QED
    BY <2>1, <2>2, AdminActive, AdminPending DEF Fence
<1> QED
  BY <1>0, <1>1, <1>2 DEF RoleFresh, ActiveFresh

LEMMA AdminIInv ==
    ASSUME RefreshReliable, IInv, NEW a \in Admins, AdminStep(a)
    PROVE  IInv'
<1>1. TypeOK' /\ LocksAgree'
  BY AdminTypeOK, AdminLocks DEF IInv
<1>2. SaverAllowed'
  <2> SUFFICES ASSUME NEW h \in Savers, pc'[h] = "apply"
               PROVE  active' /\ role'[user'[h]] = "editor"
    BY DEF SaverAllowed
  <2>1. pc[h] = "apply" /\ user'[h] = user[h]
    BY AdminMoves, AdminFrame, AuthorizationAssumption DEF IInv, Tasks
  <2>2. active /\ role[user[h]] = "editor" /\ user[h] \in Users
    BY <2>1 DEF IInv, SaverAllowed, TypeOK
  <2>3. roomLock = h /\ roomLock # a
    BY <2>1, AuthorizationAssumption DEF IInv, LocksAgree, SaverHolds
  <2>4. ~CommitRole(a) /\ ~CommitRemoval(a) /\ ~CommitClose(a)
    BY <2>3 DEF IInv, LocksAgree, AdminHolds, CommitRole, CommitRemoval, CommitClose, At
  <2>5. active'
    BY <2>2, <2>4, AdminActive DEF IInv
  <2>6. role'[user[h]] = role[user[h]]
    BY <2>2, <2>4, AdminRole DEF IInv
  <2> QED
    BY <2>1, <2>2, <2>5, <2>6
<1> QED
  BY <1>1, <1>2, AdminKinds, AdminStamps, AdminFence, AdminFresh DEF IInv

-----------------------------------------------------------------------------
LEMMA SaverIInv ==
    ASSUME IInv, NEW h \in Savers, SaverStep(h)
    PROVE  IInv'
<1> USE DEF At
<1>0. h \in Tasks /\ Savers \subseteq Tasks
  BY DEF Tasks
<1>1. TypeOK' /\ LocksAgree'
  BY SaverTypeOK, SaverLocks DEF IInv
<1>2. /\ UNCHANGED <<dbVars, fenceVars, room, cached, stamp, revoked, act>>
      /\ \A x \in (Sockets \cup Savers) \ {h} : user'[x] = user[x]
  BY DEF SaverStep, HttpRequest, LockDocument, RequireCurrentEditor, ApplyHttp, connVars,
         IInv, TypeOK
<1>3. /\ \A s \in Sockets : user'[s] = user[s] /\ pc'[s] = pc[s]
      /\ \A a \in Admins : pc'[a] = pc[a]
  BY <1>2, SaverMoves, AuthorizationAssumption DEF IInv, Tasks
<1>4. StampsBehind'
  BY <1>2, <1>3 DEF IInv, StampsBehind, fenceVars
<1>5. FenceComplete'
  BY <1>1, <1>2, <1>3 DEF IInv, FenceComplete, SessionStale, MemberStale, fenceVars, TypeOK
<1>6. KindAgrees'
  BY <1>2, <1>3 DEF IInv, KindAgrees, AdminHolds
<1>7. PendingMembers' = PendingMembers /\ (PendingClose' <=> PendingClose)
  BY <1>2, <1>3 DEF PendingMembers, PendingClose
<1>8. RoleFresh' /\ ActiveFresh'
  BY <1>2, <1>3, <1>7
     DEF IInv, RoleFresh, ActiveFresh, SessionStale, MemberStale, fenceVars, dbVars
<1>9. SaverAllowed'
  <2>1. ASSUME NEW g \in Savers \ {h}, pc'[g] = "apply"
        PROVE  active' /\ role'[user'[g]] = "editor"
    BY <1>0, <1>2, <2>1, SaverMoves DEF IInv, SaverAllowed, dbVars
  <2>2. pc'[h] = "apply" => active' /\ role'[user'[h]] = "editor"
    BY <1>0, <1>2, GotoMoves
       DEF SaverStep, HttpRequest, LockDocument, RequireCurrentEditor, ApplyHttp, IInv,
           dbVars, connVars
  <2> QED
    BY <2>1, <2>2 DEF SaverAllowed
<1> QED
  BY <1>1, <1>4, <1>5, <1>6, <1>8, <1>9 DEF IInv

LEMMA NextIInv == RefreshReliable /\ IInv /\ [Next]_vars => IInv'
<1> SUFFICES ASSUME RefreshReliable, IInv, [Next]_vars PROVE IInv'
  OBVIOUS
<1>1. CASE UNCHANGED vars
  <2> USE <1>1 DEF IInv, vars, dbVars, fenceVars, connVars
  <2>1. TypeOK' /\ LocksAgree'
    BY DEF TypeOK, LocksAgree, AdminHolds, SaverHolds, InRoom
  <2>2. StampsBehind' /\ FenceComplete' /\ KindAgrees' /\ SaverAllowed'
    BY DEF StampsBehind, FenceComplete, SessionStale, MemberStale, KindAgrees, AdminHolds,
           SaverAllowed
  <2>3. RoleFresh' /\ ActiveFresh'
    BY DEF RoleFresh, ActiveFresh, PendingMembers, PendingClose, SessionStale, MemberStale
  <2> QED
    BY <2>1, <2>2, <2>3
<1> QED
  BY <1>1, SocketIInv, AdminIInv, SaverIInv, RestartIInv DEF Next

(* The invariant holds if db.refresh, the one step of the services between *)
(* a commit and its fence that can fail, does not.                         *)
THEOREM Invariance == RefreshReliable => (Spec => []IInv)
<1>1. CASE RefreshReliable
  BY <1>1, InitIInv, NextIInv, PTL DEF Spec
<1> QED
  BY <1>1

-----------------------------------------------------------------------------
(* A free lock means that no request is between its commit and its fence.  *)
LEMMA FreeMeansSettled ==
    ASSUME IInv, roomLock = Nobody
    PROVE  PendingMembers = {} /\ ~PendingClose
<1>1. \A a \in Admins : ~AdminHolds(a)
  BY AuthorizationAssumption DEF IInv, LocksAgree, Tasks
<1> QED
  BY <1>1 DEF AdminHolds, PendingMembers, PendingClose

LEMMA PendingAgrees ==
    ASSUME IInv, NEW u \in Users, u \in PendingMembers \/ PendingClose
    PROVE  Pending(u)
BY DEF PendingMembers, PendingClose, Pending

LEMMA WritesAllowed ==
    ASSUME IInv, Next, NEW u \in Users, doc'[u] # doc[u]
    PROVE  active /\ role[u] = "editor"
<1> USE DEF At
<1>1. CASE \E s \in Sockets : SocketStep(s)
  <2> PICK s \in Sockets : SocketStep(s)
    BY <1>1
  <2>1. ApplyFrame(s)
    BY DEF SocketStep, Connect, ReadSession, ReadMember, Accept, Join, Receive, DropFrame,
           AnswerSync, Hear, Disconnect, LeaveRoom
  <2>2. /\ AuthorizationFailure(s) = "none" /\ cached[s] = "editor" /\ u = user[s]
        /\ roomLock = Nobody /\ pc[s] = "update"
    BY <2>1 DEF ApplyFrame, LockFree, IInv, TypeOK
  <2>3. ~SessionStale(s) /\ ~MemberStale(s)
    BY <2>2, NoFailure DEF IInv
  <2> QED
    BY <2>2, <2>3, FreeMeansSettled DEF IInv, RoleFresh, ActiveFresh
<1>2. CASE \E h \in Savers : SaverStep(h)
  <2> PICK h \in Savers : SaverStep(h)
    BY <1>2
  <2>1. ApplyHttp(h)
    BY DEF SaverStep, HttpRequest, LockDocument, RequireCurrentEditor
  <2>2. u = user[h] /\ pc[h] = "apply"
    BY <2>1 DEF ApplyHttp, IInv, TypeOK
  <2> QED
    BY <2>2 DEF IInv, SaverAllowed
<1>3. CASE \E a \in Admins : AdminStep(a)
  BY <1>3, AdminFrame DEF IInv
<1> QED
  BY <1>1, <1>2, <1>3 DEF Next, Restart

(* Nobody but a current editor of an open session changes the document     *)
(* (websocket._handle_binary_message, sessions.router                      *)
(* ._require_current_editor), for any number of members, connections and   *)
(* concurrent requests, if no failure comes between a commit and its fence.*)
THEOREM OnlyCurrentEditorsWrite == RefreshReliable => (Spec => OnlyEditorsWrite)
<1>1. IInv /\ [Next]_vars =>
        [\A u \in Users : doc'[u] # doc[u] => active /\ role[u] = "editor"]_vars
  BY WritesAllowed
<1>2. CASE RefreshReliable
  BY <1>1, <1>2, Invariance, PTL DEF Spec, OnlyEditorsWrite
<1> QED
  BY <1>2

(* What a joined connection that is not revoked may count on.              *)
LEMMA JoinedAreMembers ==
    ASSUME IInv, NEW s \in room, ~SessionStale(s), ~MemberStale(s)
    PROVE  (active /\ cached[s] = role[user[s]]) \/ Pending(user[s])
<1>1. s \in Sockets /\ user[s] \in Users /\ InRoom(s)
  BY DEF IInv, TypeOK, LocksAgree
<1>2. cached[s] # "none"
  BY <1>1 DEF IInv, TypeOK, InRoom, SocketPcs
<1>3. active \/ PendingClose
  BY <1>1 DEF IInv, ActiveFresh, InRoom
<1>4. cached[s] = role[user[s]] \/ user[s] \in PendingMembers
  BY <1>1, <1>2 DEF IInv, RoleFresh, InRoom
<1> QED
  BY <1>1, <1>3, <1>4, PendingAgrees

LEMMA ReadsAllowed ==
    ASSUME IInv, Next, NEW s \in Sockets, seen'[s] # seen[s]
    PROVE  (active /\ role[user[s]] # "none") \/ Pending(user[s])
<1> USE DEF At
<1>1. PICK d \in Sockets : AnswerSync(d) \/ Hear(d)
  <2>1. CASE \E a \in Admins : AdminStep(a)
    BY <2>1, AdminFrame DEF IInv
  <2>2. CASE \E h \in Savers : SaverStep(h)
    BY <2>2 DEF SaverStep, HttpRequest, LockDocument, RequireCurrentEditor, ApplyHttp
  <2>3. CASE \E d \in Sockets : SocketStep(d)
    BY <2>3 DEF SocketStep, Connect, ReadSession, ReadMember, Accept, Join, Receive,
                DropFrame, ApplyFrame, Disconnect, LeaveRoom
  <2> QED
    BY <2>1, <2>2, <2>3 DEF Next, Restart
<1>2. d = s
  BY <1>1 DEF AnswerSync, Hear, IInv, TypeOK
<1>3. s \in room /\ revoked[s] = "none"
  BY <1>1, <1>2 DEF AnswerSync, Hear, IInv, LocksAgree, InRoom
<1>4. cached[s] # "none"
  BY <1>3 DEF IInv, LocksAgree, InRoom, TypeOK, SocketPcs
<1> QED
  BY <1>3, <1>4, JoinedAreMembers DEF IInv, FenceComplete

(* Document content goes to current members of an open session only, but   *)
(* for the moment between a commit and its fence                           *)
(* (websocket._broadcast_binary, _handle_binary_message).                  *)
THEOREM OnlyCurrentMembersRead == RefreshReliable => (Spec => OnlyMembersRead)
<1>1. IInv /\ [Next]_vars =>
        [\A s \in Sockets : seen'[s] # seen[s] =>
            \/ active /\ role[user[s]] # "none"
            \/ Pending(user[s])]_vars
  BY ReadsAllowed
<1>2. CASE RefreshReliable
  BY <1>1, <1>2, Invariance, PTL DEF Spec, OnlyMembersRead
<1> QED
  BY <1>2

(* A joined connection whose stamp is current works with the role in the   *)
(* database (websocket._authenticate_ws).                                  *)
THEOREM CachedRolesAreCurrent == RefreshReliable => (Spec => []CachedRoleIsCurrent)
<1>1. IInv => CachedRoleIsCurrent
  BY JoinedAreMembers DEF CachedRoleIsCurrent
<1>2. CASE RefreshReliable
  BY <1>1, <1>2, Invariance, PTL
<1> QED
  BY <1>2
=============================================================================
