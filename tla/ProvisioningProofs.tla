------------------------- MODULE ProvisioningProofs -------------------------
(***************************************************************************)
(* Proofs about Provisioning, for every set of tasks, principals, roles    *)
(* and resources, any number of workers, and any administrator.            *)
(***************************************************************************)
EXTENDS Provisioning, TLAPS, FiniteSetTheorems

(***************************************************************************)
(* The operators.                                                          *)
(***************************************************************************)

\* A permission entitlement that Dispatch lets through stands for an access.
LEMMA AccessType ==
  ASSUME NEW r \in Request, r.entitlement.kind \in PermissionKind, ~Rejected(r)
  PROVE  AccessOf(r.entitlement) \in Access
<1> DEFINE e == r.entitlement
<1>1. WellFormed(r)
  BY ProvisioningAssumption
<1>2. /\ e.kind = "role" => e.id \in Role /\ e.parent \in Resource
      /\ e.kind \in ResourceKind => e.id \in Resource /\ e.desc \in Role
  BY <1>1 DEF WellFormed, Rejected
<1>3. SegmentType[e.kind] \in {"SOURCE", "WAREHOUSE", "SPACE", "FUNCTION", "WORKSPACE"}
  BY DEF SegmentType, PermissionKind, ResourceKind
<1>4. e.kind # "role" => e.kind \in ResourceKind
  BY DEF PermissionKind
<1>5. RoleOf(e) \in Role /\ (IF e.kind = "role" THEN e.parent ELSE e.id) \in Resource
  BY <1>2, <1>4 DEF RoleOf
<1> QED BY <1>3, <1>5 DEF AccessOf, Access

\* Both list operations yield permissions.
LEMMA NewAccessType ==
  ASSUME NEW r, AccessOf(r.entitlement) \in Access, NEW held \in SUBSET Access
  PROVE  NewAccess(r, held) \in SUBSET Access
BY DEF NewAccess, Granted, Revoked

\* A request the provisioner accepted: its principal and its entitlement go together.
Accepted(r) ==
  \/ /\ r.entitlement.kind \in PermissionKind
     /\ r.principal \in Principal
     /\ AccessOf(r.entitlement) \in Access
  \/ /\ r.entitlement.kind = "group"
     /\ r.entitlement.id \in Group
     /\ r.principal \in User

\* Dispatch sends on accepted requests only.
LEMMA DispatchAccepts ==
  ASSUME NEW r \in Request, ~Rejected(r)
  PROVE  Accepted(r)
<1>1. WellFormed(r)
  BY ProvisioningAssumption
<1>2. r.entitlement.kind = "group" => r.entitlement.id \in Group
  BY <1>1 DEF WellFormed
<1> QED BY <1>2, AccessType DEF Accepted, Rejected

(***************************************************************************)
(* The type invariant needs StagesAgree: only an accepted request yields a *)
(* well-typed list of permissions.                                         *)
(***************************************************************************)
\* The parts of a task's state agree: nothing is computed or sent for a request
\* that was turned down, nothing is on the wire before it is sent, and a task has
\* an outcome exactly when its goroutine returned.
StageAgrees(t) ==
  /\ pc[t] = "waiting" <=> req[t] = None
  /\ pc[t] \in {"get", "send", "sent"} \/ net[t] # "none" => Accepted(req[t])
  /\ pc[t] = "get" => OnPermissions(t)
  /\ net[t] # "none" => pc[t] \in {"sent", "done", "lost"}
  /\ outcome[t] # "none" <=> pc[t] = "done"

StagesAgree == \A t \in Task : StageAgrees(t)

TypeInv == TypeOK /\ StagesAgree

\* The initial states are well typed.
LEMMA InitTypeInv == Init => TypeInv
<1> SUFFICES ASSUME Init PROVE TypeInv
  OBVIOUS
<1>1. TypeOK
  BY ProvisioningAssumption DEF Init, TypeOK, NetState
<1>2. StagesAgree
  BY ProvisioningAssumption DEF Init, StagesAgree, StageAgrees
<1> QED BY <1>1, <1>2 DEF TypeInv

\* An accepted request on permissions is about a principal, and yields accesses.
LEMMA AcceptedAccess ==
  ASSUME NEW t \in Task, OnPermissions(t), Accepted(req[t])
  PROVE  /\ req[t].principal \in Principal
         /\ AccessOf(req[t].entitlement) \in Access
BY DEF Accepted, OnPermissions, PermissionKind, ResourceKind

\* An accepted request on a group is about one of its possible members.
LEMMA AcceptedMember ==
  ASSUME NEW t \in Task, OnGroup(t), Accepted(req[t])
  PROVE  /\ req[t].principal \in User
         /\ req[t].entitlement.id \in Group
BY DEF Accepted, OnGroup, PermissionKind, ResourceKind

\* Every step keeps the types, one case per action.
LEMMA TypeStep ==
  ASSUME TypeInv, [Next]_vars
  PROVE  TypeOK'
<1> USE DEF TypeInv, TypeOK, NetState
<1>1. ASSUME NEW t \in Task, Start(t) PROVE TypeOK'
  BY <1>1, ProvisioningAssumption DEF Start
<1>2. ASSUME NEW t \in Task, Dispatch(t) PROVE TypeOK'
  BY <1>2 DEF Dispatch, Finish, Proceed
<1>3. ASSUME NEW t \in Task, Get(t) PROVE TypeOK'
  <2>1. NewAccess(req[t], access[req[t].principal]) \in SUBSET Access
    BY <1>3, AcceptedAccess, NewAccessType DEF Get, StagesAgree, StageAgrees
  <2> QED BY <1>3, <2>1 DEF Get, Proceed
<1>4. ASSUME NEW t \in Task, GetBlank(t) PROVE TypeOK'
  <2>1. NewAccess(req[t], {}) \in SUBSET Access
    BY <1>4, AcceptedAccess, NewAccessType DEF GetBlank, StagesAgree, StageAgrees
  <2> QED BY <1>4, <2>1 DEF GetBlank, Proceed
<1>5. ASSUME NEW t \in Task, GetError(t) \/ Reply(t) PROVE TypeOK'
  BY <1>5 DEF GetError, Reply, Reports, Finish
<1>6. ASSUME NEW t \in Task, Send(t) PROVE TypeOK'
  BY <1>6 DEF Send, Proceed
<1>7. ASSUME NEW t \in Task, LoseAnswer(t) PROVE TypeOK'
  BY <1>7 DEF LoseAnswer, Finish, Abandoned
<1>8. ASSUME NEW t \in Task, ServePut(t) PROVE TypeOK'
  BY <1>8 DEF ServePut
<1>9. ASSUME NEW t \in Task, ServeMember(t) PROVE TypeOK'
  <2>1. NewMembers(req[t], members[req[t].entitlement.id]) \in SUBSET User
    BY <1>9, AcceptedMember DEF ServeMember, NewMembers, StagesAgree, StageAgrees
  <2> QED BY <1>9, <2>1 DEF ServeMember
<1>10. ASSUME NEW t \in Task, ServeNothing(t) PROVE TypeOK'
  BY <1>10 DEF ServeNothing
<1>11. ASSUME NEW p \in Principal, AdminChange(p) PROVE TypeOK'
  BY <1>11, ProvisioningAssumption DEF AdminChange
<1>12. CASE Crash
  BY <1>12, ProvisioningAssumption DEF Crash
<1>13. CASE Terminated \/ UNCHANGED vars
  BY <1>13 DEF Terminated, vars
<1> QED
  BY <1>1, <1>2, <1>3, <1>4, <1>5, <1>6, <1>7, <1>8, <1>9, <1>10, <1>11, <1>12, <1>13
  DEF Next, ClientStep, ServerStep

\* Every step keeps the stage of each task in agreement with its request.
LEMMA StagesStep ==
  ASSUME TypeInv, [Next]_vars
  PROVE  StagesAgree'
<1> SUFFICES ASSUME NEW u \in Task PROVE StageAgrees(u)'
  BY DEF StagesAgree
<1>a. StageAgrees(u)
  BY DEF TypeInv, StagesAgree
<1> USE <1>a DEF TypeInv, TypeOK, StageAgrees, OnPermissions, NetState
<1>1. ASSUME NEW t \in Task, Start(t) PROVE StageAgrees(u)'
  BY <1>1, ProvisioningAssumption DEF Start
<1>2. ASSUME NEW t \in Task, Dispatch(t) PROVE StageAgrees(u)'
  BY <1>2, DispatchAccepts DEF Dispatch, Finish, Proceed
<1>3. ASSUME NEW t \in Task, Get(t) \/ GetBlank(t) PROVE StageAgrees(u)'
  BY <1>3 DEF Get, GetBlank, Proceed
<1>4. ASSUME NEW t \in Task, GetError(t) \/ Reply(t) PROVE StageAgrees(u)'
  BY <1>4 DEF GetError, Reply, Reports, Finish
<1>5. ASSUME NEW t \in Task, Send(t) PROVE StageAgrees(u)'
  BY <1>5 DEF Send, Proceed
<1>6. ASSUME NEW t \in Task, LoseAnswer(t) PROVE StageAgrees(u)'
  BY <1>6 DEF LoseAnswer, Finish, Abandoned
<1>7. ASSUME NEW t \in Task, ServerStep(t) PROVE StageAgrees(u)'
  BY <1>7 DEF ServerStep, ServePut, ServeMember, ServeNothing
<1>8. ASSUME NEW p \in Principal, AdminChange(p) PROVE StageAgrees(u)'
  BY <1>8 DEF AdminChange
<1>9. CASE Crash
  BY <1>9 DEF Crash, Active, Abandoned
<1>10. CASE Terminated \/ UNCHANGED vars
  BY <1>10 DEF Terminated, vars
<1> QED
  BY <1>1, <1>2, <1>3, <1>4, <1>5, <1>6, <1>7, <1>8, <1>9, <1>10 DEF Next, ClientStep

\* The types and the stages together are inductive.
LEMMA TypeInvariant == Spec => []TypeInv
<1>1. Init => TypeInv
  BY InitTypeInv
<1>2. TypeInv /\ [Next]_vars => TypeInv'
  BY TypeStep, StagesStep DEF TypeInv
<1> QED BY <1>1, <1>2, PTL DEF Spec

\* Every reachable state is well typed, whatever the server answers and whenever the
\* process dies; it takes StagesAgree, for only accepted requests yield accesses.
THEOREM TypeCorrect == Spec => []TypeOK
<1>1. TypeInv => TypeOK
  BY DEF TypeInv
<1> QED BY <1>1, TypeInvariant, PTL

(***************************************************************************)
(* How a step changes what the properties look at.                         *)
(***************************************************************************)

\* Only a PUT or an administrator changes the permissions of a principal.
LEMMA AccessStep ==
  ASSUME TypeInv, [Next]_vars, NEW p \in Principal
  PROVE  \/ access'[p] = access[p]
         \/ \E t \in Task : /\ ServePut(t)
                            /\ req[t].principal = p
                            /\ access'[p] = payload[t]
         \/ AdminChange(p)
<1> DEFINE Goal == \/ access'[p] = access[p]
                   \/ \E t \in Task : /\ ServePut(t)
                                      /\ req[t].principal = p
                                      /\ access'[p] = payload[t]
                   \/ AdminChange(p)
<1> SUFFICES Goal
  OBVIOUS
<1>1. ASSUME NEW t \in Task, ServePut(t) PROVE Goal
  <2>1. CASE req[t].principal = p
    BY <1>1, <2>1 DEF ServePut, TypeInv, TypeOK
  <2>2. CASE req[t].principal # p
    BY <1>1, <2>2 DEF ServePut, TypeInv, TypeOK
  <2> QED BY <2>1, <2>2
<1>2. ASSUME NEW q \in Principal, AdminChange(q) PROVE Goal
  BY <1>2 DEF AdminChange, TypeInv, TypeOK
<1>3. ASSUME NEW t \in Task,
             Start(t) \/ ClientStep(t) \/ ServeMember(t) \/ ServeNothing(t)
      PROVE  Goal
  BY <1>3 DEF Start, ClientStep, Dispatch, Get, GetBlank, GetError, Send, Reply,
              LoseAnswer, ServeMember, ServeNothing
<1>4. CASE Crash \/ Terminated \/ UNCHANGED vars
  BY <1>4 DEF Crash, Terminated, vars
<1> QED BY <1>1, <1>2, <1>3, <1>4 DEF Next, ServerStep

\* A list stays marked as outdated.
LEMMA StaleGrows ==
  ASSUME [Next]_vars
  PROVE  stale \subseteq stale'
<1>1. ASSUME NEW t \in Task, Start(t) \/ ClientStep(t) \/ ServerStep(t)
      PROVE  stale \subseteq stale'
  BY <1>1 DEF Start, ClientStep, Dispatch, Get, GetBlank, GetError, Send, Reply,
              LoseAnswer, ServerStep, ServePut, ServeMember, ServeNothing
<1>2. ASSUME NEW p \in Principal, AdminChange(p) PROVE stale \subseteq stale'
  BY <1>2 DEF AdminChange
<1>3. CASE Crash \/ Terminated \/ UNCHANGED vars
  BY <1>3 DEF Crash, Terminated, vars
<1> QED BY <1>1, <1>2, <1>3 DEF Next

\* A request is settled once its task has started.
LEMMA RequestStep ==
  ASSUME TypeInv, [Next]_vars, NEW u \in Task, req[u] # None
  PROVE  req'[u] = req[u]
<1>1. ASSUME NEW t \in Task, Start(t) PROVE req'[u] = req[u]
  BY <1>1 DEF Start, TypeInv, TypeOK, StagesAgree, StageAgrees
<1>2. ASSUME NEW t \in Task, ClientStep(t) \/ ServerStep(t) PROVE req'[u] = req[u]
  BY <1>2 DEF ClientStep, Dispatch, Get, GetBlank, GetError, Send, Reply,
              LoseAnswer, ServerStep, ServePut, ServeMember, ServeNothing
<1>3. CASE Crash \/ Terminated \/ UNCHANGED vars \/ \E p \in Principal : AdminChange(p)
  BY <1>3 DEF Crash, Terminated, vars, AdminChange
<1> QED BY <1>1, <1>2, <1>3 DEF Next

\* A list waits to be served only if it waited before or has just been computed.
LEMMA PendingStep ==
  ASSUME TypeInv, [Next]_vars, NEW u \in Task, NEW p \in Principal, Pending(u, p)',
         ~ Get(u), ~ GetBlank(u)
  PROVE  /\ Pending(u, p)
         /\ req'[u] = req[u]
         /\ payload'[u] = payload[u]
         /\ ~ ServePut(u)
<1> DEFINE Goal == /\ Pending(u, p)
                   /\ req'[u] = req[u]
                   /\ payload'[u] = payload[u]
                   /\ ~ ServePut(u)
<1> SUFFICES Goal
  OBVIOUS
<1>a. StageAgrees(u) /\ StageAgrees(u)'
  BY StagesStep DEF TypeInv, StagesAgree
<1>b. TypeOK'
  BY TypeStep
<1> USE <1>a, <1>b DEF TypeInv, TypeOK, StageAgrees, Pending, OnPermissions
<1>0. ~ ServePut(u)
  BY DEF ServePut
<1>1. ASSUME NEW t \in Task, Start(t) PROVE Goal
  BY <1>0, <1>1, ProvisioningAssumption DEF Start
<1>2. ASSUME NEW t \in Task, Dispatch(t) PROVE Goal
  BY <1>0, <1>2, ProvisioningAssumption DEF Dispatch, Proceed, Finish
<1>3. ASSUME NEW t \in Task, t # u, Get(t) \/ GetBlank(t) PROVE Goal
  BY <1>0, <1>3 DEF Get, GetBlank, Proceed
<1>4. ASSUME NEW t \in Task, GetError(t) \/ Send(t) \/ Reply(t) PROVE Goal
  BY <1>0, <1>4 DEF GetError, Send, Reply, Finish, Proceed
<1>5. ASSUME NEW t \in Task, LoseAnswer(t) PROVE Goal
  BY <1>0, <1>5 DEF LoseAnswer, Finish, Abandoned
<1>6. ASSUME NEW t \in Task, ServerStep(t) PROVE Goal
  BY <1>0, <1>6 DEF ServerStep, ServePut, ServeMember, ServeNothing
<1>7. CASE Crash
  BY <1>0, <1>7 DEF Crash, Abandoned, Active
<1>8. CASE Terminated \/ UNCHANGED vars \/ \E q \in Principal : AdminChange(q)
  BY <1>0, <1>8 DEF Terminated, vars, AdminChange
<1> QED BY <1>1, <1>2, <1>3, <1>4, <1>5, <1>6, <1>7, <1>8 DEF Next, ClientStep

\* A request is applied once, by the server.
LEMMA AppliedStep ==
  ASSUME TypeInv, [Next]_vars, NEW u \in Task
  PROVE  /\ net[u] = "applied" => net'[u] = "applied"
         /\ net'[u] = "applied" => net[u] = "applied" \/ ServePut(u) \/ ServeMember(u)
<1> DEFINE Goal == /\ net[u] = "applied" => net'[u] = "applied"
                   /\ net'[u] = "applied" => net[u] = "applied" \/ ServePut(u) \/ ServeMember(u)
<1> SUFFICES Goal
  OBVIOUS
<1>a. StageAgrees(u)
  BY DEF TypeInv, StagesAgree
<1> USE <1>a DEF TypeInv, TypeOK, StageAgrees
<1>1. ASSUME NEW t \in Task, Start(t) \/ Send(t) \/ LoseAnswer(t) PROVE Goal
  BY <1>1 DEF Start, Send, LoseAnswer, Proceed, Finish, Abandoned
<1>2. ASSUME NEW t \in Task, Dispatch(t) \/ Get(t) \/ GetBlank(t) \/ GetError(t) \/ Reply(t)
      PROVE  Goal
  BY <1>2 DEF Dispatch, Get, GetBlank, GetError, Reply
<1>3. ASSUME NEW t \in Task, ServerStep(t) PROVE Goal
  BY <1>3 DEF ServerStep, ServePut, ServeMember, ServeNothing
<1>4. CASE Crash
  BY <1>4 DEF Crash, Abandoned
<1>5. CASE Terminated \/ UNCHANGED vars \/ \E q \in Principal : AdminChange(q)
  BY <1>5 DEF Terminated, vars, AdminChange
<1> QED BY <1>1, <1>2, <1>3, <1>4, <1>5 DEF Next, ClientStep
(***************************************************************************)
(* Computed lists are what they should be until another write passes them. *)
(***************************************************************************)
LEMMA FreshStep ==
  ASSUME TypeInv, FreshPayload, [Next]_vars
  PROVE  FreshPayload'
<1> SUFFICES ASSUME NEW u \in Task, u \notin stale', NEW p \in Principal, Pending(u, p)'
             PROVE  payload'[u] = NewAccess(req'[u], access'[p])
  BY DEF FreshPayload
<1>1. CASE Get(u)
  <2>1. req' = req /\ access' = access
        /\ payload'[u] = NewAccess(req[u], access[req[u].principal])
    BY <1>1 DEF Get, TypeInv, TypeOK
  <2>2. req'[u].principal = p
    BY DEF Pending
  <2> QED BY <2>1, <2>2
<1>2. CASE GetBlank(u)
  BY <1>2 DEF GetBlank
<1>3. CASE ~ Get(u) /\ ~ GetBlank(u)
  <2>1. /\ Pending(u, p)
        /\ req'[u] = req[u]
        /\ payload'[u] = payload[u]
        /\ ~ ServePut(u)
    BY <1>3, PendingStep
  <2>2. u \notin stale
    BY StaleGrows
  <2>3. payload[u] = NewAccess(req[u], access[p])
    BY <2>1, <2>2 DEF FreshPayload
  <2>4. ASSUME NEW t \in Task, ServePut(t), req[t].principal = p PROVE FALSE
    BY <2>1, <2>4 DEF ServePut
  <2>5. ASSUME AdminChange(p) PROVE FALSE
    BY <2>1, <2>5 DEF AdminChange
  <2> QED BY <2>1, <2>3, <2>4, <2>5, AccessStep
<1> QED BY <1>1, <1>2, <1>3

\* A computed list stays what the request asks for.
LEMMA AsksStep ==
  ASSUME TypeInv, PayloadAsks, [Next]_vars
  PROVE  PayloadAsks'
<1> SUFFICES ASSUME NEW u \in Task, NEW p \in Principal, Pending(u, p)'
             PROVE  /\ req'[u].op = "grant" => AccessOf(req'[u].entitlement) \in payload'[u]
                    /\ req'[u].op = "revoke" =>
                         \A a \in payload'[u] : a.role # RoleOf(req'[u].entitlement)
  BY DEF PayloadAsks
<1>1. CASE Get(u) \/ GetBlank(u)
  <2>1. PICK held : payload'[u] = NewAccess(req[u], held)
    BY <1>1 DEF Get, GetBlank, TypeInv, TypeOK
  <2>2. req'[u] = req[u]
    BY <1>1 DEF Get, GetBlank
  <2> QED BY <2>1, <2>2 DEF NewAccess, Granted, Revoked
<1>2. CASE ~ Get(u) /\ ~ GetBlank(u)
  BY <1>2, PendingStep DEF PayloadAsks
<1> QED BY <1>1, <1>2

PayloadInv == TypeInv /\ FreshPayload /\ PayloadAsks

\* The lists that will be PUT are right, or known to be outdated.
LEMMA PayloadInvariant == Spec => []PayloadInv
<1>1. Init => PayloadInv
  BY InitTypeInv DEF Init, PayloadInv, FreshPayload, PayloadAsks, Pending
<1>2. PayloadInv /\ [Next]_vars => PayloadInv'
  BY TypeStep, StagesStep, FreshStep, AsksStep DEF PayloadInv, TypeInv
<1> QED BY <1>1, <1>2, PTL DEF Spec

\* The list a task is about to write is the current one with its change made,
\* unless another write, an administrator or a blank answer came in between.
THEOREM FreshPayloads == Spec => []FreshPayload
<1>1. PayloadInv => FreshPayload
  BY DEF PayloadInv
<1> QED BY <1>1, PayloadInvariant, PTL

\* No step gives or takes an access that nobody asked to give or take, except
\* the write of an outdated list.
THEOREM NoUnaskedChange == Spec => ChangesAreAskedFor
<1> DEFINE Asked ==
     \A p \in Principal :
       /\ \A a \in access'[p] \ access[p] :
            \/ a \in AdminAccess
            \/ \E t \in Task : /\ Served(t)
                              /\ req[t].principal = p
                              /\ \/ t \in stale
                                 \/ req[t].op = "grant" /\ a = AccessOf(req[t].entitlement)
       /\ \A a \in access[p] \ access'[p] :
            \/ a \in AdminAccess
            \/ \E t \in Task : /\ Served(t)
                              /\ req[t].principal = p
                              /\ \/ t \in stale
                                 \/ req[t].op = "revoke" /\ a.role = RoleOf(req[t].entitlement)
<1>1. PayloadInv /\ [Next]_vars => [Asked]_vars
  <2> SUFFICES ASSUME PayloadInv, [Next]_vars PROVE Asked
    OBVIOUS
  <2> SUFFICES ASSUME NEW p \in Principal
               PROVE  /\ \A a \in access'[p] \ access[p] :
                           \/ a \in AdminAccess
                           \/ \E t \in Task : /\ Served(t)
                                              /\ req[t].principal = p
                                              /\ \/ t \in stale
                                                 \/ /\ req[t].op = "grant"
                                                    /\ a = AccessOf(req[t].entitlement)
                      /\ \A a \in access[p] \ access'[p] :
                           \/ a \in AdminAccess
                           \/ \E t \in Task : /\ Served(t)
                                              /\ req[t].principal = p
                                              /\ \/ t \in stale
                                                 \/ /\ req[t].op = "revoke"
                                                    /\ a.role = RoleOf(req[t].entitlement)
    OBVIOUS
  <2>1. CASE access'[p] = access[p]
    BY <2>1
  <2>2. ASSUME NEW t \in Task, ServePut(t), req[t].principal = p, access'[p] = payload[t]
        PROVE  /\ Served(t)
               /\ \/ t \in stale
                  \/ req[t].op = "grant" /\ access'[p] = Granted(access[p], req[t].entitlement)
                  \/ req[t].op = "revoke" /\ access'[p] = Revoked(access[p], req[t].entitlement)
    <3>1. Served(t)
      BY <2>2 DEF ServePut, Served, PayloadInv, TypeInv, TypeOK
    <3>2. Pending(t, p)
      BY <2>2 DEF ServePut, Pending
    <3>3. t \notin stale => access'[p] = NewAccess(req[t], access[p])
      BY <2>2, <3>2 DEF PayloadInv, FreshPayload
    <3>4. WellFormed(req[t])
      BY <3>1, ProvisioningAssumption DEF Served, OnPermissions, PayloadInv, TypeInv, TypeOK
    <3>5. req[t].op \in {"grant", "revoke"}
      BY <3>4 DEF WellFormed
    <3> QED BY <3>1, <3>3, <3>5 DEF NewAccess
  <2>3. CASE AdminChange(p)
    <3>1. PICK b \in AdminAccess :
            access' = [access EXCEPT ![p] = IF b \in @ THEN @ \ {b} ELSE @ \cup {b}]
      BY <2>3 DEF AdminChange
    <3> QED BY <3>1 DEF PayloadInv, TypeInv, TypeOK
  <2>4. ASSUME NEW t \in Task, ServePut(t), req[t].principal = p, access'[p] = payload[t]
        PROVE  /\ \A a \in access'[p] \ access[p] :
                    t \in stale \/ (req[t].op = "grant" /\ a = AccessOf(req[t].entitlement))
               /\ \A a \in access[p] \ access'[p] :
                    t \in stale \/ (req[t].op = "revoke" /\ a.role = RoleOf(req[t].entitlement))
    BY <2>2, <2>4 DEF Granted, Revoked
  <2>5. CASE \E t \in Task : /\ ServePut(t)
                             /\ req[t].principal = p
                             /\ access'[p] = payload[t]
    <3>1. PICK t \in Task : ServePut(t) /\ req[t].principal = p /\ access'[p] = payload[t]
      BY <2>5
    <3>2. Served(t)
      BY <3>1, <2>2
    <3> QED BY <3>1, <3>2, <2>4
  <2> QED BY <2>1, <2>3, <2>5, AccessStep DEF PayloadInv
<1> QED BY <1>1, PayloadInvariant, PTL DEF Spec, ChangesAreAskedFor
(***************************************************************************)
(* What lasts.  GrantSticks and RevokeSticks are inductive together with   *)
(* PayloadInv: a later write either computed its list from the current one,*)
(* and then keeps what this task did, or is in stale.                      *)
(***************************************************************************)
LEMMA ChangedStep ==
  ASSUME TypeInv, [Next]_vars, NEW u \in Task, NEW p \in Principal
  PROVE  /\ Changed(u, p) => Changed(u, p)' /\ req'[u] = req[u]
         /\ Changed(u, p)' => /\ req'[u] = req[u]
                              /\ Changed(u, p) \/ (ServePut(u) /\ req[u].principal = p)
<1>1. net'[u] = "applied" => req[u] # None
  <2>1. net'[u] = "applied" => net[u] = "applied" \/ net[u] = "sent"
    BY AppliedStep DEF ServePut, ServeMember
  <2> QED BY <2>1, ProvisioningAssumption
          DEF TypeInv, TypeOK, StagesAgree, StageAgrees
<1>2. req[u] # None => req'[u] = req[u]
  BY RequestStep
<1>3. ServeMember(u) => OnGroup(u)
  BY DEF ServeMember
<1>4. OnGroup(u) => ~ OnPermissions(u)
  BY DEF OnGroup, OnPermissions, PermissionKind, ResourceKind
<1> QED BY <1>1, <1>2, <1>3, <1>4, AppliedStep DEF Changed, OnPermissions

\* A task that wrote a list computed from the current one kept every access that
\* is not of the role it revoked, and added none but the one it granted.
LEMMA FreshWrite ==
  ASSUME PayloadInv, NEW t \in Task, ServePut(t), NEW p \in Principal,
         req[t].principal = p, t \notin stale, NEW a
  PROVE  /\ a \in access[p] /\ ~ (req[t].op = "revoke" /\ a.role = RoleOf(req[t].entitlement))
              => a \in payload[t]
         /\ a \in payload[t] /\ ~ (req[t].op = "grant" /\ AccessOf(req[t].entitlement) = a)
              => a \in access[p]
<1>1. Pending(t, p)
  BY DEF ServePut, Pending
<1>2. payload[t] = NewAccess(req[t], access[p])
  BY <1>1 DEF PayloadInv, FreshPayload
<1>3. WellFormed(req[t])
  BY ProvisioningAssumption DEF ServePut, OnPermissions, PayloadInv, TypeInv, TypeOK
<1>4. req[t].op \in {"grant", "revoke"}
  BY <1>3 DEF WellFormed
<1> QED BY <1>2, <1>4 DEF NewAccess, Granted, Revoked

\* The access that an entitlement stands for has the entitlement's role.
LEMMA RoleOfAccess ==
  ASSUME NEW e
  PROVE  AccessOf(e).role = RoleOf(e)
BY DEF AccessOf

\* An access outside AdminAccess is not the administrator's to change.
LEMMA AdminKeeps ==
  ASSUME TypeInv, NEW p \in Principal, AdminChange(p), NEW a, a \notin AdminAccess
  PROVE  a \in access'[p] <=> a \in access[p]
<1>1. PICK b \in AdminAccess :
        access' = [access EXCEPT ![p] = IF b \in @ THEN @ \ {b} ELSE @ \cup {b}]
  BY DEF AdminChange
<1> QED BY <1>1 DEF TypeInv, TypeOK

\* What was granted stays over every step, unless a revoke or an outdated list takes it.
LEMMA GrantStep ==
  ASSUME PayloadInv, GrantSticks, [Next]_vars
  PROVE  GrantSticks'
<1> SUFFICES ASSUME NEW t \in Task, NEW p \in Principal,
                    Changed(t, p)', req'[t].op = "grant",
                    AccessOf(req'[t].entitlement) \notin AdminAccess,
                    \A u \in Task \ {t} : Changed(u, p)' =>
                      /\ u \notin stale'
                      /\ ~ (/\ req'[u].op = "revoke"
                            /\ RoleOf(req'[u].entitlement) = RoleOf(req'[t].entitlement))
             PROVE  AccessOf(req'[t].entitlement) \in access'[p]
  BY DEF GrantSticks
<1>a. TypeInv
  BY DEF PayloadInv
<1>1. /\ req'[t] = req[t]
      /\ Changed(t, p) \/ (ServePut(t) /\ req[t].principal = p)
  BY <1>a, ChangedStep
<1> DEFINE a == AccessOf(req[t].entitlement)
<1>2. CASE ServePut(t) /\ req[t].principal = p
  <2>1. Pending(t, p)
    BY <1>2 DEF ServePut, Pending
  <2>2. a \in payload[t]
    BY <1>1, <2>1 DEF PayloadInv, PayloadAsks
  <2>3. access'[p] = payload[t]
    BY <1>2 DEF ServePut, PayloadInv, TypeInv, TypeOK
  <2> QED BY <1>1, <2>2, <2>3
<1>3. CASE Changed(t, p)
  <2>1. \A u \in Task \ {t} : Changed(u, p) =>
          /\ u \notin stale
          /\ ~ (/\ req[u].op = "revoke"
                /\ RoleOf(req[u].entitlement) = RoleOf(req[t].entitlement))
    <3> SUFFICES ASSUME NEW u \in Task \ {t}, Changed(u, p)
                 PROVE  /\ u \notin stale
                        /\ ~ (/\ req[u].op = "revoke"
                              /\ RoleOf(req[u].entitlement) = RoleOf(req[t].entitlement))
      OBVIOUS
    <3>1. Changed(u, p)' /\ req'[u] = req[u]
      BY <1>a, ChangedStep
    <3> QED BY <1>1, <3>1, StaleGrows
  <2>2. a \in access[p]
    BY <1>1, <1>3, <2>1 DEF GrantSticks
  <2>3. CASE access'[p] = access[p]
    BY <1>1, <2>2, <2>3
  <2>4. CASE AdminChange(p)
    BY <1>1, <1>a, <2>2, <2>4, AdminKeeps
  <2>5. ASSUME NEW s \in Task, ServePut(s), req[s].principal = p, access'[p] = payload[s]
        PROVE  a \in access'[p]
    <3>1. s # t
      BY <1>3, <2>5 DEF ServePut, Changed
    <3>2. Changed(s, p)' /\ req'[s] = req[s]
      BY <2>5 DEF ServePut, Changed, OnPermissions, PayloadInv, TypeInv, TypeOK
    <3>3. /\ s \notin stale
          /\ ~ (req[s].op = "revoke" /\ a.role = RoleOf(req[s].entitlement))
      BY <1>1, <3>1, <3>2, StaleGrows, RoleOfAccess
    <3> QED BY <2>2, <2>5, <3>3, FreshWrite
  <2> QED BY <1>1, <1>a, <2>3, <2>4, <2>5, AccessStep
<1> QED BY <1>1, <1>2, <1>3

\* What was revoked stays away, unless a grant or an outdated list brings it back.
LEMMA RevokeStep ==
  ASSUME PayloadInv, RevokeSticks, [Next]_vars
  PROVE  RevokeSticks'
<1> SUFFICES ASSUME NEW t \in Task, NEW p \in Principal,
                    Changed(t, p)', req'[t].op = "revoke",
                    NEW a, a \in access'[p], a \notin AdminAccess,
                    a.role = RoleOf(req'[t].entitlement),
                    \A u \in Task \ {t} : Changed(u, p)' =>
                      /\ u \notin stale'
                      /\ ~ (req'[u].op = "grant" /\ AccessOf(req'[u].entitlement) = a)
             PROVE  FALSE
  BY DEF RevokeSticks
<1>a. TypeInv
  BY DEF PayloadInv
<1>1. /\ req'[t] = req[t]
      /\ Changed(t, p) \/ (ServePut(t) /\ req[t].principal = p)
  BY <1>a, ChangedStep
<1>2. CASE ServePut(t) /\ req[t].principal = p
  <2>1. Pending(t, p)
    BY <1>2 DEF ServePut, Pending
  <2>2. a \notin payload[t]
    BY <1>1, <2>1 DEF PayloadInv, PayloadAsks
  <2>3. access'[p] = payload[t]
    BY <1>2 DEF ServePut, PayloadInv, TypeInv, TypeOK
  <2> QED BY <2>2, <2>3
<1>3. CASE Changed(t, p)
  <2>1. \A u \in Task \ {t} : Changed(u, p) =>
          /\ u \notin stale
          /\ ~ (req[u].op = "grant" /\ AccessOf(req[u].entitlement) = a)
    <3> SUFFICES ASSUME NEW u \in Task \ {t}, Changed(u, p)
                 PROVE  /\ u \notin stale
                        /\ ~ (req[u].op = "grant" /\ AccessOf(req[u].entitlement) = a)
      OBVIOUS
    <3>1. Changed(u, p)' /\ req'[u] = req[u]
      BY <1>a, ChangedStep
    <3> QED BY <3>1, StaleGrows
  <2>2. a \notin access[p]
    BY <1>1, <1>3, <2>1 DEF RevokeSticks
  <2>3. CASE AdminChange(p)
    BY <1>a, <2>2, <2>3, AdminKeeps
  <2>4. ASSUME NEW s \in Task, ServePut(s), req[s].principal = p, access'[p] = payload[s]
        PROVE  FALSE
    <3>1. s # t
      BY <1>3, <2>4 DEF ServePut, Changed
    <3>2. Changed(s, p)' /\ req'[s] = req[s]
      BY <2>4 DEF ServePut, Changed, OnPermissions, PayloadInv, TypeInv, TypeOK
    <3>3. /\ s \notin stale
          /\ ~ (req[s].op = "grant" /\ AccessOf(req[s].entitlement) = a)
      BY <3>1, <3>2, StaleGrows
    <3> QED BY <2>2, <2>4, <3>3, FreshWrite
  <2> QED BY <1>a, <2>2, <2>3, <2>4, AccessStep
<1> QED BY <1>1, <1>2, <1>3

\* A granted access stays until its role is revoked, an administrator takes it or
\* an outdated list is written over it: the lost update is the only way to lose it.
THEOREM GrantsStick == Spec => []GrantSticks
<1>1. Init => GrantSticks
  BY DEF Init, GrantSticks, Changed
<1>2. PayloadInv /\ GrantSticks /\ [Next]_vars => GrantSticks'
  BY GrantStep
<1> QED BY <1>1, <1>2, PayloadInvariant, PTL DEF Spec

\* A revoked role stays revoked until a task or an administrator grants it again
\* or an outdated list brings it back.
THEOREM RevokesStick == Spec => []RevokeSticks
<1>1. Init => RevokeSticks
  BY DEF Init, RevokeSticks, Changed
<1>2. PayloadInv /\ RevokeSticks /\ [Next]_vars => RevokeSticks'
  BY RevokeStep
<1> QED BY <1>1, <1>2, PayloadInvariant, PTL DEF Spec
(***************************************************************************)
(* The runner's semaphore, for any number of workers and of tasks: each    *)
(* task that is being processed holds one slot, whichever way those before *)
(* it ended.                                                               *)
(***************************************************************************)

\* The tasks that hold a slot.
Holders == {t \in Task : Active(t)}

\* Most steps neither start nor end a task.
LEMMA HoldersKept ==
  ASSUME TypeInv, NEW t \in Task, NEW stage, Active(t), pc' = [pc EXCEPT ![t] = stage],
         stage \notin {"waiting", "done", "lost"}
  PROVE  Holders' = Holders
BY DEF Holders, Active, TypeInv, TypeOK

\* A task that starts is one more holder, for one slot less.
LEMMA HolderStarts ==
  ASSUME IsFiniteSet(Task), TypeInv, SlotsBalance, NEW t \in Task, Start(t)
  PROVE  SlotsBalance'
<1>1. Holders' = Holders \cup {t} /\ t \notin Holders
  BY DEF Holders, Active, Start, TypeInv, TypeOK
<1>2. IsFiniteSet(Holders)
  BY FS_Subset DEF Holders
<1>3. Cardinality(Holders') = Cardinality(Holders) + 1
  BY <1>1, <1>2, FS_AddElement
<1>4. slots' = slots - 1 /\ slots > 0 /\ slots \in Int
  BY DEF Start, TypeInv, TypeOK
<1>5. Cardinality(Holders) \in Nat
  BY <1>2, FS_CardinalityType
<1> QED BY <1>3, <1>4, <1>5, ProvisioningAssumption DEF SlotsBalance, Holders

\* A task whose goroutine returns is one holder less, for one slot more.
LEMMA HolderFinishes ==
  ASSUME IsFiniteSet(Task), TypeInv, SlotsBalance,
         NEW t \in Task, NEW o, Active(t), Finish(t, o)
  PROVE  SlotsBalance'
<1>1. Holders' = Holders \ {t} /\ t \in Holders
  BY DEF Holders, Active, Finish, TypeInv, TypeOK
<1>2. IsFiniteSet(Holders)
  BY FS_Subset DEF Holders
<1>3. Cardinality(Holders') = Cardinality(Holders) - 1
  BY <1>1, <1>2, FS_RemoveElement
<1>4. slots' = slots + 1 /\ slots \in Int
  BY DEF Finish, TypeInv, TypeOK
<1>5. Cardinality(Holders) \in Nat
  BY <1>2, FS_CardinalityType
<1>6. Cardinality(Holders') \in Nat
  BY <1>1, <1>2, FS_RemoveElement, FS_CardinalityType
<1> QED BY <1>3, <1>4, <1>5, <1>6, ProvisioningAssumption DEF SlotsBalance, Holders

\* A new process has no task yet, and all its slots.
LEMMA NoHolders ==
  ASSUME slots = MaxWorkers, Holders = {}
  PROVE  SlotsBalance
BY FS_EmptySet, ProvisioningAssumption DEF SlotsBalance, Holders

\* Every step keeps the balance of slots, one case per action.
LEMMA SlotsStep ==
  ASSUME IsFiniteSet(Task), TypeInv, SlotsBalance, [Next]_vars
  PROVE  SlotsBalance'
<1>1. ASSUME NEW t \in Task, Start(t) PROVE SlotsBalance'
  BY <1>1, HolderStarts
<1>2. ASSUME NEW t \in Task, ClientStep(t) PROVE SlotsBalance'
  <2>1. Active(t)
    BY <1>2 DEF ClientStep, Dispatch, Get, GetBlank, GetError, Send, Reply, LoseAnswer, Active
  <2>2. CASE \E o : Finish(t, o)
    BY <2>1, <2>2, HolderFinishes
  <2>3. CASE \E stage \in {"get", "send", "sent"} : Proceed(t, stage)
    <3>1. PICK stage \in {"get", "send", "sent"} : Proceed(t, stage)
      BY <2>3
    <3>2. Holders' = Holders /\ slots' = slots
      BY <2>1, <3>1, HoldersKept DEF Proceed
    <3> QED BY <3>2 DEF SlotsBalance, Holders
  <2> QED BY <1>2, <2>2, <2>3
          DEF ClientStep, Dispatch, Get, GetBlank, GetError, Send, Reply, LoseAnswer
<1>3. CASE Crash
  <2>1. slots' = MaxWorkers
    BY <1>3 DEF Crash
  <2>2. Holders' = {}
    BY <1>3 DEF Crash, Holders, Active
  <2> QED BY <2>1, <2>2, FS_EmptySet, ProvisioningAssumption DEF SlotsBalance, Holders
<1>4. CASE UNCHANGED <<pc, slots>>
  BY <1>4 DEF SlotsBalance, Active
<1>5. ASSUME NEW t \in Task, ServerStep(t) PROVE UNCHANGED <<pc, slots>>
  BY <1>5 DEF ServerStep, ServePut, ServeMember, ServeNothing
<1>6. CASE Terminated \/ UNCHANGED vars \/ \E p \in Principal : AdminChange(p)
  BY <1>4, <1>6 DEF Terminated, vars, AdminChange
<1> QED BY <1>1, <1>2, <1>3, <1>4, <1>5, <1>6 DEF Next

\* No slot is lost and none is released twice, however tasks end and whenever the
\* process dies, so the runner never stops taking tasks nor takes too many.
THEOREM SlotsBalanced ==
  ASSUME IsFiniteSet(Task)
  PROVE  Spec => []SlotsBalance
<1>1. Init => SlotsBalance
  <2> SUFFICES ASSUME Init PROVE SlotsBalance
    OBVIOUS
  <2>1. Holders = {}
    BY DEF Init, Holders, Active
  <2> QED BY <2>1, NoHolders DEF Init
<1>2. TypeInv /\ SlotsBalance /\ [Next]_vars => SlotsBalance'
  BY SlotsStep
<1>3. Spec => []TypeInv
  BY TypeInvariant
<1> QED BY <1>1, <1>2, <1>3, PTL DEF Spec

=============================================================================
