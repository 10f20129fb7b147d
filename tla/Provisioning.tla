---------------------------- MODULE Provisioning ----------------------------
(***************************************************************************)
(* Grant and revoke tasks of baton-segment, from the runner that takes a   *)
(* worker slot for them to the requests they make of the Segment API.      *)
(*                                                                         *)
(* Segment has no call that adds or removes one permission.  A task on a   *)
(* role, source, warehouse, space or function reads all permissions of the *)
(* principal (GET), computes the new list, and replaces the old list with  *)
(* it (PUT).  Nothing orders the tasks of one principal, so a list may be  *)
(* outdated when it is written.  Group membership is edited in place (POST,*)
(* DELETE).                                                                *)
(***************************************************************************)
EXTENDS Permissions, Integers, FiniteSets

CONSTANTS User, Group, \* principals Segment can give permissions to
          Stranger,    \* resources of other types, sent as a principal
          Task,        \* tasks handed to the runner
          Request,     \* what a task may ask for
          None,        \* the request of a task not handed out yet
          MaxWorkers,  \* taskConcurrency
          InitialAccess, \* accesses that principals may hold at first
          AdminAccess, \* accesses changed from outside the connector
          BlankAnswers,\* answers with neither data nor errors occur
          LateWrites   \* a request outlives the client that sent it

Principal == User \cup Group

\* A request: the operation, the principal with its "login" profile field
\* ("untraited": no user trait at all), and the entitlement.
WellFormed(r) ==
  LET e == r.entitlement IN
  /\ r \in [op : {"grant", "revoke"}, principal : Principal \cup Stranger,
            login : {"present", "absent", "untraited"}, entitlement : {e}]
  /\ e = [kind |-> e.kind, id |-> e.id, parent |-> e.parent, desc |-> e.desc]
  /\ e.kind = "role" => e.id \in Role /\ e.parent \in Resource
  /\ e.kind \in ResourceKind => e.id \in Resource /\ e.desc \in Role \cup {NoRole}
  /\ e.kind = "group" => e.id \in Group

ASSUME ProvisioningAssumption ==
  /\ MaxWorkers \in Nat \ {0}
  /\ Stranger \cap Principal = {}
  /\ None \notin Request
  /\ \A r \in Request : WellFormed(r)
  /\ InitialAccess \subseteq Access
  /\ AdminAccess \subseteq Access
  /\ BlankAnswers \in BOOLEAN
  /\ LateWrites \in BOOLEAN

VARIABLES
  access,   \* Segment: what each principal may do
  members,  \* Segment: the users in each group
  slots,    \* the runner's semaphore: free worker slots
  req,      \* the request of each task
  pc,       \* where each task's goroutine is
  payload,  \* the permissions a task has computed and will PUT
  net,      \* the task's write request, as the server sees it
  outcome,  \* what the task reports to its manager
  stale     \* history: tasks whose payload was computed from a list that was
            \* no longer, or never, the principal's when it was served

vars == <<access, members, slots, req, pc, payload, net, outcome, stale>>

-----------------------------------------------------------------------------
OnPermissions(t) == req[t] # None /\ req[t].entitlement.kind \in PermissionKind
OnGroup(t) == req[t] # None /\ req[t].entitlement.kind = "group"
Active(t) == pc[t] \notin {"waiting", "done", "lost"}

\* t has read the permissions of p, and the list it computed is not served yet.
Pending(t, p) == /\ OnPermissions(t)
                 /\ req[t].principal = p
                 /\ pc[t] = "send" \/ net[t] = "sent"

\* What a task's request does to the permissions of its principal.
NewAccess(r, held) == IF r.op = "grant" THEN Granted(held, r.entitlement)
                                        ELSE Revoked(held, r.entitlement)

\* Segment adds or removes one user; no other membership is touched.
NewMembers(r, users) == IF r.op = "grant" THEN users \cup {r.principal}
                                          ELSE users \ {r.principal}

-----------------------------------------------------------------------------
Init ==
  /\ access \in [Principal -> SUBSET InitialAccess]
  /\ members \in [Group -> SUBSET User]
  /\ slots = MaxWorkers
  /\ req = [t \in Task |-> None]
  /\ pc = [t \in Task |-> "waiting"]
  /\ payload = [t \in Task |-> {}]
  /\ net = [t \in Task |-> "none"]
  /\ outcome = [t \in Task |-> "none"]
  /\ stale = {}

\* Mutant: the slot is not released.
FinishKeepsSlot(t, o) ==
  /\ pc' = [pc EXCEPT ![t] = "done"]
  /\ outcome' = [outcome EXCEPT ![t] = o]
  /\ slots' = slots

\* The goroutine returns: the task is finished and its slot released.
Finish(t, o) ==
  /\ pc' = [pc EXCEPT ![t] = "done"]
  /\ outcome' = [outcome EXCEPT ![t] = o]
  /\ slots' = slots + 1

Proceed(t, stage) ==
  /\ pc' = [pc EXCEPT ![t] = stage]
  /\ UNCHANGED <<outcome, slots>>

\* run(): acquire a slot, fetch the next task, process it in a goroutine.
Start(t) ==
  /\ pc[t] = "waiting"
  /\ slots > 0
  /\ slots' = slots - 1
  /\ \E r \in Request : req' = [req EXCEPT ![t] = r]
  /\ pc' = [pc EXCEPT ![t] = "dispatch"]
  /\ UNCHANGED <<access, members, payload, net, outcome, stale>>

\* Mutant: a description without a role id is taken as it is.
RejectsNoDescription(r) ==
  LET e == r.entitlement IN
  \/ e.kind \notin PermissionKind \cup {"group"}
  \/ e.kind \in PermissionKind /\ r.principal \notin Principal
  \/ e.kind = "group" /\ (r.principal \notin User \/ r.login = "untraited")

\* No provisioner for the resource type; a description without a role id (the
\* index panics, and the gRPC recovery handler makes it an error); a principal
\* the entitlement cannot be granted to.
Rejected(r) ==
  LET e == r.entitlement IN
  \/ e.kind \notin PermissionKind \cup {"group"}
  \/ e.kind \in ResourceKind /\ e.desc = NoRole
  \/ e.kind \in PermissionKind /\ r.principal \notin Principal
  \/ e.kind = "group" /\ (r.principal \notin User \/ r.login = "untraited")

\* groups.go returns a nil error, and makes no call, when there is no login.
SkipsWrite(r) ==
  /\ r.entitlement.kind = "group"
  /\ r.principal \in User
  /\ r.login = "absent"

\* builderImpl.Grant/Revoke pick the provisioner, which checks its arguments.
Dispatch(t) ==
  /\ pc[t] = "dispatch"
  /\ \/ Rejected(req[t]) /\ Finish(t, "failure")
     \/ SkipsWrite(req[t]) /\ Finish(t, "success")
     \/ /\ ~Rejected(req[t]) /\ ~SkipsWrite(req[t])
        /\ Proceed(t, IF OnPermissions(t) THEN "get" ELSE "send")
  /\ UNCHANGED <<access, members, req, payload, net, stale>>

-----------------------------------------------------------------------------
\* Mutant: what was read is sent back as it is.
GetUnchanged(t) ==
  /\ pc[t] = "get"
  /\ payload' = [payload EXCEPT ![t] = access[req[t].principal]]
  /\ Proceed(t, "send")
  /\ UNCHANGED <<access, members, req, net, stale>>

\* GetUser/GetGroup answer, and grantPermissions/revokePermissions compute.
Get(t) ==
  /\ pc[t] = "get"
  /\ payload' = [payload EXCEPT ![t] = NewAccess(req[t], access[req[t].principal])]
  /\ Proceed(t, "send")
  /\ UNCHANGED <<access, members, req, net, stale>>

\* doRequest checks no status: a JSON object with neither data nor errors is a
\* principal without permissions.
GetBlank(t) ==
  /\ BlankAnswers
  /\ pc[t] = "get"
  /\ payload' = [payload EXCEPT ![t] = NewAccess(req[t], {})]
  /\ stale' = stale \cup {t}
  /\ Proceed(t, "send")
  /\ UNCHANGED <<access, members, req, net>>

GetError(t) ==
  /\ pc[t] = "get"
  /\ Finish(t, "failure")
  /\ UNCHANGED <<access, members, req, payload, net, stale>>

\* UpdatePermissions, AddGroupMembers or RemoveGroupMember sends its request.
Send(t) ==
  /\ pc[t] = "send"
  /\ net' = [net EXCEPT ![t] = "sent"]
  /\ Proceed(t, "sent")
  /\ UNCHANGED <<access, members, req, payload, stale>>

-----------------------------------------------------------------------------
\* Segment replaces the permissions of the principal by those in the PUT.  Every
\* other list computed for that principal and not served yet becomes outdated.
ServePut(t) ==
  /\ net[t] = "sent"
  /\ OnPermissions(t)
  /\ LET p == req[t].principal IN
     /\ access' = [access EXCEPT ![p] = payload[t]]
     /\ stale' = stale \cup {u \in Task \ {t} : Pending(u, p)}
  /\ net' = [net EXCEPT ![t] = "applied"]
  /\ UNCHANGED <<members, slots, req, pc, payload, outcome>>

\* Segment adds the user to, or removes it from, the group.
ServeMember(t) ==
  /\ net[t] = "sent"
  /\ OnGroup(t)
  /\ LET g == req[t].entitlement.id IN
     members' = [members EXCEPT ![g] = NewMembers(req[t], members[g])]
  /\ net' = [net EXCEPT ![t] = "applied"]
  /\ UNCHANGED <<access, slots, req, pc, payload, outcome, stale>>

\* Segment does nothing, and answers with errors or, by some proxy on the way,
\* with an object that has neither data nor errors.
ServeNothing(t) ==
  /\ net[t] = "sent"
  /\ \/ net' = [net EXCEPT ![t] = "refused"]
     \/ BlankAnswers /\ net' = [net EXCEPT ![t] = "blank"]
  /\ UNCHANGED <<access, members, slots, req, pc, payload, outcome, stale>>

\* Mutant: the errors in an answer are not looked at.
ReportsSuccess(t) == "success"

\* RemoveGroupMember hands doRequest its result by value, so the status it then
\* compares with "SUCCESS" is always empty; the others report what they read.
Reports(t) ==
  IF OnGroup(t) /\ req[t].op = "revoke" THEN "failure"
  ELSE IF net[t] = "refused" THEN "failure" ELSE "success"

\* The client reads the answer, and the task finishes with it.
Reply(t) ==
  /\ pc[t] = "sent"
  /\ net[t] \in {"applied", "refused", "blank"}
  /\ Finish(t, Reports(t))
  /\ UNCHANGED <<access, members, req, payload, net, stale>>

\* The fate of a request whose client has gone: it never arrives, or it does later.
Abandoned == {"none"} \cup (IF LateWrites THEN {"sent"} ELSE {})

\* The connection breaks or the body does not decode, before or after the server
\* has acted on the request: doRequest returns an error, the task fails.
LoseAnswer(t) ==
  /\ pc[t] = "sent"
  /\ Finish(t, "failure")
  /\ \E n \in IF net[t] = "sent" THEN Abandoned ELSE {net[t]} :
       net' = [net EXCEPT ![t] = n]
  /\ UNCHANGED <<access, members, req, payload, stale>>

-----------------------------------------------------------------------------
\* The process dies: its goroutines and their computed lists are gone, and no
\* task is reported.  A new process starts with all its slots.
Crash ==
  /\ \E t \in Task : Active(t)
  /\ pc' = [t \in Task |-> IF Active(t) THEN "lost" ELSE pc[t]]
  /\ slots' = MaxWorkers
  /\ net' \in {n \in [Task -> {"none", "sent", "applied", "refused", "blank"}] :
                 \A t \in Task : IF Active(t) /\ net[t] = "sent"
                                THEN n[t] \in Abandoned ELSE n[t] = net[t]}
  /\ UNCHANGED <<access, members, req, payload, outcome, stale>>

\* A Segment administrator, or another program, edits a principal's permissions.
AdminChange(p) ==
  /\ \E a \in AdminAccess :
       access' = [access EXCEPT ![p] = IF a \in @ THEN @ \ {a} ELSE @ \cup {a}]
  /\ stale' = stale \cup {u \in Task : Pending(u, p)}
  /\ UNCHANGED <<members, slots, req, pc, payload, net, outcome>>

\* Every task is over, and no request is on its way.
Terminated ==
  /\ \A t \in Task : pc[t] \in {"done", "lost"} /\ net[t] # "sent"
  /\ UNCHANGED vars

ClientStep(t) == \/ Dispatch(t) \/ Get(t) \/ GetBlank(t) \/ GetError(t)
                 \/ Send(t) \/ Reply(t) \/ LoseAnswer(t)
ServerStep(t) == ServePut(t) \/ ServeMember(t) \/ ServeNothing(t)

Next ==
  \/ \E t \in Task : Start(t) \/ ClientStep(t) \/ ServerStep(t)
  \/ \E p \in Principal : AdminChange(p)
  \/ Crash
  \/ Terminated

Spec == Init /\ [][Next]_vars

\* The runner polls for tasks, goroutines are scheduled, and Segment answers.
Fairness == /\ \A t \in Task : WF_vars(ClientStep(t)) /\ WF_vars(ServerStep(t))
            /\ WF_vars(\E t \in Task : Start(t))
FairSpec == Spec /\ Fairness
-----------------------------------------------------------------------------
(***************************************************************************)
(* Properties.                                                             *)
(***************************************************************************)
NetState == {"none", "sent", "applied", "refused", "blank"}

\* Every variable holds a value of its kind.
TypeOK ==
  /\ access \in [Principal -> SUBSET Access]
  /\ members \in [Group -> SUBSET User]
  /\ slots \in Int
  /\ req \in [Task -> Request \cup {None}]
  /\ pc \in [Task -> {"waiting", "dispatch", "get", "send", "sent", "done", "lost"}]
  /\ payload \in [Task -> SUBSET Access]
  /\ net \in [Task -> NetState]
  /\ outcome \in [Task -> {"none", "success", "failure"}]
  /\ stale \subseteq Task

\* The semaphore: one slot is taken for each task being processed, whichever way
\* the earlier ones ended, and never more than taskConcurrency.
SlotsBalance ==
  /\ slots \in 0 .. MaxWorkers
  /\ slots + Cardinality({t \in Task : Active(t)}) = MaxWorkers

\* A computed list that no other write has outdated is the principal's current
\* list with just the requested change made.
FreshPayload ==
  \A t \in Task \ stale : \A p \in Principal :
    Pending(t, p) => payload[t] = NewAccess(req[t], access[p])

\* A computed list has the requested change made, be it outdated or not.
PayloadAsks ==
  \A t \in Task, p \in Principal :
    Pending(t, p) =>
      /\ req[t].op = "grant" => AccessOf(req[t].entitlement) \in payload[t]
      /\ req[t].op = "revoke" => \A a \in payload[t] : a.role # RoleOf(req[t].entitlement)

\* The PUT of t is served in this step.
Served(t) == OnPermissions(t) /\ net[t] = "sent" /\ net'[t] = "applied"

\* An access appears or disappears only because somebody asked for that very
\* change: an administrator, a grant of that access, a revoke of its role.  The
\* one exception is the write of an outdated list.
ChangesAreAskedFor ==
  [][\A p \in Principal :
       /\ \A a \in access'[p] \ access[p] :
            \/ a \in AdminAccess
            \/ \E t \in Task : /\ Served(t)
                              /\ req[t].principal = p
                              /\ \/ t \in stale
                                 \/ req[t].op = "grant" /\ a = AccessOf(req[t].entitlement)
       /\ \A a \in access[p] \ access'[p] :
            \/ a \in AdminAccess
            \/ \E t \in Task : /\ Served(t)
                              /\ req[t].principal = p
                              /\ \/ t \in stale
                                 \/ req[t].op = "revoke" /\ a.role = RoleOf(req[t].entitlement)
    ]_vars

\* t changed the permissions of p on the server.
Changed(t, p) == OnPermissions(t) /\ req[t].principal = p /\ net[t] = "applied"

\* What a grant gave is there until its role is revoked, an administrator takes
\* it away or another task writes an outdated list over it.
GrantSticks ==
  \A t \in Task, p \in Principal :
    ( /\ Changed(t, p) /\ req[t].op = "grant"
      /\ AccessOf(req[t].entitlement) \notin AdminAccess
      /\ \A u \in Task \ {t} : Changed(u, p) =>
            /\ u \notin stale
            /\ ~ (/\ req[u].op = "revoke"
                  /\ RoleOf(req[u].entitlement) = RoleOf(req[t].entitlement)) )
    => AccessOf(req[t].entitlement) \in access[p]

\* What a revoke took away stays away until it is granted again, by a task or an
\* administrator, or another task brings it back with an outdated list.
RevokeSticks ==
  \A t \in Task, p \in Principal :
    (Changed(t, p) /\ req[t].op = "revoke") =>
      \A a \in access[p] \ AdminAccess :
        a.role = RoleOf(req[t].entitlement) =>
          \E u \in Task \ {t} : /\ Changed(u, p)
                              /\ \/ u \in stale
                                 \/ req[u].op = "grant" /\ AccessOf(req[u].entitlement) = a

\* False of concurrent tasks: an acknowledged grant holds as long as nobody revokes
\* its role.
AcknowledgedGrantHolds ==
  \A t \in Task, p \in Principal :
    ( /\ Changed(t, p) /\ req[t].op = "grant" /\ outcome[t] = "success"
      /\ ~ \E u \in Task : /\ Changed(u, p) /\ req[u].op = "revoke"
                          /\ RoleOf(req[u].entitlement) = RoleOf(req[t].entitlement) )
    => AccessOf(req[t].entitlement) \in access[p]

\* A revoke takes away the access of its own entitlement, and no other.
RevokeTakesOnlyItsOwn ==
  [][\A t \in Task : Served(t) /\ req[t].op = "revoke" /\ t \notin stale =>
       access[req[t].principal] \ access'[req[t].principal]
         \subseteq {AccessOf(req[t].entitlement)}]_vars

\* However many tasks run at once, and whatever fails, dies or arrives late, they
\* keep the promise of AtomicProvisioning: each change is made in one step, at most
\* once and before success is reported; only an outdated task, or one answered blank,
\* departs from it, and only tasks on one principal outdate each other.
Atomic == INSTANCE AtomicProvisioning WITH
            effected <- {t \in Task : net[t] = "applied"},
            blank <- {t \in Task : net[t] = "blank"},
            outdated <- stale
AtomicSpec == Atomic!ASpec

\* Every task is handed to a worker in the end, and is over some time after.
EveryTaskIsOver == \A t \in Task : <>(pc[t] \in {"done", "lost"})
=============================================================================
