-------------------------- MODULE RefinementProofs --------------------------
(***************************************************************************)
(* Provisioning implements AtomicProvisioning: any number of tasks and     *)
(* workers, late writes, blank answers, crashes and administrators.        *)
(* A task's change is made when the server serves its write, and a list    *)
(* that is stale by then is the write of an outdated task.                 *)
(***************************************************************************)
EXTENDS ProvisioningProofs

\* The values that AtomicSpec gives to the abstract variables.
Effected == {t \in Task : net[t] = "applied"}
Blank == {t \in Task : net[t] = "blank"}

\* What most steps leave alone.
Unseen == /\ UNCHANGED <<access, members, req, stale>>
          /\ Effected' = Effected
          /\ Blank' = Blank

\* The step is one of AtomicProvisioning, or changes nothing that it sees.
Simulated == Atomic!ANext \/ UNCHANGED Atomic!avars

\* The initial states are those of AtomicProvisioning.
LEMMA AtomicInit == Init => Atomic!AInit
BY DEF Init, Atomic!AInit, Principal

\* Both specifications compute the same change.
LEMMA SameChange ==
  ASSUME NEW r, NEW held
  PROVE  Atomic!Change(r, held) = NewAccess(r, held)
BY DEF Granted, Revoked, AccessOf, RoleOf, SegmentType, NewAccess, Atomic!Change, Atomic!Granted,
       Atomic!Revoked, Atomic!AccessOf, Atomic!RoleOf, Atomic!SegmentType

\* Both mean the same by a task that asks for permissions, or for a membership.
LEMMA SameAsks ==
  ASSUME NEW t \in Task
  PROVE  /\ OnPermissions(t) <=> Atomic!Asks(t, Atomic!PermissionKind)
         /\ OnGroup(t) <=> Atomic!Asks(t, {"group"})
BY DEF OnPermissions, OnGroup, Atomic!Asks, PermissionKind, ResourceKind,
       Atomic!PermissionKind, Atomic!ResourceKind

\* A list that has its change made is not changed by making it again.
LEMMA ChangedTwice ==
  ASSUME PayloadInv, NEW t \in Task, NEW p \in Principal, Pending(t, p)
  PROVE  NewAccess(req[t], payload[t]) = payload[t]
<1>1. /\ req[t].op = "grant" => AccessOf(req[t].entitlement) \in payload[t]
      /\ req[t].op = "revoke" => \A a \in payload[t] : a.role # RoleOf(req[t].entitlement)
  BY DEF PayloadInv, PayloadAsks
<1>2. req[t] \in Request
  BY DEF Pending, OnPermissions, PayloadInv, TypeInv, TypeOK
<1>3. WellFormed(req[t])
  BY <1>2, ProvisioningAssumption
<1>4. req[t].op \in {"grant", "revoke"}
  BY <1>3 DEF WellFormed
<1> QED BY <1>1, <1>4 DEF NewAccess, Granted, Revoked

\* A task that waits to write to p is a rival of whoever changes p.
LEMMA PendingIsRival ==
  ASSUME TypeInv, NEW u \in Task, NEW p \in Principal, Pending(u, p)
  PROVE  u \in Atomic!Rivals(p)
<1>1. net[u] # "applied"
  BY DEF Pending, TypeInv, StagesAgree, StageAgrees
<1> QED BY <1>1, SameAsks DEF Pending, Atomic!Rivals

\* A request on its way is one whose change may still be made.
LEMMA SentIsOpen ==
  ASSUME TypeInv, NEW t \in Task, net[t] = "sent", outcome[t] # "success"
  PROVE  /\ OnPermissions(t) => Atomic!Open(t, Atomic!PermissionKind)
         /\ OnGroup(t) => Atomic!Open(t, {"group"})
BY SameAsks DEF Atomic!Open

\* A reported success has its answer: no request of it is on its way.
SuccessIsAnswered == \A t \in Task : outcome[t] = "success" => net[t] # "sent"

\* No step reports success and leaves the request open.
LEMMA AnsweredStep ==
  ASSUME TypeInv, SuccessIsAnswered, [Next]_vars
  PROVE  SuccessIsAnswered'
<1> SUFFICES ASSUME NEW u \in Task, outcome'[u] = "success" PROVE net'[u] # "sent"
  BY DEF SuccessIsAnswered
<1>a. (outcome[u] = "success" => net[u] # "sent") /\ StageAgrees(u)
  BY DEF SuccessIsAnswered, TypeInv, StagesAgree
<1> USE <1>a DEF TypeInv, TypeOK, StageAgrees
<1>1. ASSUME NEW t \in Task, Start(t) \/ Send(t) PROVE net'[u] # "sent"
  BY <1>1 DEF Start, Send, Proceed
<1>2. ASSUME NEW t \in Task, Dispatch(t) PROVE net'[u] # "sent"
  BY <1>2 DEF Dispatch, Finish, Proceed
<1>3. ASSUME NEW t \in Task, Get(t) \/ GetBlank(t) \/ GetError(t) PROVE net'[u] # "sent"
  BY <1>3 DEF Get, GetBlank, GetError, Finish, Proceed
<1>4. ASSUME NEW t \in Task, Reply(t) \/ LoseAnswer(t) PROVE net'[u] # "sent"
  BY <1>4 DEF Reply, LoseAnswer, Finish, Abandoned
<1>5. ASSUME NEW t \in Task, ServerStep(t) PROVE net'[u] # "sent"
  BY <1>5 DEF ServerStep, ServePut, ServeMember, ServeNothing
<1>6. CASE Crash
  BY <1>6 DEF Crash, Abandoned, Active
<1>7. CASE Terminated \/ UNCHANGED vars \/ \E p \in Principal : AdminChange(p)
  BY <1>7 DEF Terminated, vars, AdminChange
<1> QED BY <1>1, <1>2, <1>3, <1>4, <1>5, <1>6, <1>7 DEF Next, ClientStep

(***************************************************************************)
(* The steps, by what AtomicProvisioning sees of them.                     *)
(***************************************************************************)

\* The end of a task is a report of what was effected or answered.
LEMMA FinishReports ==
  ASSUME TypeInv, NEW t \in Task, NEW o \in {"success", "failure"},
         pc[t] \notin {"waiting", "done"}, Finish(t, o), Unseen,
         o = "success" => net[t] \in {"applied", "blank"} \/ SkipsWrite(req[t])
  PROVE  Simulated
<1>1. StageAgrees(t)
  BY DEF TypeInv, StagesAgree
<1>2. Atomic!Report(t, o)
  BY <1>1 DEF StageAgrees, Finish, SkipsWrite, Unseen, Effected, Blank, Atomic!Report, Atomic!NoChange
<1> QED BY <1>2 DEF Simulated, Atomic!ANext

\* Before its write, a task is accepted, misread or turned down.
LEMMA BeforeWrite ==
  ASSUME PayloadInv, NEW t \in Task, Start(t) \/ Dispatch(t) \/ Get(t) \/ GetBlank(t)
                                     \/ GetError(t) \/ Send(t)
  PROVE  Simulated
<1> USE DEF PayloadInv, TypeInv, TypeOK
<1>a. StageAgrees(t)
  BY DEF StagesAgree
<1>1. CASE Start(t)
  <2>1. Atomic!Accept(t)
    BY <1>a, <1>1 DEF Start, StageAgrees, Atomic!Accept
  <2> QED BY <2>1 DEF Simulated, Atomic!ANext
<1>2. CASE Dispatch(t)
  <2>1. Unseen /\ pc[t] = "dispatch"
    BY <1>2 DEF Dispatch, Unseen, Effected, Blank
  <2>2. CASE Finish(t, "failure")
    BY <2>1, <2>2, FinishReports
  <2>3. CASE SkipsWrite(req[t]) /\ Finish(t, "success")
    BY <2>1, <2>3, FinishReports
  <2>4. CASE UNCHANGED outcome
    BY <2>1, <2>4 DEF Unseen, Effected, Blank, Simulated, Atomic!avars
  <2> QED BY <1>2, <2>2, <2>3, <2>4 DEF Dispatch, Proceed
<1>3. CASE Get(t)
  BY <1>3 DEF Get, Proceed, Simulated, Atomic!avars
<1>4. CASE GetBlank(t)
  <2>1. OnPermissions(t) /\ net[t] = "none" /\ outcome[t] = "none"
    BY <1>a, <1>4 DEF GetBlank, StageAgrees, NetState
  <2>2. Atomic!Misread(t)
    BY <1>4, <2>1, SameAsks DEF GetBlank, Proceed, Atomic!Misread, Atomic!Open
  <2> QED BY <2>2 DEF Simulated, Atomic!ANext
<1>5. CASE GetError(t)
  BY <1>5, FinishReports DEF GetError, Unseen, Effected, Blank
<1>6. CASE Send(t)
  <2>1. net[t] \notin {"applied", "blank"}
    BY <1>a, <1>6 DEF Send, StageAgrees
  <2>2. Effected' = Effected /\ Blank' = Blank
    BY <1>6, <2>1 DEF Send, Effected, Blank
  <2> QED BY <1>6, <2>2 DEF Send, Proceed, Effected, Blank, Simulated, Atomic!avars
<1> QED BY <1>1, <1>2, <1>3, <1>4, <1>5, <1>6

\* A served PUT changes what Segment holds, or overwrites it if the task is outdated.
LEMMA PutChanges ==
  ASSUME PayloadInv, SuccessIsAnswered, NEW t \in Task, ServePut(t)
  PROVE  Simulated
<1> DEFINE p == req[t].principal
<1> USE DEF PayloadInv
<1>1. p \in Principal
  BY AcceptedAccess DEF ServePut, TypeInv, StagesAgree, StageAgrees
<1>2. Pending(t, p)
  BY DEF ServePut, Pending
<1>3. access' = [access EXCEPT ![p] = payload[t]] /\ access' \in [Principal -> SUBSET Access]
  BY <1>1 DEF ServePut, TypeInv, TypeOK
<1>4. \/ access' = [access EXCEPT ![p] = Atomic!Change(req[t], @)]
      \/ t \in stale /\ Atomic!Overwrite(p) /\ access'[p] = Atomic!Change(req[t], access'[p])
  <2>1. CASE t \in stale
    <3>1. access'[p] = Atomic!Change(req[t], access'[p])
      BY <1>1, <1>2, <1>3, ChangedTwice, SameChange DEF TypeInv, TypeOK
    <3>2. Atomic!Overwrite(p)
      <4>1. Access = Atomic!Access
        BY DEF Access, Atomic!Access
      <4> QED BY <1>3, <4>1 DEF Atomic!Overwrite, Principal, TypeInv, TypeOK
    <3> QED BY <2>1, <3>1, <3>2
  <2>2. CASE t \notin stale
    <3>1. payload[t] = NewAccess(req[t], access[p])
      BY <1>1, <1>2, <2>2 DEF FreshPayload
    <3> QED BY <1>3, <3>1, SameChange
  <2> QED BY <2>1, <2>2
<1>5. \E passed \in SUBSET (Atomic!Rivals(p) \ {t}) : stale' = stale \cup passed
  <2> DEFINE passed == {u \in Task \ {t} : Pending(u, p)}
  <2>1. passed \in SUBSET (Atomic!Rivals(p) \ {t})
    BY <1>1, PendingIsRival
  <2>2. stale' = stale \cup passed
    BY DEF ServePut
  <2> QED BY <2>1, <2>2
<1>6. Atomic!Open(t, Atomic!PermissionKind)
  BY SentIsOpen DEF ServePut, SuccessIsAnswered
<1>7. /\ {s \in Task : net[s] = "applied"}' = {s \in Task : net[s] = "applied"} \cup {t}
      /\ {s \in Task : net[s] = "blank"}' = {s \in Task : net[s] = "blank"}
      /\ UNCHANGED <<members, req, outcome>>
  BY DEF ServePut, TypeInv, TypeOK
<1>8. Atomic!ChangeAccess(t)
  BY <1>4, <1>5, <1>6, <1>7 DEF Atomic!ChangeAccess
<1> QED BY <1>8 DEF Simulated, Atomic!ANext

\* A served membership request changes the members, and no other task's matters.
LEMMA MemberChanges ==
  ASSUME TypeInv, SuccessIsAnswered, NEW t \in Task, ServeMember(t)
  PROVE  Simulated
<1>1. Atomic!Open(t, {"group"})
  BY SentIsOpen DEF ServeMember, SuccessIsAnswered
<1>2. /\ {s \in Task : net[s] = "applied"}' = {s \in Task : net[s] = "applied"} \cup {t}
      /\ {s \in Task : net[s] = "blank"}' = {s \in Task : net[s] = "blank"}
  BY DEF ServeMember, TypeInv, TypeOK
<1>3. Atomic!ChangeMembers(t)
  BY <1>1, <1>2 DEF ServeMember, NewMembers, Atomic!ChangeMembers
<1> QED BY <1>3 DEF Simulated, Atomic!ANext

\* A request that is not acted on is refused, or answered blank.
LEMMA NothingChanges ==
  ASSUME TypeInv, SuccessIsAnswered, NEW t \in Task, ServeNothing(t)
  PROVE  Simulated
<1> USE DEF TypeInv, TypeOK
<1>1. /\ net[t] = "sent"
      /\ UNCHANGED <<access, members, req, stale, outcome>>
      /\ {s \in Task : net[s] = "applied"}' = {s \in Task : net[s] = "applied"}
  BY DEF ServeNothing
<1>2. CASE net' = [net EXCEPT ![t] = "refused"]
  <2>1. {s \in Task : net[s] = "blank"}' = {s \in Task : net[s] = "blank"}
    BY <1>1, <1>2
  <2> QED BY <1>1, <2>1 DEF Simulated, Atomic!avars
<1>3. CASE BlankAnswers /\ net' = [net EXCEPT ![t] = "blank"]
  <2>1. {s \in Task : net[s] = "blank"}' = {s \in Task : net[s] = "blank"} \cup {t}
    BY <1>3
  <2>2. Accepted(req[t])
    BY <1>1 DEF StagesAgree, StageAgrees
  <2>3. Atomic!Open(t, Atomic!PermissionKind \cup {"group"})
    BY <1>1, <2>2, ProvisioningAssumption
    DEF SuccessIsAnswered, StagesAgree, StageAgrees, Accepted, Atomic!Open, Atomic!Asks,
        PermissionKind, ResourceKind, Atomic!PermissionKind, Atomic!ResourceKind
  <2>4. Atomic!AnswerBlank(t)
    BY <1>1, <1>3, <2>1, <2>3 DEF Atomic!AnswerBlank
  <2> QED BY <2>4 DEF Simulated, Atomic!ANext
<1> QED BY <1>2, <1>3 DEF ServeNothing

\* The answer, lost or not, is reported.
LEMMA AnswerReports ==
  ASSUME TypeInv, NEW t \in Task, Reply(t) \/ LoseAnswer(t)
  PROVE  Simulated
<1>1. CASE Reply(t)
  <2>1. Reports(t) \in {"success", "failure"}
    BY DEF Reports
  <2>2. Reports(t) = "success" => net[t] \in {"applied", "blank"}
    BY <1>1 DEF Reply, Reports
  <2>3. Unseen /\ pc[t] = "sent" /\ Finish(t, Reports(t))
    BY <1>1 DEF Reply, Unseen, Effected, Blank
  <2> QED BY <2>1, <2>2, <2>3, FinishReports
<1>2. CASE LoseAnswer(t)
  <2>1. Unseen
    BY <1>2 DEF LoseAnswer, Abandoned, Unseen, Effected, Blank, TypeInv, TypeOK
  <2> QED BY <1>2, <2>1, FinishReports DEF LoseAnswer
<1> QED BY <1>1, <1>2

\* An administrator outdates the tasks that are to write to the same principal.
LEMMA AdminChanges ==
  ASSUME TypeInv, NEW p \in Principal, AdminChange(p)
  PROVE  Simulated
<1>1. {u \in Task : Pending(u, p)} \in SUBSET Atomic!Rivals(p)
  BY PendingIsRival
<1>2. /\ {s \in Task : net[s] = "applied"}' = {s \in Task : net[s] = "applied"}
      /\ {s \in Task : net[s] = "blank"}' = {s \in Task : net[s] = "blank"}
  BY DEF AdminChange
<1>3. Atomic!Administrate(p)
  BY <1>1, <1>2 DEF AdminChange, Atomic!Administrate
<1> QED BY <1>3 DEF Simulated, Atomic!ANext, Principal

\* Each step is one of AtomicProvisioning or a stutter.
LEMMA AtomicStep ==
  ASSUME PayloadInv, SuccessIsAnswered, [Next]_vars
  PROVE  [Atomic!ANext]_(Atomic!avars)
<1> SUFFICES Simulated
  BY DEF Simulated
<1> USE DEF PayloadInv
<1>1. CASE Crash
  <2>1. Unseen /\ UNCHANGED outcome
    BY <1>1 DEF Crash, Abandoned, Unseen, Effected, Blank
  <2> QED BY <2>1 DEF Unseen, Effected, Blank, Simulated, Atomic!avars
<1>2. CASE Terminated \/ UNCHANGED vars
  BY <1>2 DEF Terminated, vars, Simulated, Atomic!avars
<1> QED
  BY <1>1, <1>2, BeforeWrite, PutChanges, MemberChanges, NothingChanges, AnswerReports,
     AdminChanges
  DEF Next, ClientStep, ServerStep

\* Whatever tasks run at once, fail, die, are answered blank or arrive late, and whoever
\* edits permissions beside them: each change is made in one step, at most once and
\* before success is reported, and to what Segment holds unless the task is outdated.
THEOREM ProvisioningIsAtomic == Spec => AtomicSpec
<1>1. Init => Atomic!AInit /\ SuccessIsAnswered
  BY AtomicInit DEF Init, SuccessIsAnswered
<1>2. PayloadInv /\ SuccessIsAnswered /\ [Next]_vars
        => SuccessIsAnswered' /\ [Atomic!ANext]_(Atomic!avars)
  BY AtomicStep, AnsweredStep DEF PayloadInv
<1> QED BY <1>1, <1>2, PayloadInvariant, PTL DEF Spec, AtomicSpec, Atomic!ASpec
=============================================================================
