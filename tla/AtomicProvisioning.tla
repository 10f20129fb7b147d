------------------------- MODULE AtomicProvisioning -------------------------
(***************************************************************************)
(* What provisioning promises, with any number of tasks at once.  Each task*)
(* asks for one change, and the change is made in one step and at most     *)
(* once.  It is made to what Segment holds at that moment, unless the task *)
(* is outdated: somebody else changed the permissions of its principal     *)
(* while it was under way, or what it read of them was blank.  Success is  *)
(* reported only after the change, for a request that has nobody to change,*)
(* or when the answer to it was blank; failure is reported before the      *)
(* change or after it.  The members of a group have no such exception.     *)
(***************************************************************************)
EXTENDS Permissions

CONSTANTS User, Group, Task, Request, None, InitialAccess, AdminAccess, BlankAnswers

VARIABLES access,    \* the accesses of each principal
          members,   \* the users in each group
          req,       \* what each task asks for
          effected,  \* the tasks whose change has been made
          outdated,  \* the tasks that may not know their principal's accesses
          blank,     \* the tasks whose request was answered, and not acted on
          outcome    \* what each task has reported

avars == <<access, members, req, effected, outdated, blank, outcome>>

Asks(t, kinds) == req[t] # None /\ req[t].entitlement.kind \in kinds

\* There is nobody to change: the user has no login.
NoChange(r) == /\ r.entitlement.kind = "group"
               /\ r.principal \in User
               /\ r.login = "absent"

\* The tasks that are to change the permissions of p, and have not.
Rivals(p) == {u \in Task \ effected : Asks(u, PermissionKind) /\ req[u].principal = p}

Change(r, held) == IF r.op = "grant" THEN Granted(held, r.entitlement)
                                     ELSE Revoked(held, r.entitlement)

AInit ==
  /\ access \in [User \cup Group -> SUBSET InitialAccess]
  /\ members \in [Group -> SUBSET User]
  /\ req = [t \in Task |-> None]
  /\ effected = {}
  /\ outdated = {}
  /\ blank = {}
  /\ outcome = [t \in Task |-> "none"]

Accept(t) ==
  /\ req[t] = None
  /\ \E r \in Request : req' = [req EXCEPT ![t] = r]
  /\ UNCHANGED <<access, members, effected, outdated, blank, outcome>>

\* The change of t may still come: also after a failure was reported.
Open(t, kinds) == /\ Asks(t, kinds)
                  /\ outcome[t] # "success"
                  /\ t \notin effected \cup blank

\* The accesses of p, and of nobody else, become any others.
Overwrite(p) == /\ access' \in [User \cup Group -> SUBSET Access]
                /\ \A q \in (User \cup Group) \ {p} : access'[q] = access[q]

ChangeAccess(t) ==
  /\ Open(t, PermissionKind)
  /\ LET p == req[t].principal IN
     /\ \/ access' = [access EXCEPT ![p] = Change(req[t], @)]
        \/ t \in outdated /\ Overwrite(p) /\ access'[p] = Change(req[t], access'[p])
     /\ \E passed \in SUBSET (Rivals(p) \ {t}) : outdated' = outdated \cup passed
  /\ effected' = effected \cup {t}
  /\ UNCHANGED <<members, req, blank, outcome>>

ChangeMembers(t) ==
  /\ Open(t, {"group"})
  /\ members' = [members EXCEPT ![req[t].entitlement.id] =
                   IF req[t].op = "grant" THEN @ \cup {req[t].principal}
                                          ELSE @ \ {req[t].principal}]
  /\ effected' = effected \cup {t}
  /\ UNCHANGED <<access, req, outdated, blank, outcome>>

\* What t reads of its principal's permissions is blank.
Misread(t) ==
  /\ BlankAnswers
  /\ Open(t, PermissionKind)
  /\ outdated' = outdated \cup {t}
  /\ UNCHANGED <<access, members, req, effected, blank, outcome>>

\* The answer to t's change is blank, and no change is made.
AnswerBlank(t) ==
  /\ BlankAnswers
  /\ Open(t, PermissionKind \cup {"group"})
  /\ blank' = blank \cup {t}
  /\ UNCHANGED <<access, members, req, effected, outdated, outcome>>

Report(t, o) ==
  /\ req[t] # None
  /\ outcome[t] = "none"
  /\ o = "success" => t \in effected \cup blank \/ NoChange(req[t])
  /\ outcome' = [outcome EXCEPT ![t] = o]
  /\ UNCHANGED <<access, members, req, effected, outdated, blank>>

\* An administrator gives or takes one access of p.
Administrate(p) ==
  /\ \E a \in AdminAccess :
       access' = [access EXCEPT ![p] = IF a \in @ THEN @ \ {a} ELSE @ \cup {a}]
  /\ \E passed \in SUBSET Rivals(p) : outdated' = outdated \cup passed
  /\ UNCHANGED <<members, req, effected, blank, outcome>>

ANext ==
  \/ \E t \in Task : \/ Accept(t) \/ ChangeAccess(t) \/ ChangeMembers(t)
                     \/ Misread(t) \/ AnswerBlank(t)
                     \/ \E o \in {"success", "failure"} : Report(t, o)
  \/ \E p \in User \cup Group : Administrate(p)

ASpec == AInit /\ [][ANext]_avars
=============================================================================
