--------------------------- MODULE MCProvisioning ---------------------------
(* Small instances of Provisioning: one user, or two and a group, two roles, two *)
(* sources.  Each configuration picks the requests that meet.                  *)
EXTENDS Provisioning, TLC

CONSTANTS u1, u2, g1, x1,         \* principals
          admin, reader,          \* roles
          ws, s1, s2,             \* the workspace and two sources
          t1, t2, t3              \* tasks

RoleEntitlement(r) == [kind |-> "role", id |-> r, parent |-> ws, desc |-> NoRole]
SourceEntitlement(s, r) == [kind |-> "source", id |-> s, parent |-> ws, desc |-> r]
GroupEntitlement(g) == [kind |-> "group", id |-> g, parent |-> ws, desc |-> NoRole]
WorkspaceEntitlement == [kind |-> "workspace", id |-> ws, parent |-> NoRole, desc |-> NoRole]

Ask(o, p, e) == [op |-> o, principal |-> p, login |-> "present", entitlement |-> e]
Asks(o, ps, es) == {Ask(o, p, e) : p \in ps, e \in es}
Op == {"grant", "revoke"}

\* Two roles on one source, and one of them on the other source too.
SourceAccess == {SourceEntitlement(s1, admin), SourceEntitlement(s1, reader),
                 SourceEntitlement(s2, admin)}
\* Tasks that meet on one principal: three that race over four requests, and
\* two over all of them.
RaceRequests == Asks("grant", {u1}, SourceAccess)
                  \cup Asks("revoke", {u1}, {SourceEntitlement(s2, admin)})
MeetingRequests == UNION {Asks(o, {u1}, SourceAccess) : o \in Op}

\* Everything a task may ask for, the requests that are turned down included.
AllRequests ==
  UNION {Asks(o, {u1, g1}, {SourceEntitlement(s1, admin), RoleEntitlement(reader)})
           \cup Asks(o, {u1, u2, x1}, {GroupEntitlement(g1)})
           \cup Asks(o, {x1}, {SourceEntitlement(s1, admin)})
           \cup Asks(o, {u1}, {SourceEntitlement(s1, NoRole), WorkspaceEntitlement})
           \cup {[Ask(o, u1, GroupEntitlement(g1)) EXCEPT !.login = l] :
                   l \in {"absent", "untraited"}}
           : o \in Op}

NoAccess == {}
SomeAccess == {AccessOf(e) : e \in SourceAccess}
S2Access == {AccessOf(SourceEntitlement(s2, admin))}

Symmetry == Permutations(Task)
=============================================================================
