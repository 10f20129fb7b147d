-------------------------- MODULE LocalProvisioning --------------------------
(***************************************************************************)
(* The one-shot commands: a sync writes what the connector reads to a      *)
(* file; a grant and a revoke look up in that file, which may be outdated, *)
(* what they are about, and have the connector change it.  So what is read *)
(* and what is written have to speak of the same permissions.              *)
(*                                                                         *)
(* Each command is one step: module Sync has the steps of a sync, module   *)
(* Provisioning those of a grant or a revoke.                              *)
(***************************************************************************)
EXTENDS Connector, PermissionLists

CONSTANTS InitialLists, \* the lists of permissions that each principal may have at first
          MaxLength     \* bound on the list of each principal

Principal == Ever("user") \cup Ever("group")

\* What a permission may be on: the workspace, a function of it, and others.
Place ==
  {x \in [type : {"SOURCE", "WAREHOUSE", "SPACE", "FUNCTION", "WORKSPACE"}, id : Resource] :
     /\ x.type = "WORKSPACE" => x.id = Workspace
     /\ x.type = "FUNCTION" => x.id \in Ever("function")}
Permission == [role : Role, resources : Seq(Place)]

ASSUME LocalAssumption ==
  /\ Ever("role") = Role
  /\ UNION {Ever(kind) : kind \in ResourceKind \cup {"workspace"}} \subseteq Resource
  /\ InitialLists \in [Principal -> SUBSET Seq(Permission)]
  /\ MaxLength \in [Principal -> Nat]

VARIABLES
  permissions, \* Segment: the list of each principal
  finished,    \* the latest finished sync of the file, or Nothing
  unfinished   \* the latest unfinished one, or Nothing

vars == <<permissions, finished, unfinished>>

\* Segment as the connector sees it; resources and entitlements do not depend on who
\* holds what.
Structure == [gone |-> {}, ill |-> None, held |-> [p \in Principal |-> {}]]
World == [Structure EXCEPT !.held = [p \in Principal |-> Flatten(permissions[p])]]

\* The page tokens of the calls that read the pages of a collection, none at first.
Tokens(kind, pages) ==
  {NoToken} \cup {[kind |-> kind, cursor |-> n] : n \in DOMAIN pages \ {1}}

ListTokens(kind) == IF kind \in PagedKind THEN Tokens(kind, Pages[kind]) ELSE {NoToken}
GrantTokens(r) ==
  CASE r.kind = "workspace" -> Tokens("workspace", Pages["user"])
    [] r.kind = "group" -> Tokens("user", MemberPages[r.id])
    [] OTHER -> {NoToken}

\* What a sync finds: the workspace, its children, and what the connector says of each, page
\* by page.
Top == List("workspace", None, NoToken, Structure).items
Children(kind) ==
  UNION {List(kind, Workspace, token, Structure).items : token \in ListTokens(kind)}
Found == Top \cup UNION {Children(kind) : kind \in ChildKind}
EntitlementsOf(rs) ==
  UNION {Entitlements(r, token, Structure).items :
           r \in rs, token \in Tokens("role", Pages["role"])}
FoundEntitlements == EntitlementsOf(Found)
FoundGrants(rs, w) ==
  UNION {UNION {Grants(r, token, w).items : token \in GrantTokens(r)} : r \in rs}

\* There is no sync in the file, or none that has stored a resource.  A sync has what it
\* read so far, with the users and groups whose grants it has read; scope is what it will
\* have found in the end.
Nothing == [resources |-> {}, entitlements |-> {}, grants |-> {}, read |-> {}, scope |-> Found]

Init ==
  /\ permissions \in {l \in [Principal -> UNION {InitialLists[p] : p \in Principal}] :
                      \A p \in Principal : l[p] \in InitialLists[p]}
  /\ finished = Nothing
  /\ unfinished = Nothing

-----------------------------------------------------------------------------
\* Where the next run of the sync command goes on.
Begun == unfinished

\* The resources whose grants are read with the principal's permissions.
Holder == {r \in Found : r.kind \in {"user", "group"}}

\* The kinds in the order in which their resources are stored.  The later steps go through
\* the resources the other way round.
KindOrder == <<"workspace", "space", "warehouse", "source", "function", "role", "group", "user">>
Backwards == [i \in DOMAIN KindOrder |-> KindOrder[Len(KindOrder) + 1 - i]]

\* How far a step has come in rs that goes kind by kind.
Progress(rs, kinds) ==
  UNION {{{r \in rs : \E i \in 1 .. n - 1 : r.kind = kinds[i]} \cup part :
            part \in SUBSET {r \in rs : r.kind = kinds[n]}} : n \in DOMAIN kinds}

\* Mutant: the resumed sync starts its grants again, without what it had.
SyncAfresh ==
  /\ finished' = [resources |-> Begun.scope, entitlements |-> EntitlementsOf(Begun.scope),
                  grants |-> FoundGrants(Begun.scope \ Begun.read, World),
                  read |-> Holder \cap Begun.scope, scope |-> Begun.scope]
  /\ unfinished' = Nothing
  /\ UNCHANGED permissions

\* A sync that completes has the grants of each resource as they were when it read them,
\* which may be some runs ago.
Sync ==
  /\ finished' = [resources |-> Begun.scope, entitlements |-> EntitlementsOf(Begun.scope),
                  grants |-> Begun.grants \cup FoundGrants(Begun.scope \ Begun.read, World),
                  read |-> Holder \cap Begun.scope, scope |-> Begun.scope]
  /\ unfinished' = Nothing
  /\ UNCHANGED permissions

\* A sync that stops has some of its resources, or all of them and some of their
\* entitlements, or all of these and some of the grants.  It is resumed.
StopsInResources ==
  /\ Begun.entitlements = {}
  /\ \E rs \in Progress(Begun.scope, KindOrder) :
       Begun.resources \subseteq rs /\ unfinished' = [Begun EXCEPT !.resources = rs]

StopsInEntitlements ==
  /\ Begun.grants = {}
  /\ \E rs \in Progress(Begun.scope, Backwards) :
       unfinished' = [Begun EXCEPT !.resources = Begun.scope,
                                   !.entitlements = @ \cup EntitlementsOf(rs)]

StopsInGrants ==
  \E rs \in Progress(Begun.scope, Backwards) :
    /\ Begun.read \subseteq rs
    /\ unfinished' = [resources |-> Begun.scope, entitlements |-> EntitlementsOf(Begun.scope),
                      grants |-> Begun.grants \cup FoundGrants(rs \ Begun.read, World),
                      read |-> Holder \cap rs, scope |-> Begun.scope]

\* It is cancelled when it has stored the workspace and not yet the actions for its
\* children: whoever resumes it skips the workspace, and the children with it.
StopsAtTop ==
  /\ Begun = Nothing
  /\ unfinished' = [Nothing EXCEPT !.resources = Top, !.scope = Top]

SyncStops ==
  /\ StopsInResources \/ StopsInEntitlements \/ StopsInGrants \/ StopsAtTop
  /\ UNCHANGED <<permissions, finished>>

\* Mutant: the unfinished sync comes first.
ViewUnfinishedFirst == IF unfinished # Nothing THEN unfinished ELSE finished

\* Where a command looks things up: an unfinished sync is looked at only when there
\* is no finished one.
View == IF finished # Nothing THEN finished ELSE unfinished

\* The entitlement as the provisioner gets it, with the parent of its resource and
\* the role id in its description.
Provisioned(e) == [kind |-> e.kind, id |-> e.id, parent |-> Workspace,
                   desc |-> IF e.name \in Role THEN e.name ELSE NoRole]

\* Entitlements whose Grant and Revoke edit permissions; membership of a group is
\* in module Provisioning.
OfPermissions(e) == e.kind \in PermissionKind

Grant(e, p) ==
  /\ OfPermissions(e)
  /\ e \in View.entitlements
  /\ p \in View.resources /\ p.kind \in {"user", "group"}
  /\ Len(permissions[p.id]) < MaxLength[p.id]
  /\ permissions' = [permissions EXCEPT ![p.id] = GrantPermissions(@, Provisioned(e))]
  /\ UNCHANGED <<finished, unfinished>>

\* A grant is revoked only when its entitlement and its principal are in the file.
Revocable(view, g) ==
  /\ OfPermissions(g.entitlement)
  /\ g \in view.grants
  /\ g.entitlement \in view.entitlements
  /\ \E r \in view.resources : r.kind = g.principal.kind /\ r.id = g.principal.id

Revoke(g) ==
  /\ Revocable(View, g)
  /\ permissions' = [permissions EXCEPT ![g.principal.id] =
                       RevokePermissions(@, Provisioned(g.entitlement))]
  /\ UNCHANGED <<finished, unfinished>>

\* An administrator gives a principal other permissions: the file is outdated.
AdminEdit(p) ==
  /\ \E list \in InitialLists[p] : permissions' = [permissions EXCEPT ![p] = list]
  /\ UNCHANGED <<finished, unfinished>>

Next ==
  \/ Sync \/ SyncStops
  \/ \E e \in View.entitlements, p \in View.resources : Grant(e, p)
  \/ \E g \in View.grants : Revoke(g)
  \/ \E p \in Principal : AdminEdit(p)

Spec == Init /\ [][Next]_vars
-----------------------------------------------------------------------------
(***************************************************************************)
(* Properties.                                                             *)
(***************************************************************************)
GrantSet ==
  [entitlement : [kind : Kind, id : AnyId \cup Resource, name : Role \cup {"member"}],
   principal : {[kind |-> r.kind, id |-> r.id] : r \in Holder}]
SyncSet ==
  {x \in [resources : SUBSET Found, entitlements : SUBSET FoundEntitlements,
          grants : SUBSET GrantSet, read : SUBSET Holder, scope : {Found, Top}] :
     x.resources \subseteq x.scope /\ x.entitlements \subseteq EntitlementsOf(x.scope)}

\* Permissions are on what the workspace has, and the file speaks of what a sync finds: each
\* of its grants is of a principal that can be looked up once the sync has finished.
TypeOK ==
  /\ permissions \in [Principal -> Seq(Permission)]
  /\ finished \in SyncSet /\ unfinished \in SyncSet

\* The list of each principal after a command on the one of who.
Becomes(who, Change(_)) ==
  \A p \in Principal :
    Flatten(permissions'[p]) = IF p = who THEN Change(Flatten(permissions[p]))
                                          ELSE Flatten(permissions[p])

CommandsActOnSets ==
  /\ \A e \in View.entitlements, p \in View.resources :
       Grant(e, p) => Becomes(p.id, LAMBDA held : Granted(held, Provisioned(e)))
  /\ \A g \in View.grants :
       Revoke(g) => Becomes(g.principal.id,
                            LAMBDA held : Revoked(held, Provisioned(g.entitlement)))

\* Whatever the lists, with duplicates and with several resources in one permission, and
\* however outdated the file: a command does to the accesses of its principal what Granted
\* and Revoked say of the set, and nothing to anybody else's.
ListsActAsSets == [][CommandsActOnSets]_vars

\* The accesses whose grants are on entitlements that a sync finds: baseResource makes
\* functions of all resources but the workspace, and a function has an entitlement for
\* each role whose name says so.
Consistent(a) == \/ a.type = "WORKSPACE"
                 \/ a.type = "FUNCTION" /\ "function" \in NamesKind[a.role]

ReadCanBeRevoked ==
  \A r \in Holder \cap Begun.scope : finished' # finished /\ r \notin Begun.read =>
    \A a \in Flatten(permissions[r.id]) : Consistent(a) =>
      \E g \in finished'.grants :
        /\ g.principal.id = r.id
        /\ Revocable(finished', g)
        /\ AccessOf(Provisioned(g.entitlement)) = a

\* Each consistent access of a user or group in the file can be taken away with a revoke
\* from the sync that read it: the grant it became is on an entitlement that the file has,
\* and that stands for this very access.
SeenIsRevocable == [][ReadCanBeRevoked]_vars

\* p holds e, as a sync begun now would say.
Shows(p, e) == \E g \in FoundGrants(Found, World) : g.principal.id = p /\ g.entitlement = e

CommandIsSeen ==
  /\ \A e \in View.entitlements, p \in View.resources :
       Grant(e, p) /\ Consistent(AccessOf(Provisioned(e))) => Shows(p.id, e)'
  /\ \A g \in View.grants :
       Revoke(g) => ~Shows(g.principal.id, g.entitlement)'

\* After a grant a sync begun then has the grant that was asked for, and after a revoke it
\* has not, however outdated the file that named it.
CommandShows == [][CommandIsSeen]_vars

NothingIsTaken ==
  /\ finished' = finished =>
       /\ View.entitlements \subseteq View'.entitlements
       /\ View.resources \subseteq View'.resources
       /\ \A g \in View.grants : Revocable(View, g) => Revocable(View', g)
  /\ finished' # finished => \A g \in Begun.grants :
       g \in finished'.grants /\ (Revocable(Begun, g) => Revocable(finished', g))

\* A sync that stops takes nothing away: whatever could be granted or revoked from the
\* file before it can be after it.  And what its runs have read is in it when it completes,
\* with the entitlements and the principals to revoke it.
StopTakesNothing == [][NothingIsTaken]_vars
=============================================================================
