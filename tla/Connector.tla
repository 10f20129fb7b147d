------------------------------ MODULE Connector ------------------------------
(***************************************************************************)
(* The reading side of baton-segment: what List, Entitlements and Grants   *)
(* of each resource type return, page by page, for what Segment answers.   *)
(*                                                                         *)
(* An operator has the world w as its last argument: the principals that   *)
(* are gone, the accesses that are held, and the one endpoint, if any,     *)
(* that is ill and how: it answers with neither data nor errors ("blank"), *)
(* with errors beside a cursor ("both"), or with the cursor it was given   *)
(* ("same").                                                               *)
(***************************************************************************)
EXTENDS Integers, Sequences

CONSTANTS
  Workspace,    \* the id of the token's workspace
  Pages,        \* collection -> its pages, each a set of ids
  MemberPages,  \* group -> the pages of its members
  NamesKind,    \* role -> the child types its name speaks of
  NoToken,      \* the empty cursor and the empty page token
  None          \* the empty id

FunctionType == {"DESTINATION", "INSERT_DESTINATION", "SOURCE"}
PagedKind == {"user", "group", "role", "source", "warehouse", "space"}
ChildKind == PagedKind \cup {"function"}
Collection == PagedKind \cup FunctionType

\* Endpoints that are no collection: GetWorkspace, GetUser and GetGroup, and
\* ListGroupMembers.
Endpoint == Collection \cup {"workspace", "principal", "members"}
Ailment == [at : Endpoint, how : {"blank", "both", "same"}]

Everything(pages) == UNION {pages[i] : i \in DOMAIN pages}
IsPages(pages) == pages \in Seq(SUBSET Everything(pages))

\* A page token has the cursor of the next page.
PageToken == [kind : ChildKind \cup {"workspace"}, cursor : Nat]

\* Ids are not empty; the members of a group are users; the empty token is none of the
\* others.
ASSUME ConnectorAssumption ==
  /\ Workspace # None
  /\ DOMAIN Pages = Collection
  /\ \A c \in Collection : IsPages(Pages[c]) /\ None \notin Everything(Pages[c])
  /\ DOMAIN MemberPages = Everything(Pages["group"])
  /\ \A g \in DOMAIN MemberPages :
       IsPages(MemberPages[g]) /\ Everything(MemberPages[g]) \subseteq Everything(Pages["user"])
  /\ NoToken \notin Nat \cup PageToken
  /\ None \notin ChildKind \cup {"workspace"}

\* The ids of a kind that Segment ever has.
Kind == ChildKind \cup {"workspace"}
Ever(kind) ==
  CASE kind = "workspace" -> {Workspace}
    [] kind = "function" -> UNION {Everything(Pages[type]) : type \in FunctionType}
    [] OTHER -> Everything(Pages[kind])

\* The ids of a resource: a workspace that Segment answered with nothing has none.
ResourceId(kind) == Ever(kind) \cup (IF kind = "workspace" THEN {None} ELSE {})
AnyId == UNION {ResourceId(kind) : kind \in Kind}
Parent == {Workspace, None}
ResourceSet == {r \in [kind : Kind, id : AnyId, parent : Parent] : r.id \in ResourceId(r.kind)}

\* What a call returns: items and the next cursor or token, or an error.
Result(items, next) == [ok |-> TRUE, items |-> items, next |-> next]
Failure == [ok |-> FALSE, items |-> {}, next |-> NoToken]

-----------------------------------------------------------------------------
(***************************************************************************)
(* The client.                                                             *)
(***************************************************************************)
PageNumber(cursor) == IF cursor = NoToken THEN 1 ELSE cursor

IsIll(at, how, w) == w.ill # None /\ w.ill.at = at /\ w.ill.how = how

\* A GET of one page.  Errors count only when there is no next cursor, and a body
\* without data reads as the last page, an empty one.
GetPage(pages, cursor, at, w) ==
  LET n == PageNumber(cursor)
      next == IF n < Len(pages) THEN n + 1 ELSE NoToken
      items == IF n \in DOMAIN pages THEN pages[n] \ w.gone ELSE {}
  IN  CASE IsIll(at, "blank", w) -> Result({}, NoToken)
        [] IsIll(at, "both", w) -> IF next = NoToken THEN Failure ELSE Result({}, next)
        [] IsIll(at, "same", w) -> Result(items, IF cursor = NoToken THEN next ELSE cursor)
        [] OTHER -> Result(items, next)

ListUsers(cursor, w) == GetPage(Pages["user"], cursor, "user", w)
ListGroups(cursor, w) == GetPage(Pages["group"], cursor, "group", w)
ListRoles(cursor, w) == GetPage(Pages["role"], cursor, "role", w)
ListSources(cursor, w) == GetPage(Pages["source"], cursor, "source", w)
ListFunctions(type, cursor, w) == GetPage(Pages[type], cursor, type, w)

\* ListWarehouses and ListSpaces ask for the sources, and look for warehouses and
\* spaces in the answer: nothing is found, and the cursor is the sources'.
ListWarehouses(cursor, w) == [ListSources(cursor, w) EXCEPT !.items = {}]
ListSpaces(cursor, w) == [ListSources(cursor, w) EXCEPT !.items = {}]

ListGroupMembers(g, cursor, w) == GetPage(MemberPages[g], cursor, "members", w)

GetWorkspace(w) == IF IsIll("workspace", "blank", w) THEN None ELSE Workspace

\* GetUser and GetGroup, for the accesses; a blank answer is a principal without.
GetPrincipal(p, w) ==
  IF IsIll("principal", "blank", w) THEN Result({}, NoToken)
  ELSE IF p \in w.gone THEN Failure
  ELSE Result(w.held[p], NoToken)

-----------------------------------------------------------------------------
(***************************************************************************)
(* Page tokens: a bag that never holds more than one page state.           *)
(***************************************************************************)
ParsePageToken(token, kind) == IF token = NoToken THEN [kind |-> kind, cursor |-> NoToken]
                                                  ELSE token

\* Mutants: the next cursor is dropped, or the current one kept.
NextTokenNever(bag, next) == NoToken
NextTokenSame(bag, next) == IF next = NoToken THEN NoToken ELSE bag

NextToken(bag, next) == IF next = NoToken THEN NoToken ELSE [bag EXCEPT !.cursor = next]

\* The page that a call with this token asks for.
From(token) == IF token = NoToken THEN 1 ELSE PageNumber(token.cursor)

\* What a handler returns for one page of the client, turned into items.
Paged(page, bag, Convert(_)) ==
  IF page.ok THEN Result(Convert(page.items), NextToken(bag, page.next)) ELSE Failure

\* connectorbuilder takes a token that comes back for an error.
Checked(token, r) == IF token # NoToken /\ r.next = token THEN Failure ELSE r

-----------------------------------------------------------------------------
(***************************************************************************)
(* Resources, and the List of each resource type.                          *)
(***************************************************************************)
NewResource(kind, id, parent) == [kind |-> kind, id |-> id, parent |-> parent]
UserResource(id, parent) == NewResource("user", id, parent)
GroupResource(id, parent) == NewResource("group", id, parent)
RoleResource(id, parent) == NewResource("role", id, parent)
SourceResource(id, parent) == NewResource("source", id, parent)
WarehouseResource(id, parent) == NewResource("warehouse", id, parent)
SpaceResource(id, parent) == NewResource("space", id, parent)
FunctionResource(id, parent) == NewResource("function", id, parent)
WorkspaceResource(id) == NewResource("workspace", id, None)

UserList(parent, token, w) ==
  LET bag == ParsePageToken(token, "user")
  IN  Paged(ListUsers(bag.cursor, w), bag,
            LAMBDA ids : {UserResource(id, parent) : id \in ids})

GroupList(parent, token, w) ==
  LET bag == ParsePageToken(token, "group")
  IN  Paged(ListGroups(bag.cursor, w), bag,
            LAMBDA ids : {GroupResource(id, parent) : id \in ids})

RoleList(parent, token, w) ==
  LET bag == ParsePageToken(token, "role")
  IN  Paged(ListRoles(bag.cursor, w), bag,
            LAMBDA ids : {RoleResource(id, parent) : id \in ids})

SourceList(parent, token, w) ==
  LET bag == ParsePageToken(token, "source")
  IN  Paged(ListSources(bag.cursor, w), bag,
            LAMBDA ids : {SourceResource(id, parent) : id \in ids})

WarehouseList(parent, token, w) ==
  LET bag == ParsePageToken(token, "warehouse")
  IN  Paged(ListWarehouses(bag.cursor, w), bag,
            LAMBDA ids : {WarehouseResource(id, parent) : id \in ids})

SpaceList(parent, token, w) ==
  LET bag == ParsePageToken(token, "space")
  IN  Paged(ListSpaces(bag.cursor, w), bag,
            LAMBDA ids : {SpaceResource(id, parent) : id \in ids})

\* Mutant: only the first page of each type is fetched.
FunctionListFirst(parent, w) ==
  Result({FunctionResource(f, parent) :
            f \in UNION {ListFunctions(type, NoToken, w).items : type \in FunctionType}},
         NoToken)

\* The functions' List follows the cursors of each type itself, in one call.
FunctionList(parent, w) ==
  LET answers == UNION {{ListFunctions(type, IF n = 1 THEN NoToken ELSE n, w) :
                           n \in {1} \cup DOMAIN Pages[type]} : type \in FunctionType}
      found == UNION {a.items : a \in answers}
  IN  IF \A a \in answers : a.ok THEN Result({FunctionResource(f, parent) : f \in found}, NoToken)
                                 ELSE Failure

\* It does not return while a cursor leads to itself.
FunctionListHangs(w) ==
  \E type \in FunctionType : IsIll(type, "same", w) /\ Len(Pages[type]) > 1

\* The workspace is the one resource that is listed without a parent.
WorkspaceList(w) == Result({WorkspaceResource(GetWorkspace(w))}, NoToken)

List(kind, parent, token, w) ==
  IF kind = "workspace" THEN WorkspaceList(w)
  ELSE IF parent = None THEN Result({}, NoToken)
  ELSE Checked(token,
         CASE kind = "user" -> UserList(parent, token, w)
           [] kind = "group" -> GroupList(parent, token, w)
           [] kind = "role" -> RoleList(parent, token, w)
           [] kind = "source" -> SourceList(parent, token, w)
           [] kind = "warehouse" -> WarehouseList(parent, token, w)
           [] kind = "space" -> SpaceList(parent, token, w)
           [] kind = "function" -> FunctionList(parent, w))

-----------------------------------------------------------------------------
(***************************************************************************)
(* Entitlements.  One has the type and the id of its resource and a name,  *)
(* "member" or that of a role; role names are taken to be unique.          *)
(***************************************************************************)
Entitlement(kind, id, name) == [kind |-> kind, id |-> id, name |-> name]
RoleKind == {"source", "warehouse", "space", "function"}

Membership(r) == Result({Entitlement(r.kind, r.id, "member")}, NoToken)
WorkspaceEntitlements(r) == Membership(r)
GroupEntitlements(r) == Membership(r)
RoleEntitlements(r) == Membership(r)

\* createEntitlement for each role of the page whose name has the word in it.
OfRoles(r, word, token, w) ==
  LET bag == ParsePageToken(token, "role")
  IN  Paged(ListRoles(bag.cursor, w), bag,
            LAMBDA roles : {Entitlement(r.kind, r.id, x) :
                              x \in {y \in roles : word \in NamesKind[y]}})

SourceEntitlements(r, token, w) == OfRoles(r, "source", token, w)
WarehouseEntitlements(r, token, w) == OfRoles(r, "warehouse", token, w)
SpaceEntitlements(r, token, w) == OfRoles(r, "space", token, w)
FunctionEntitlements(r, token, w) == OfRoles(r, "function", token, w)

\* The request is validated: a resource without an id is refused.
Entitlements(r, token, w) ==
  IF r.id = None THEN Failure
  ELSE Checked(token,
         CASE r.kind = "user" -> Result({}, NoToken)
           [] r.kind = "workspace" -> WorkspaceEntitlements(r)
           [] r.kind = "group" -> GroupEntitlements(r)
           [] r.kind = "role" -> RoleEntitlements(r)
           [] r.kind = "source" -> SourceEntitlements(r, token, w)
           [] r.kind = "warehouse" -> WarehouseEntitlements(r, token, w)
           [] r.kind = "space" -> SpaceEntitlements(r, token, w)
           [] r.kind = "function" -> FunctionEntitlements(r, token, w))

-----------------------------------------------------------------------------
(***************************************************************************)
(* Grants.                                                                 *)
(***************************************************************************)
NewGrant(e, kind, id) == [entitlement |-> e, principal |-> [kind |-> kind, id |-> id]]

\* Mutant: a role on the workspace is an entitlement of the workspace.
EntitlementOnWorkspace(a) ==
  IF a.type = "WORKSPACE" THEN Entitlement("workspace", a.id, a.role)
                          ELSE Entitlement("function", a.id, a.role)

\* A role on the workspace is membership of the role; on anything else it is an
\* entitlement of a resource that baseResource makes, always of type function.
EntitlementOf(a) == IF a.type = "WORKSPACE" THEN Entitlement("role", a.role, "member")
                                            ELSE Entitlement("function", a.id, a.role)

PermissionGrants(kind, id, held) == {NewGrant(EntitlementOf(a), kind, id) : a \in held}

MemberGrants(r, users) ==
  {NewGrant(Entitlement(r.kind, r.id, "member"), "user", u) : u \in users}

WorkspaceGrants(r, token, w) ==
  LET bag == ParsePageToken(token, "workspace")
  IN  Paged(ListUsers(bag.cursor, w), bag, LAMBDA users : MemberGrants(r, users))

UserGrants(r, w) ==
  LET user == GetPrincipal(r.id, w)
  IN  IF user.ok THEN Result(PermissionGrants("user", r.id, user.items), NoToken) ELSE Failure

\* Mutant: the grants are taken from the users' builder as they are.
GroupGrantsAsUser(r, token, w) ==
  LET bag == ParsePageToken(token, "user")
      group == GetPrincipal(r.id, w)
  IN  IF group.ok
        THEN Paged(ListGroupMembers(r.id, bag.cursor, w), bag,
                   LAMBDA users : MemberGrants(r, users)
                                    \cup PermissionGrants("user", r.id, group.items))
        ELSE Failure

\* Each page of the members comes with all permissions of the group.
GroupGrants(r, token, w) ==
  LET bag == ParsePageToken(token, "user")
      group == GetPrincipal(r.id, w)
  IN  IF group.ok
        THEN Paged(ListGroupMembers(r.id, bag.cursor, w), bag,
                   LAMBDA users : MemberGrants(r, users)
                                    \cup PermissionGrants("group", r.id, group.items))
        ELSE Failure

\* A role's Grants is empty: they are on the users and the groups.
RoleGrants(r) == Result({}, NoToken)

Grants(r, token, w) ==
  IF r.id = None THEN Failure
  ELSE Checked(token,
         CASE r.kind = "workspace" -> WorkspaceGrants(r, token, w)
           [] r.kind = "user" -> UserGrants(r, w)
           [] r.kind = "group" -> GroupGrants(r, token, w)
           [] r.kind = "role" -> RoleGrants(r)
           [] OTHER -> Result({}, NoToken))
=============================================================================
