---------------------------- MODULE ReadingProofs ----------------------------
(***************************************************************************)
(* What a call of the connector returns, for every workspace, every page   *)
(* and everything that may be wrong with Segment's answers: the lemmas the *)
(* proofs about syncs rest on.                                             *)
(***************************************************************************)
EXTENDS Connector, TLAPS

\* The endpoint does not cut its answers short.
Sound(at, w) == w.ill = None \/ w.ill.at # at \/ w.ill.how = "same"

Token == PageToken \cup {NoToken}

(***************************************************************************)
(* One page of the client.                                                 *)
(***************************************************************************)

\* A page has ids of its collection that are not gone, and a cursor.
LEMMA PageType ==
  ASSUME NEW pages, IsPages(pages), NEW cursor \in Nat \cup {NoToken}, NEW at, NEW w
  PROVE  LET page == GetPage(pages, cursor, at, w)
         IN  /\ page.items \subseteq Everything(pages) \ w.gone
             /\ page.next \in Nat \cup {NoToken}
<1>1. Len(pages) \in Nat /\ DOMAIN pages = 1 .. Len(pages)
  BY DEF IsPages
<1>2. \A n \in DOMAIN pages : pages[n] \subseteq Everything(pages)
  BY DEF Everything
<1>3. PageNumber(cursor) \in Nat
  BY DEF PageNumber
<1> QED BY <1>1, <1>2, <1>3 DEF GetPage, Result, Failure

\* Every page at or after the one that is asked for is either in the answer or behind
\* the next cursor, unless the answer is cut short or the cursor comes back.
LEMMA PageLeavesNothing ==
  ASSUME NEW pages, IsPages(pages), NEW cursor \in Nat \cup {NoToken}, NEW at, NEW w,
         Sound(at, w), GetPage(pages, cursor, at, w).ok,
         cursor # NoToken => GetPage(pages, cursor, at, w).next # cursor,
         NEW n \in DOMAIN pages, PageNumber(cursor) <= n
  PROVE  LET page == GetPage(pages, cursor, at, w)
         IN  \/ pages[n] \ w.gone \subseteq page.items
             \/ page.next \in Nat /\ page.next <= n
<1> DEFINE page == GetPage(pages, cursor, at, w)
           m == PageNumber(cursor)
           next == IF m < Len(pages) THEN m + 1 ELSE NoToken
           items == IF m \in DOMAIN pages THEN pages[m] \ w.gone ELSE {}
<1>1. Len(pages) \in Nat /\ DOMAIN pages = 1 .. Len(pages) /\ m \in Nat /\ n \in Nat
  BY DEF IsPages, PageNumber
<1>2. ~IsIll(at, "blank", w) /\ ~IsIll(at, "both", w)
  BY DEF Sound, IsIll
<1>3. page = IF IsIll(at, "same", w)
               THEN Result(items, IF cursor = NoToken THEN next ELSE cursor)
               ELSE Result(items, next)
  BY <1>2 DEF GetPage
<1>4. page = Result(items, next)
  <2>1. CASE IsIll(at, "same", w) /\ cursor # NoToken
    <3>1. page.next = cursor
      BY <1>3, <2>1 DEF Result
    <3> QED BY <2>1, <3>1
  <2> QED BY <1>3, <2>1
<1>5. CASE m = n
  BY <1>1, <1>4, <1>5 DEF Result
<1>6. CASE m < n
  BY <1>1, <1>4, <1>6 DEF Result
<1> QED BY <1>1, <1>5, <1>6

(***************************************************************************)
(* Page tokens.                                                            *)
(***************************************************************************)

\* The bag of a token has its cursor, and the next token is one.
LEMMA BagType ==
  ASSUME NEW token \in Token, NEW kind \in Kind, NEW next \in Nat \cup {NoToken}
  PROVE  LET bag == ParsePageToken(token, kind)
         IN  /\ bag.cursor \in Nat \cup {NoToken}
             /\ PageNumber(bag.cursor) = From(token)
             /\ NextToken(bag, next) \in Token
<1> USE ConnectorAssumption
<1>1. CASE token = NoToken
  BY <1>1 DEF ParsePageToken, NextToken, Token, PageToken, From, PageNumber, Kind
<1>2. CASE token \in PageToken
  BY <1>2 DEF ParsePageToken, NextToken, Token, PageToken, From, PageNumber, Kind
<1> QED BY <1>1, <1>2 DEF Token

\* Where a page of the client is turned into one of the connector, and its token does
\* not come back: no page is left out.
LEMMA TokenLeavesNothing ==
  ASSUME NEW pages, IsPages(pages), NEW token \in Token, NEW kind \in Kind,
         NEW at, NEW w, Sound(at, w),
         NEW page, page = GetPage(pages, ParsePageToken(token, kind).cursor, at, w), page.ok,
         NEW next, next = NextToken(ParsePageToken(token, kind), page.next),
         token # NoToken => next # token,
         NEW n \in DOMAIN pages, From(token) <= n
  PROVE  \/ pages[n] \ w.gone \subseteq page.items
         \/ next # NoToken /\ From(next) <= n
<1> USE ConnectorAssumption
<1> DEFINE bag == ParsePageToken(token, kind)
<1>1. bag.cursor \in Nat \cup {NoToken} /\ PageNumber(bag.cursor) <= n
  BY BagType
<1>2. page.next \in Nat \cup {NoToken}
  BY <1>1, PageType
<1>3. bag.cursor # NoToken => page.next # bag.cursor
  <2>1. SUFFICES ASSUME bag.cursor # NoToken, page.next = bag.cursor PROVE FALSE
    OBVIOUS
  <2>2. token \in PageToken /\ bag = token
    BY <2>1 DEF ParsePageToken, Token
  <2>3. next = [token EXCEPT !.cursor = token.cursor]
    BY <2>1, <2>2 DEF NextToken
  <2>4. next = token
    BY <2>2, <2>3 DEF PageToken
  <2> QED BY <2>2, <2>4
<1>4. \/ pages[n] \ w.gone \subseteq page.items
      \/ page.next \in Nat /\ page.next <= n
  BY <1>1, <1>3, PageLeavesNothing
<1>5. ASSUME page.next \in Nat, page.next <= n
      PROVE  next # NoToken /\ From(next) <= n
  <2>1. next = [bag EXCEPT !.cursor = page.next]
    BY <1>5 DEF NextToken
  <2>2. bag \in [kind : Kind, cursor : Nat \cup {NoToken}]
    BY DEF ParsePageToken, Token, PageToken, Kind
  <2>3. next \in PageToken /\ next.cursor = page.next
    BY <1>5, <2>1, <2>2 DEF PageToken, Kind
  <2> QED BY <1>5, <2>3 DEF From, PageNumber
<1> QED BY <1>4, <1>5

(***************************************************************************)
(* List.                                                                   *)
(***************************************************************************)

\* The pages of each collection are pages.
LEMMA CollectionPages ==
  ASSUME NEW c \in Collection
  PROVE  IsPages(Pages[c]) /\ None \notin Everything(Pages[c])
BY ConnectorAssumption

\* The ids a function type lists are ids of functions.
LEMMA FunctionIds ==
  ASSUME NEW type \in FunctionType
  PROVE  Everything(Pages[type]) \subseteq Ever("function")
BY DEF Ever

\* The ids of a paged kind are those of its pages.
LEMMA PagedIds ==
  ASSUME NEW kind \in PagedKind
  PROVE  /\ kind \in Kind /\ kind \in Collection /\ kind \notin {"workspace", "function"}
         /\ Ever(kind) = Everything(Pages[kind])
         /\ ResourceId(kind) = Ever(kind)
BY DEF PagedKind, Kind, ChildKind, Collection, Ever, ResourceId

\* A page of a paged kind: its collection, or that of the sources with nothing found.
LEMMA PagedListType ==
  ASSUME NEW kind \in PagedKind, NEW parent \in Parent, NEW token \in Token, NEW w
  PROVE  LET r == List(kind, parent, token, w)
         IN  /\ \A x \in r.items : \E id \in Ever(kind) \ w.gone : x = NewResource(kind, id, parent)
             /\ r.next \in Token
<1> DEFINE r == List(kind, parent, token, w)
           cursor == ParsePageToken(token, kind).cursor
<1> USE DEF PagedKind
<1>1. cursor \in Nat \cup {NoToken}
  BY BagType, PagedIds
<1>2. ASSUME NEW c \in PagedKind
      PROVE  LET page == GetPage(Pages[c], cursor, c, w)
             IN  /\ page.items \subseteq Everything(Pages[c]) \ w.gone
                 /\ NextToken(ParsePageToken(token, kind), page.next) \in Token
  <2>1. IsPages(Pages[c])
    BY CollectionPages, PagedIds
  <2>2. GetPage(Pages[c], cursor, c, w).next \in Nat \cup {NoToken}
    BY <1>1, <2>1, PageType
  <2> QED BY <1>1, <2>1, <2>2, PageType, BagType, PagedIds
<1>3. Ever(kind) = Everything(Pages[kind])
  BY PagedIds
<1>4. CASE parent = None
  BY <1>4 DEF List, Result, Token
<1>5. CASE kind = "user" /\ parent # None
  BY <1>2, <1>3, <1>5 DEF List, Checked, UserList, Paged, ListUsers, UserResource, Result,
     Failure, Token
<1>6. CASE kind = "group" /\ parent # None
  BY <1>2, <1>3, <1>6 DEF List, Checked, GroupList, Paged, ListGroups, GroupResource, Result,
     Failure, Token
<1>7. CASE kind = "role" /\ parent # None
  BY <1>2, <1>3, <1>7 DEF List, Checked, RoleList, Paged, ListRoles, RoleResource, Result,
     Failure, Token
<1>8. CASE kind = "source" /\ parent # None
  BY <1>2, <1>3, <1>8 DEF List, Checked, SourceList, Paged, ListSources, SourceResource,
     Result, Failure, Token
<1>9. CASE kind = "warehouse" /\ parent # None
  BY <1>2, <1>3, <1>9 DEF List, Checked, WarehouseList, Paged, ListWarehouses, ListSources,
     WarehouseResource, Result, Failure, Token
<1>10. CASE kind = "space" /\ parent # None
  BY <1>2, <1>3, <1>10 DEF List, Checked, SpaceList, Paged, ListSpaces, ListSources,
     SpaceResource, Result, Failure, Token
<1> QED BY <1>4, <1>5, <1>6, <1>7, <1>8, <1>9, <1>10

\* The functions of all types and pages come at once.
LEMMA FunctionListType ==
  ASSUME NEW parent \in Parent, NEW token \in Token, NEW w
  PROVE  LET r == List("function", parent, token, w)
         IN  /\ \A x \in r.items :
                  \E id \in Ever("function") \ w.gone : x = NewResource("function", id, parent)
             /\ r.next = NoToken
<1> DEFINE r == List("function", parent, token, w)
           Answer(type, n) == ListFunctions(type, IF n = 1 THEN NoToken ELSE n, w)
<1>1. ASSUME NEW type \in FunctionType, NEW n \in {1} \cup DOMAIN Pages[type]
      PROVE  Answer(type, n).items \subseteq Ever("function") \ w.gone
  <2>1. IsPages(Pages[type])
    BY CollectionPages DEF Collection
  <2>2. n \in Nat
    BY <2>1 DEF IsPages
  <2> QED BY <2>1, <2>2, PageType, FunctionIds DEF ListFunctions
<1> DEFINE answers == UNION {{Answer(type, n) : n \in {1} \cup DOMAIN Pages[type]} : type \in FunctionType}
           found == UNION {a.items : a \in answers}
<1>2. found \subseteq Ever("function") \ w.gone
  BY <1>1
<1> DEFINE items == {FunctionResource(f, parent) : f \in found}
<1>3. \A x \in items : \E id \in Ever("function") \ w.gone : x = NewResource("function", id, parent)
  BY <1>2 DEF FunctionResource
<1>4. FunctionList(parent, w) = Failure \/ FunctionList(parent, w) = Result(items, NoToken)
  BY DEF FunctionList
<1>5. r = Failure \/ r = Result({}, NoToken) \/ r = Result(items, NoToken)
  BY <1>4 DEF List, Checked
<1> HIDE DEF items, r
<1>6. r.next = NoToken /\ (r.items = {} \/ r.items = items)
  BY <1>5 DEF Result, Failure
<1>7. \A x \in r.items : \E id \in Ever("function") \ w.gone : x = NewResource("function", id, parent)
  BY <1>3, <1>6
<1> QED BY <1>6, <1>7 DEF r

\* The workspace, or one without an id.
LEMMA WorkspaceListIs ==
  ASSUME NEW parent, NEW token, NEW w
  PROVE  List("workspace", parent, token, w) =
           [ok |-> TRUE, next |-> NoToken,
            items |-> {NewResource("workspace", IF IsIll("workspace", "blank", w) THEN None
                                                ELSE Workspace, None)}]
BY DEF List, WorkspaceList, Result, WorkspaceResource, GetWorkspace

\* A List yields resources of its kind, with ids that are not gone, and a token.
LEMMA ListType ==
  ASSUME NEW kind \in Kind, NEW parent \in Parent, NEW token \in Token, NEW w
  PROVE  LET r == List(kind, parent, token, w)
         IN  /\ r.items \subseteq ResourceSet
             /\ \A x \in r.items : x.kind = kind /\ (kind # "workspace" => x.id \in Ever(kind))
             /\ r.next \in Token
<1> DEFINE r == List(kind, parent, token, w)
<1>1. ASSUME NEW k \in Kind, NEW id \in ResourceId(k), NEW p \in Parent
      PROVE  NewResource(k, id, p) \in ResourceSet
  <2> DEFINE x == NewResource(k, id, p)
  <2>1. x.kind = k /\ x.id = id /\ x = [kind |-> k, id |-> id, parent |-> p]
    BY DEF NewResource
  <2>2. id \in AnyId
    BY DEF AnyId
  <2>3. x \in [kind : Kind, id : AnyId, parent : Parent]
    BY <2>1, <2>2
  <2>4. x.id \in ResourceId(x.kind)
    BY <2>1
  <2> QED BY <2>3, <2>4 DEF ResourceSet
<1>2. kind \in PagedKind \/ kind = "function" \/ kind = "workspace"
  BY DEF Kind, ChildKind
<1>3. CASE kind \in PagedKind
  <2>1. /\ ResourceId(kind) = Ever(kind) /\ r.next \in Token
        /\ \A x \in r.items : \E id \in Ever(kind) : x = NewResource(kind, id, parent)
    BY <1>3, PagedListType, PagedIds
  <2> HIDE DEF r
  <2>2. \A x \in r.items : x \in ResourceSet /\ x.kind = kind /\ x.id \in Ever(kind)
    BY <1>1, <2>1 DEF NewResource
  <2> QED BY <2>1, <2>2 DEF r
<1>4. CASE kind = "function"
  BY <1>1, <1>4, FunctionListType DEF NewResource, ResourceId, Token
<1>5. CASE kind = "workspace"
  <2>1. {None, Workspace} \subseteq ResourceId("workspace")
    BY DEF ResourceId, Ever
  <2>2. r.items \subseteq {NewResource("workspace", None, None), NewResource("workspace", Workspace, None)}
    BY <1>5, WorkspaceListIs
  <2>3. r.items \subseteq ResourceSet
    BY <1>1, <2>1, <2>2 DEF Parent, Kind
  <2>4. \A x \in r.items : x.kind = kind
    BY <1>5, <2>2 DEF NewResource
  <2>5. r.next = NoToken
    BY <1>5, WorkspaceListIs
  <2> QED BY <1>5, <2>3, <2>4, <2>5 DEF Token
<1> QED BY <1>2, <1>3, <1>4, <1>5

\* No id of a page that is still to come is left out by a List of the workspace's
\* children, unless Segment cuts its answer short.
LEMMA ListLeavesNothing ==
  ASSUME NEW kind \in {"user", "group", "role", "source"}, NEW token \in Token, NEW w,
         Sound(kind, w), List(kind, Workspace, token, w).ok,
         NEW n \in DOMAIN Pages[kind], From(token) <= n
  PROVE  LET r == List(kind, Workspace, token, w)
         IN  \/ \A id \in Pages[kind][n] \ w.gone : NewResource(kind, id, Workspace) \in r.items
             \/ r.next # NoToken /\ From(r.next) <= n
<1> DEFINE r == List(kind, Workspace, token, w)
           bag == ParsePageToken(token, kind)
           page == GetPage(Pages[kind], bag.cursor, kind, w)
           Good(res) == /\ page.ok
                        /\ res.items = {NewResource(kind, id, Workspace) : id \in page.items}
                        /\ res.next = NextToken(bag, page.next)
<1> USE ConnectorAssumption
<1>1. kind \in PagedKind
  BY DEF PagedKind
<1>2. r = Result({NewResource(kind, id, Workspace) : id \in page.items}, NextToken(bag, page.next))
         /\ page.ok
  <2>1. CASE kind = "user"
    BY <2>1 DEF List, Checked, UserList, Paged, ListUsers, UserResource, Result, Failure
  <2>2. CASE kind = "group"
    BY <2>2 DEF List, Checked, GroupList, Paged, ListGroups, GroupResource, Result, Failure
  <2>3. CASE kind = "role"
    BY <2>3 DEF List, Checked, RoleList, Paged, ListRoles, RoleResource, Result, Failure
  <2>4. CASE kind = "source"
    BY <2>4 DEF List, Checked, SourceList, Paged, ListSources, SourceResource, Result, Failure
  <2> QED BY <2>1, <2>2, <2>3, <2>4
<1>3. Good(r)
  BY <1>2 DEF Result
<1>4. token # NoToken => r.next # token
  <2>1. kind # "workspace" /\ Workspace # None
    BY <1>1, PagedIds
  <2> QED BY <2>1 DEF List, Checked, Failure
<1>5. \/ Pages[kind][n] \ w.gone \subseteq page.items
      \/ r.next # NoToken /\ From(r.next) <= n
  BY <1>1, <1>3, <1>4, CollectionPages, PagedIds, TokenLeavesNothing
<1> QED BY <1>3, <1>5

\* And no function at all.
LEMMA FunctionsLeaveNothing ==
  ASSUME NEW token \in Token, NEW w, \A type \in FunctionType : Sound(type, w),
         List("function", Workspace, token, w).ok, NEW id \in Ever("function") \ w.gone
  PROVE  NewResource("function", id, Workspace) \in List("function", Workspace, token, w).items
<1> DEFINE r == List("function", Workspace, token, w)
           Answer(type, n) == ListFunctions(type, IF n = 1 THEN NoToken ELSE n, w)
           answers == UNION {{Answer(type, n) : n \in {1} \cup DOMAIN Pages[type]} : type \in FunctionType}
<1>1. r = FunctionList(Workspace, w)
  BY ConnectorAssumption DEF List, Checked, Failure
<1>2. r.items = {FunctionResource(f, Workspace) : f \in UNION {a.items : a \in answers}}
  BY <1>1 DEF FunctionList, Result, Failure
<1>3. PICK type \in FunctionType : \E n \in DOMAIN Pages[type] : id \in Pages[type][n]
  BY DEF Ever, Everything
<1>n. PICK n \in DOMAIN Pages[type] : id \in Pages[type][n]
  BY <1>3
<1>4. n \in Nat /\ PageNumber(IF n = 1 THEN NoToken ELSE n) = n
  BY CollectionPages, ConnectorAssumption DEF IsPages, Collection, PageNumber
<1>5. ~IsIll(type, "blank", w) /\ ~IsIll(type, "both", w)
  BY DEF Sound, IsIll
<1>6. id \in Answer(type, n).items
  BY <1>n, <1>4, <1>5 DEF ListFunctions, GetPage, Result
<1>7. Answer(type, n) \in answers
  OBVIOUS
<1> QED BY <1>2, <1>6, <1>7 DEF FunctionResource

(***************************************************************************)
(* Entitlements.                                                           *)
(***************************************************************************)

\* Entitlements are on a resource with an id.
LEMMA EntitlementsHaveIds ==
  ASSUME NEW r, NEW token, NEW w, Entitlements(r, token, w).ok
  PROVE  r.id # None
BY DEF Entitlements, Failure

\* The names of entitlements are those of roles of the page, or of membership.
LEMMA EntitlementsType ==
  ASSUME NEW r, r.kind \in Kind, NEW token \in Token, NEW w
  PROVE  LET e == Entitlements(r, token, w)
         IN  /\ \A x \in e.items : \E name \in (Ever("role") \ w.gone) \cup {"member"} :
                  x = Entitlement(r.kind, r.id, name)
             /\ e.next \in Token
<1> DEFINE e == Entitlements(r, token, w)
           bag == ParsePageToken(token, "role")
           page == GetPage(Pages["role"], bag.cursor, "role", w)
           next == NextToken(bag, page.next)
           named == {Entitlement(r.kind, r.id, x) : x \in {y \in page.items : r.kind \in NamesKind[y]}}
           one == {Entitlement(r.kind, r.id, "member")}
<1>1. bag.cursor \in Nat \cup {NoToken} /\ IsPages(Pages["role"])
  BY BagType, CollectionPages DEF Kind, ChildKind, PagedKind, Collection
<1>2. page.items \subseteq Ever("role") \ w.gone /\ page.next \in Nat \cup {NoToken}
  BY <1>1, PageType, PagedIds DEF PagedKind
<1>3. next \in Token
  BY <1>2, BagType DEF Kind, ChildKind, PagedKind
<1>4. \/ e = Failure \/ e = Result({}, NoToken) \/ e = Result(one, NoToken)
      \/ e = Result(named, next)
  <2>1. CASE r.kind \in {"user", "workspace", "group", "role"}
    BY <2>1 DEF Entitlements, Checked, Membership, WorkspaceEntitlements, GroupEntitlements,
       RoleEntitlements
  <2>2. CASE r.kind = "source"
    BY <2>2 DEF Entitlements, Checked, SourceEntitlements, OfRoles, Paged, ListRoles
  <2>3. CASE r.kind = "warehouse"
    BY <2>3 DEF Entitlements, Checked, WarehouseEntitlements, OfRoles, Paged, ListRoles
  <2>4. CASE r.kind = "space"
    BY <2>4 DEF Entitlements, Checked, SpaceEntitlements, OfRoles, Paged, ListRoles
  <2>5. CASE r.kind = "function"
    BY <2>5 DEF Entitlements, Checked, FunctionEntitlements, OfRoles, Paged, ListRoles
  <2> QED BY <2>1, <2>2, <2>3, <2>4, <2>5 DEF Kind, ChildKind, PagedKind
<1>5. \A x \in named \cup one : \E name \in (Ever("role") \ w.gone) \cup {"member"} :
        x = Entitlement(r.kind, r.id, name)
  BY <1>2
<1> HIDE DEF e, named, one, next
<1>6. e.items \subseteq named \cup one /\ (e.next = NoToken \/ e.next = next)
  BY <1>4 DEF Result, Failure
<1> QED BY <1>3, <1>5, <1>6 DEF Token, e

\* Groups, roles and the workspace have their membership.
LEMMA MembershipIsListed ==
  ASSUME NEW r, r.kind \in {"workspace", "group", "role"}, NEW token, NEW w,
         Entitlements(r, token, w).ok
  PROVE  Entitlement(r.kind, r.id, "member") \in Entitlements(r, token, w).items
BY DEF Entitlements, Checked, Membership, WorkspaceEntitlements, GroupEntitlements,
   RoleEntitlements, Result, Failure

\* No role of a page that is still to come is left out of the entitlements.
LEMMA EntitlementsLeaveNothing ==
  ASSUME NEW r, r.kind \in RoleKind, NEW token \in Token, NEW w,
         Sound("role", w), Entitlements(r, token, w).ok,
         NEW n \in DOMAIN Pages["role"], From(token) <= n
  PROVE  LET e == Entitlements(r, token, w)
         IN  \/ \A x \in Pages["role"][n] \ w.gone :
                  r.kind \in NamesKind[x] => Entitlement(r.kind, r.id, x) \in e.items
             \/ e.next # NoToken /\ From(e.next) <= n
<1> DEFINE e == Entitlements(r, token, w)
           bag == ParsePageToken(token, "role")
           page == GetPage(Pages["role"], bag.cursor, "role", w)
           named == {Entitlement(r.kind, r.id, x) : x \in {y \in page.items : r.kind \in NamesKind[y]}}
<1>1. e = Result(named, NextToken(bag, page.next)) /\ page.ok
  <2>1. CASE r.kind = "source"
    BY <2>1 DEF Entitlements, Checked, SourceEntitlements, OfRoles, Paged, ListRoles, Failure
  <2>2. CASE r.kind = "warehouse"
    BY <2>2 DEF Entitlements, Checked, WarehouseEntitlements, OfRoles, Paged, ListRoles, Failure
  <2>3. CASE r.kind = "space"
    BY <2>3 DEF Entitlements, Checked, SpaceEntitlements, OfRoles, Paged, ListRoles, Failure
  <2>4. CASE r.kind = "function"
    BY <2>4 DEF Entitlements, Checked, FunctionEntitlements, OfRoles, Paged, ListRoles, Failure
  <2> QED BY <2>1, <2>2, <2>3, <2>4 DEF RoleKind
<1>2. e.items = named /\ e.next = NextToken(bag, page.next)
  BY <1>1 DEF Result
<1>3. token # NoToken => e.next # token
  BY ConnectorAssumption DEF Entitlements, Checked, Failure
<1>4. \/ Pages["role"][n] \ w.gone \subseteq page.items
      \/ e.next # NoToken /\ From(e.next) <= n
  BY <1>1, <1>2, <1>3, CollectionPages, TokenLeavesNothing
  DEF Kind, ChildKind, PagedKind, Collection
<1> QED BY <1>2, <1>4

(***************************************************************************)
(* Grants.                                                                 *)
(***************************************************************************)

\* Grants are of a resource with an id.
LEMMA GrantsHaveIds ==
  ASSUME NEW r, NEW token, NEW w, Grants(r, token, w).ok
  PROVE  r.id # None
BY DEF Grants, Failure

\* The accesses of a principal: what it holds, or nothing.
LEMMA PrincipalHolds ==
  ASSUME NEW p, NEW w
  PROVE  /\ GetPrincipal(p, w).items \subseteq w.held[p]
         /\ Sound("principal", w) /\ GetPrincipal(p, w).ok => GetPrincipal(p, w).items = w.held[p]
BY DEF GetPrincipal, Result, Failure, Sound, IsIll

\* The grants that a user's, a group's and the workspace's Grants may yield.
LEMMA GrantsType ==
  ASSUME NEW r, r.kind \in Kind, r.id \in Ever(r.kind), NEW token \in Token, NEW w
  PROVE  LET g == Grants(r, token, w)
         IN  /\ g.items \subseteq
                  CASE r.kind = "user" -> PermissionGrants("user", r.id, w.held[r.id])
                    [] r.kind = "group" ->
                         PermissionGrants("group", r.id, w.held[r.id])
                           \cup MemberGrants(r, Everything(MemberPages[r.id]) \ w.gone)
                    [] r.kind = "workspace" -> MemberGrants(r, Ever("user") \ w.gone)
                    [] OTHER -> {}
             /\ g.next \in Token
<1> DEFINE g == Grants(r, token, w)
<1> USE DEF Token
<1>1. CASE r.kind = "user"
  <2>1. \/ g = Failure
        \/ g = Result(PermissionGrants("user", r.id, GetPrincipal(r.id, w).items), NoToken)
    BY <1>1 DEF Grants, Checked, UserGrants
  <2>2. g.next = NoToken
    BY <2>1 DEF Result, Failure
  <2>3. g.items \subseteq PermissionGrants("user", r.id, GetPrincipal(r.id, w).items)
    BY <2>1 DEF Result, Failure
  <2>4. g.items \subseteq PermissionGrants("user", r.id, w.held[r.id])
    BY <2>3, PrincipalHolds DEF PermissionGrants
  <2> QED BY <1>1, <2>2, <2>4
<1>2. CASE r.kind = "group"
  <2> DEFINE bag == ParsePageToken(token, "user")
             page == GetPage(MemberPages[r.id], bag.cursor, "members", w)
             next == NextToken(bag, page.next)
             both == MemberGrants(r, page.items)
                       \cup PermissionGrants("group", r.id, GetPrincipal(r.id, w).items)
  <2>1. g = Failure \/ g = Result(both, next)
    BY <1>2 DEF Grants, Checked, GroupGrants, Paged, ListGroupMembers
  <2>2. IsPages(MemberPages[r.id])
    BY <1>2, PagedIds, ConnectorAssumption DEF PagedKind
  <2>3. bag.cursor \in Nat \cup {NoToken}
    BY BagType DEF Kind, ChildKind, PagedKind
  <2>4. page.items \subseteq Everything(MemberPages[r.id]) \ w.gone /\ next \in Token
    BY <2>2, <2>3, PageType, BagType DEF Kind, ChildKind, PagedKind
  <2>5. both \subseteq PermissionGrants("group", r.id, w.held[r.id])
                         \cup MemberGrants(r, Everything(MemberPages[r.id]) \ w.gone)
    BY <2>4, PrincipalHolds DEF PermissionGrants, MemberGrants
  <2> HIDE DEF both, next
  <2>6. g.items \subseteq both /\ (g.next = NoToken \/ g.next = next)
    BY <2>1 DEF Result, Failure
  <2> QED BY <1>2, <2>4, <2>5, <2>6
<1>3. CASE r.kind = "workspace"
  <2> DEFINE bag == ParsePageToken(token, "workspace")
             page == GetPage(Pages["user"], bag.cursor, "user", w)
             next == NextToken(bag, page.next)
             members == MemberGrants(r, page.items)
  <2>1. g = Failure \/ g = Result(members, next)
    BY <1>3 DEF Grants, Checked, WorkspaceGrants, Paged, ListUsers
  <2>2. IsPages(Pages["user"]) /\ bag.cursor \in Nat \cup {NoToken}
    BY BagType, CollectionPages DEF Kind, ChildKind, PagedKind, Collection
  <2>3. page.items \subseteq Ever("user") \ w.gone /\ next \in Token
    BY <2>2, PageType, BagType, PagedIds DEF Kind, ChildKind, PagedKind
  <2>4. members \subseteq MemberGrants(r, Ever("user") \ w.gone)
    BY <2>3 DEF MemberGrants
  <2> HIDE DEF members, next
  <2>5. g.items \subseteq members /\ (g.next = NoToken \/ g.next = next)
    BY <2>1 DEF Result, Failure
  <2> QED BY <1>3, <2>3, <2>4, <2>5
<1>4. CASE r.kind \notin {"user", "group", "workspace"}
  BY <1>4 DEF Grants, Checked, RoleGrants, Result, Failure
<1> QED BY <1>1, <1>2, <1>3, <1>4

\* The permissions of a user, and of a group with whichever page of its members, are all
\* there.
LEMMA PermissionsAreListed ==
  ASSUME NEW r, r.kind \in {"user", "group"}, NEW token, NEW w,
         Sound("principal", w), Grants(r, token, w).ok
  PROVE  PermissionGrants(r.kind, r.id, w.held[r.id]) \subseteq Grants(r, token, w).items
<1> DEFINE g == Grants(r, token, w)
           principal == GetPrincipal(r.id, w)
<1>1. CASE r.kind = "user"
  <2>1. g = Result(PermissionGrants("user", r.id, principal.items), NoToken) /\ principal.ok
    BY <1>1 DEF Grants, Checked, UserGrants, Failure
  <2> QED BY <1>1, <2>1, PrincipalHolds DEF Result
<1>2. CASE r.kind = "group"
  <2> DEFINE bag == ParsePageToken(token, "user")
             page == GetPage(MemberPages[r.id], bag.cursor, "members", w)
  <2>1. /\ g = Result(MemberGrants(r, page.items) \cup PermissionGrants("group", r.id, principal.items),
                      NextToken(bag, page.next))
        /\ principal.ok
    BY <1>2 DEF Grants, Checked, GroupGrants, Paged, ListGroupMembers, Failure
  <2> QED BY <1>2, <2>1, PrincipalHolds DEF Result
<1> QED BY <1>1, <1>2

\* No member on a page that is still to come is left out.
LEMMA MembersLeaveNothing ==
  ASSUME NEW r, r.kind = "group", r.id \in Ever("group"), NEW token \in Token, NEW w,
         Sound("members", w), Grants(r, token, w).ok,
         NEW n \in DOMAIN MemberPages[r.id], From(token) <= n
  PROVE  LET g == Grants(r, token, w)
         IN  \/ MemberGrants(r, MemberPages[r.id][n] \ w.gone) \subseteq g.items
             \/ g.next # NoToken /\ From(g.next) <= n
<1> DEFINE g == Grants(r, token, w)
           principal == GetPrincipal(r.id, w)
           bag == ParsePageToken(token, "user")
           page == GetPage(MemberPages[r.id], bag.cursor, "members", w)
<1>1. /\ g = Result(MemberGrants(r, page.items) \cup PermissionGrants("group", r.id, principal.items),
                    NextToken(bag, page.next))
      /\ page.ok
  BY DEF Grants, Checked, GroupGrants, Paged, ListGroupMembers, Failure
<1>2. MemberGrants(r, page.items) \subseteq g.items /\ g.next = NextToken(bag, page.next)
  BY <1>1 DEF Result
<1>3. token # NoToken => g.next # token
  BY ConnectorAssumption DEF Grants, Checked, Failure
<1>4. IsPages(MemberPages[r.id])
  BY PagedIds, ConnectorAssumption DEF PagedKind
<1>5. \/ MemberPages[r.id][n] \ w.gone \subseteq page.items
      \/ g.next # NoToken /\ From(g.next) <= n
  BY <1>1, <1>2, <1>3, <1>4, TokenLeavesNothing DEF Kind, ChildKind, PagedKind
<1> QED BY <1>2, <1>5 DEF MemberGrants

\* Nor is a user left out of the members of the workspace.
LEMMA UsersLeaveNothing ==
  ASSUME NEW r, r.kind = "workspace", NEW token \in Token, NEW w,
         Sound("user", w), Grants(r, token, w).ok,
         NEW n \in DOMAIN Pages["user"], From(token) <= n
  PROVE  LET g == Grants(r, token, w)
         IN  \/ MemberGrants(r, Pages["user"][n] \ w.gone) \subseteq g.items
             \/ g.next # NoToken /\ From(g.next) <= n
<1> DEFINE g == Grants(r, token, w)
           bag == ParsePageToken(token, "workspace")
           page == GetPage(Pages["user"], bag.cursor, "user", w)
<1>1. g = Result(MemberGrants(r, page.items), NextToken(bag, page.next)) /\ page.ok
  BY DEF Grants, Checked, WorkspaceGrants, Paged, ListUsers, Failure
<1>2. g.items = MemberGrants(r, page.items) /\ g.next = NextToken(bag, page.next)
  BY <1>1 DEF Result
<1>3. token # NoToken => g.next # token
  BY ConnectorAssumption DEF Grants, Checked, Failure
<1>4. \/ Pages["user"][n] \ w.gone \subseteq page.items
      \/ g.next # NoToken /\ From(g.next) <= n
  BY <1>1, <1>2, <1>3, CollectionPages, TokenLeavesNothing
  DEF Kind, ChildKind, PagedKind, Collection
<1> QED BY <1>2, <1>4 DEF MemberGrants

=============================================================================
