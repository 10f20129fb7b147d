----------------------------- MODULE LocalProofs -----------------------------
(***************************************************************************)
(* Proofs about LocalProvisioning, for every workspace and lists of any    *)
(* length: a command does to the list of a principal what Permissions says *)
(* of the set, what a sync finds can be revoked, and the file loses        *)
(* nothing to a sync that stops.                                           *)
(***************************************************************************)
EXTENDS LocalProvisioning, ReadingProofs, WellFoundedInduction

(***************************************************************************)
(* Induction over the natural numbers, for a set of them: every set of     *)
(* numbers has a least element.                                            *)
(***************************************************************************)

\* A number is not below itself by any descent.
LEMMA NatIsWellFounded == IsWellFoundedOn({ss \in Nat \X Nat : ss[1] < ss[2]}, Nat)
BY NatLessThanWellFounded DEF OpToRel

\* A set of numbers that is not empty has a least one.
LEMMA LeastNumber ==
  ASSUME NEW T \in SUBSET Nat, T # {}
  PROVE  \E x \in T : \A y \in T : x <= y
<1> DEFINE R == {ss \in Nat \X Nat : ss[1] < ss[2]}
<1>1. PICK x \in T : \A y \in T : ~ (<<y, x>> \in R)
  <2>1. IsWellFoundedOn(R, Nat)
    BY NatIsWellFounded
  <2> HIDE DEF R
  <2> QED BY <2>1, WFMin
<1>2. \A y \in T : ~ (y < x)
  BY <1>1
<1> QED BY <1>2

\* A set with 0 and the successor of each of its numbers has them all.
LEMMA AllNumbers ==
  ASSUME NEW T, 0 \in T, \A n \in Nat : n \in T => n + 1 \in T
  PROVE  Nat \subseteq T
<1> SUFFICES ASSUME Nat \ T # {} PROVE FALSE
  OBVIOUS
<1>1. PICK x \in Nat \ T : \A y \in Nat \ T : x <= y
  BY LeastNumber
<1>2. x # 0 /\ x - 1 \in Nat
  BY <1>1
<1>3. x - 1 \in T
  BY <1>1, <1>2
<1> QED BY <1>1, <1>2, <1>3

(***************************************************************************)
(* The lists of permissions.                                               *)
(***************************************************************************)

\* What revokePermissions has kept after n elements of the list, from what it had kept
\* after the one before.
KeptAfter(list, e, n, before) ==
  IF n = 0 THEN <<>>
  ELSE IF list[n].role = RoleOf(e) THEN before ELSE Append(before, list[n])

\* The loop has a value after each element.
LEMMA LoopExists ==
  ASSUME NEW list, Len(list) \in Nat, NEW e
  PROVE  \E g : g = [n \in 0 .. Len(list) |-> KeptAfter(list, e, n, g[n - 1])]
<1> DEFINE T == {m \in Nat : \E g : g = [n \in 0 .. m |-> KeptAfter(list, e, n, g[n - 1])]}
<1>1. 0 \in T
  <2> DEFINE g == [n \in 0 .. 0 |-> <<>>]
  <2>1. g = [n \in 0 .. 0 |-> KeptAfter(list, e, n, g[n - 1])]
    BY DEF KeptAfter
  <2> HIDE DEF g
  <2> QED BY <2>1
<1>2. ASSUME NEW m \in Nat, m \in T PROVE m + 1 \in T
  <2>1. PICK g : g = [n \in 0 .. m |-> KeptAfter(list, e, n, g[n - 1])]
    BY <1>2
  <2> DEFINE h == [n \in 0 .. m + 1 |-> IF n <= m THEN g[n]
                                        ELSE KeptAfter(list, e, m + 1, g[m])]
  <2>2. \A n \in 0 .. m : h[n] = g[n]
    OBVIOUS
  <2>3. ASSUME NEW n \in 0 .. m + 1 PROVE h[n] = KeptAfter(list, e, n, h[n - 1])
    <3>1. CASE n = 0
      BY <2>1, <2>2, <3>1 DEF KeptAfter
    <3>2. CASE n \in 1 .. m
      <4>1. h[n - 1] = g[n - 1] /\ h[n] = g[n] /\ n \in 0 .. m
        BY <2>2, <3>2
      <4>2. g[n] = KeptAfter(list, e, n, g[n - 1])
        BY <2>1, <4>1
      <4> QED BY <4>1, <4>2
    <3>3. CASE n = m + 1
      <4>1. h[n] = KeptAfter(list, e, m + 1, g[m]) /\ h[m] = g[m]
        BY <2>2, <3>3
      <4> QED BY <3>3, <4>1
    <3> QED BY <3>1, <3>2, <3>3
  <2>4. h = [n \in 0 .. m + 1 |-> h[n]]
    OBVIOUS
  <2> HIDE DEF h
  <2>5. h = [n \in 0 .. m + 1 |-> KeptAfter(list, e, n, h[n - 1])]
    BY <2>3, <2>4
  <2> QED BY <2>5
<1> HIDE DEF T
<1>3. Nat \subseteq T
  BY <1>1, <1>2, AllNumbers
<1>4. Len(list) \in T
  BY <1>3
<1> QED BY <1>4 DEF T

\* And RevokePermissions is its last.
LEMMA LoopIsRevoke ==
  ASSUME NEW list, Len(list) \in Nat, NEW e
  PROVE  \E g : /\ g = [n \in 0 .. Len(list) |-> KeptAfter(list, e, n, g[n - 1])]
                /\ RevokePermissions(list, e) = g[Len(list)]
<1> DEFINE P(f) == f = [n \in 0 .. Len(list) |-> KeptAfter(list, e, n, f[n - 1])]
           g == CHOOSE f : P(f)
<1>1. \E f : P(f)
  BY LoopExists
<1>2. RevokePermissions(list, e) = g[Len(list)]
  BY DEF RevokePermissions, KeptAfter
<1>3. P(g)
  <2> HIDE DEF P
  <2> QED BY <1>1
<1> HIDE DEF g
<1> QED BY <1>2, <1>3

\* revokePermissions keeps what is of another role, and nothing else.
LEMMA RevokeKeeps ==
  ASSUME NEW S, NEW list \in Seq(S), NEW e
  PROVE  LET new == RevokePermissions(list, e)
         IN  /\ new \in Seq(S)
             /\ {new[i] : i \in DOMAIN new} =
                  {p \in {list[i] : i \in DOMAIN list} : p.role # RoleOf(e)}
<1>1. Len(list) \in Nat /\ DOMAIN list = 1 .. Len(list)
  OBVIOUS
<1>2. PICK g : /\ g = [n \in 0 .. Len(list) |-> KeptAfter(list, e, n, g[n - 1])]
               /\ RevokePermissions(list, e) = g[Len(list)]
  BY <1>1, LoopIsRevoke
<1> DEFINE Of(s) == {s[i] : i \in DOMAIN s}
           Keeps(n) == {p \in {list[i] : i \in 1 .. n} : p.role # RoleOf(e)}
           T == {n \in Nat : n <= Len(list) => g[n] \in Seq(S) /\ Of(g[n]) = Keeps(n)}
<1>3. ASSUME NEW s \in Seq(S), NEW x \in S
      PROVE  Append(s, x) \in Seq(S) /\ Of(Append(s, x)) = Of(s) \cup {x}
  <2>1. /\ Append(s, x) \in Seq(S) /\ Len(s) \in Nat
        /\ DOMAIN s = 1 .. Len(s) /\ DOMAIN Append(s, x) = 1 .. (Len(s) + 1)
        /\ \A i \in 1 .. Len(s) : Append(s, x)[i] = s[i]
        /\ Append(s, x)[Len(s) + 1] = x
    OBVIOUS
  <2>2. 1 .. (Len(s) + 1) = (1 .. Len(s)) \cup {Len(s) + 1}
    BY <2>1
  <2> QED BY <2>1, <2>2
<1>4. ASSUME NEW n \in Nat
      PROVE  Keeps(n + 1) = IF list[n + 1].role = RoleOf(e) THEN Keeps(n)
                            ELSE Keeps(n) \cup {list[n + 1]}
  <2>1. 1 .. n + 1 = (1 .. n) \cup {n + 1}
    OBVIOUS
  <2>2. {list[i] : i \in 1 .. n + 1} = {list[i] : i \in 1 .. n} \cup {list[n + 1]}
    BY <2>1
  <2> QED BY <2>2
<1>5. Of(<<>>) = {} /\ Keeps(0) = {} /\ <<>> \in Seq(S)
  OBVIOUS
<1>6. Keeps(Len(list)) = {p \in {list[i] : i \in DOMAIN list} : p.role # RoleOf(e)}
  BY <1>1
<1> HIDE DEF Of, Keeps
<1>7. 0 \in T
  <2>1. g[0] = <<>>
    BY <1>1, <1>2 DEF KeptAfter
  <2> QED BY <1>5, <2>1
<1>8. ASSUME NEW n \in Nat, n \in T PROVE n + 1 \in T
  <2>1. SUFFICES ASSUME n + 1 <= Len(list)
                 PROVE  g[n + 1] \in Seq(S) /\ Of(g[n + 1]) = Keeps(n + 1)
    OBVIOUS
  <2>2. g[n] \in Seq(S) /\ Of(g[n]) = Keeps(n)
    BY <1>1, <1>8, <2>1
  <2> DEFINE m == n + 1
  <2>3. m \in 0 .. Len(list) /\ m # 0 /\ m - 1 = n
    BY <1>1, <2>1
  <2> HIDE DEF m
  <2>4. g[m] = KeptAfter(list, e, m, g[m - 1])
    BY <1>2, <2>3
  <2>5. g[m] = IF list[m].role = RoleOf(e) THEN g[n] ELSE Append(g[n], list[m])
    BY <2>3, <2>4 DEF KeptAfter
  <2>6. list[m] \in S
    BY <1>1, <2>3
  <2> QED BY <1>3, <1>4, <2>2, <2>5, <2>6 DEF m
<1>9. Len(list) \in T
  <2> HIDE DEF T
  <2>1. Nat \subseteq T
    BY <1>7, <1>8, AllNumbers
  <2> QED BY <1>1, <2>1
<1>10. g[Len(list)] \in Seq(S) /\ Of(g[Len(list)]) = Keeps(Len(list))
  BY <1>1, <1>9
<1> DEFINE new == RevokePermissions(list, e)
<1>11. new = g[Len(list)]
  BY <1>2
<1> HIDE DEF new
<1>12. new \in Seq(S) /\ Of(new) = {p \in {list[i] : i \in DOMAIN list} : p.role # RoleOf(e)}
  BY <1>6, <1>10, <1>11
<1> QED BY <1>12 DEF Of, new

\* The access of a permission to the i-th of its resources.
AccessAt(p, i) ==
  [role |-> p.role, type |-> p.resources[i].type, id |-> p.resources[i].id]

\* An access of a list is one of one of its permissions.
LEMMA FlattenHas ==
  ASSUME NEW list, NEW a
  PROVE  a \in Flatten(list) <=>
           \E p \in {list[i] : i \in DOMAIN list} : \E i \in DOMAIN p.resources :
             a = AccessAt(p, i)
BY DEF Flatten, AccessAt

\* On what a list amounts to, grantPermissions is Granted.
LEMMA GrantActsAsSet ==
  ASSUME NEW S, NEW list \in Seq(S), NEW e
  PROVE  Flatten(GrantPermissions(list, e)) = Granted(Flatten(list), e)
<1> DEFINE place == [type |-> AccessOf(e).type, id |-> AccessOf(e).id]
           p == [role |-> RoleOf(e), resources |-> <<place>>]
           new == GrantPermissions(list, e)
<1>1. new = Append(list, p)
  BY DEF GrantPermissions
<1>2. {new[i] : i \in DOMAIN new} = {list[i] : i \in DOMAIN list} \cup {p}
  <2> HIDE DEF p, new
  <2>1. /\ Len(list) \in Nat /\ DOMAIN list = 1 .. Len(list)
        /\ DOMAIN Append(list, p) = 1 .. (Len(list) + 1)
        /\ \A i \in 1 .. Len(list) : Append(list, p)[i] = list[i]
        /\ Append(list, p)[Len(list) + 1] = p
    OBVIOUS
  <2>2. 1 .. (Len(list) + 1) = (1 .. Len(list)) \cup {Len(list) + 1}
    BY <2>1
  <2> QED BY <1>1, <2>1, <2>2
<1>3. DOMAIN p.resources = {1} /\ AccessAt(p, 1) = AccessOf(e)
  BY DEF AccessOf, AccessAt
<1> HIDE DEF p, new
<1>4. ASSUME NEW a PROVE a \in Flatten(new) <=> a \in Flatten(list) \/ a = AccessOf(e)
  <2> DEFINE Has(q) == \E i \in DOMAIN q.resources : a = AccessAt(q, i)
  <2>1. Has(p) <=> a = AccessOf(e)
    BY <1>3
  <2>2. /\ a \in Flatten(new) <=> \E q \in {new[i] : i \in DOMAIN new} : Has(q)
        /\ a \in Flatten(list) <=> \E q \in {list[i] : i \in DOMAIN list} : Has(q)
    BY FlattenHas
  <2> HIDE DEF Has
  <2> QED BY <1>2, <2>1, <2>2
<1> QED BY <1>4 DEF Granted, new

\* And revokePermissions is Revoked.
LEMMA RevokeActsAsSet ==
  ASSUME NEW S, NEW list \in Seq(S), NEW e
  PROVE  Flatten(RevokePermissions(list, e)) = Revoked(Flatten(list), e)
<1> DEFINE new == RevokePermissions(list, e)
<1>1. {new[i] : i \in DOMAIN new} = {p \in {list[i] : i \in DOMAIN list} : p.role # RoleOf(e)}
  BY RevokeKeeps
<1> HIDE DEF new
<1>2. ASSUME NEW a PROVE a \in Flatten(new) <=> a \in Flatten(list) /\ a.role # RoleOf(e)
  <2>1. \A p, i : AccessAt(p, i).role = p.role
    BY DEF AccessAt
  <2> QED BY <1>1, <2>1, FlattenHas
<1> QED BY <1>2 DEF Revoked, new

(***************************************************************************)
(* What a sync finds.                                                      *)
(***************************************************************************)

\* Segment answers in full, and nobody is gone.
LEMMA SegmentIsWell ==
  /\ Structure.ill = None /\ Structure.gone = {} /\ World.ill = None /\ World.gone = {}
  /\ \A p \in Principal : World.held[p] = Flatten(permissions[p])
BY DEF Structure, World

\* The tokens of the pages of a collection are tokens.
LEMMA TokensAreTokens ==
  ASSUME NEW kind \in Kind, NEW pages, IsPages(pages)
  PROVE  Tokens(kind, pages) \subseteq Token
<1>1. DOMAIN pages \subseteq Nat
  BY DEF IsPages
<1> QED BY <1>1 DEF Tokens, Token, PageToken, Kind

\* The tokens that List gets.
LEMMA ListTokensType ==
  ASSUME NEW kind \in ChildKind
  PROVE  ListTokens(kind) \subseteq Token
<1>1. CASE kind \in PagedKind
  BY <1>1, TokensAreTokens, CollectionPages, PagedIds DEF ListTokens
<1>2. CASE kind \notin PagedKind
  BY <1>2 DEF ListTokens, Token
<1> QED BY <1>1, <1>2

\* What a sync finds are the workspace and resources of its kinds, with their ids.
LEMMA FoundType ==
  ASSUME NEW r \in Found
  PROVE  r.kind \in Kind /\ r.id \in Ever(r.kind)
<1> USE ConnectorAssumption
<1>1. CASE r \in Top
  <2>1. r = NewResource("workspace", Workspace, None)
    BY <1>1, WorkspaceListIs, SegmentIsWell DEF Top, IsIll
  <2> QED BY <2>1 DEF NewResource, Kind, Ever
<1>2. CASE \E kind \in ChildKind : r \in Children(kind)
  <2>0. PICK kind \in ChildKind : r \in Children(kind)
    BY <1>2
  <2>1. PICK token \in ListTokens(kind) : r \in List(kind, Workspace, token, Structure).items
    BY <2>0 DEF Children
  <2>2. token \in Token /\ kind \in Kind /\ Workspace \in Parent /\ kind # "workspace"
    BY ListTokensType DEF Kind, Parent, ChildKind, PagedKind
  <2>3. r.kind = kind /\ r.id \in Ever(kind)
    BY <2>1, <2>2, ListType
  <2> QED BY <2>2, <2>3
<1> QED BY <1>1, <1>2 DEF Found

\* The n-th page of a collection, asked for with the token that leads to it.
LEMMA PageAnswered ==
  ASSUME NEW pages, IsPages(pages), NEW n \in DOMAIN pages, NEW kind \in Kind, NEW at,
         NEW w, w.ill = None, w.gone = {}
  PROVE  \E token \in Tokens(kind, pages) :
           LET bag == ParsePageToken(token, kind)
               page == GetPage(pages, bag.cursor, at, w)
           IN  /\ page.ok /\ page.items = pages[n]
               /\ NextToken(bag, page.next) # token \/ token = NoToken
<1> USE ConnectorAssumption
<1>1. DOMAIN pages = 1 .. Len(pages) /\ Len(pages) \in Nat /\ n \in Nat
  BY DEF IsPages
<1> DEFINE token == IF n = 1 THEN NoToken ELSE [kind |-> kind, cursor |-> n]
           bag == ParsePageToken(token, kind)
           page == GetPage(pages, bag.cursor, at, w)
<1>2. token \in Tokens(kind, pages)
  BY DEF Tokens
<1>3. bag = [kind |-> kind, cursor |-> IF n = 1 THEN NoToken ELSE n]
  <2>1. n # 1 => token \in PageToken
    BY <1>1 DEF PageToken, Kind
  <2> QED BY <2>1 DEF ParsePageToken
<1>4. PageNumber(bag.cursor) = n
  BY <1>1, <1>3 DEF PageNumber
<1>5. page = Result(pages[n], IF n < Len(pages) THEN n + 1 ELSE NoToken)
  BY <1>4 DEF GetPage, IsIll
<1>6. page.ok /\ page.items = pages[n] /\ page.next = IF n < Len(pages) THEN n + 1 ELSE NoToken
  BY <1>5 DEF Result
<1>7. NextToken(bag, page.next) # token \/ token = NoToken
  <2>1. SUFFICES ASSUME token # NoToken, NextToken(bag, page.next) = token PROVE FALSE
    OBVIOUS
  <2>2. page.next = n + 1 /\ [bag EXCEPT !.cursor = n + 1] = token
    BY <1>1, <1>6, <2>1 DEF NextToken
  <2>3. token.cursor = n + 1 /\ token.cursor = n
    BY <1>3, <2>1, <2>2
  <2> QED BY <1>1, <2>3
<1> HIDE DEF token
<1> QED BY <1>2, <1>6, <1>7

\* A token leads to each user, group and role that Segment has.
LEMMA ChildIsListed ==
  ASSUME NEW kind \in {"user", "group", "role"}, NEW id \in Ever(kind),
         NEW w, w.ill = None, w.gone = {}
  PROVE  \E token \in ListTokens(kind) :
           NewResource(kind, id, Workspace) \in List(kind, Workspace, token, w).items
<1> USE ConnectorAssumption
<1>1. kind \in PagedKind /\ kind \in Kind /\ IsPages(Pages[kind])
  BY CollectionPages DEF PagedKind, ChildKind, Kind, Collection
<1>2. PICK n \in DOMAIN Pages[kind] : id \in Pages[kind][n]
  BY <1>1, PagedIds DEF Everything
<1>3. PICK token \in Tokens(kind, Pages[kind]) :
        LET bag == ParsePageToken(token, kind)
            page == GetPage(Pages[kind], bag.cursor, kind, w)
        IN  /\ page.ok /\ page.items = Pages[kind][n]
            /\ NextToken(bag, page.next) # token \/ token = NoToken
  BY <1>1, PageAnswered
<1> DEFINE bag == ParsePageToken(token, kind)
           page == GetPage(Pages[kind], bag.cursor, kind, w)
           answer == Result({NewResource(kind, x, Workspace) : x \in page.items},
                            NextToken(bag, page.next))
<1>4. List(kind, Workspace, token, w) = Checked(token, answer)
  <2>1. CASE kind = "user"
    BY <1>3, <2>1 DEF List, UserList, Paged, ListUsers, UserResource
  <2>2. CASE kind = "group"
    BY <1>3, <2>2 DEF List, GroupList, Paged, ListGroups, GroupResource
  <2>3. CASE kind = "role"
    BY <1>3, <2>3 DEF List, RoleList, Paged, ListRoles, RoleResource
  <2> QED BY <2>1, <2>2, <2>3
<1>5. Checked(token, answer) = answer
  BY <1>3 DEF Checked, Result
<1>6. NewResource(kind, id, Workspace) \in answer.items
  BY <1>2, <1>3 DEF Result
<1>7. token \in ListTokens(kind)
  BY <1>1, <1>3 DEF ListTokens
<1> HIDE DEF answer
<1> QED BY <1>4, <1>5, <1>6, <1>7

\* So a sync finds them.
LEMMA ChildIsFound ==
  ASSUME NEW kind \in {"user", "group", "role"}, NEW id \in Ever(kind)
  PROVE  NewResource(kind, id, Workspace) \in Found
<1>1. PICK token \in ListTokens(kind) :
        NewResource(kind, id, Workspace) \in List(kind, Workspace, token, Structure).items
  BY SegmentIsWell, ChildIsListed
<1>2. kind \in ChildKind
  BY DEF ChildKind, PagedKind
<1> QED BY <1>1, <1>2 DEF Found, Children

\* And every function.
LEMMA FunctionIsFound ==
  ASSUME NEW id \in Ever("function")
  PROVE  NewResource("function", id, Workspace) \in Found
<1> USE ConnectorAssumption
<1>1. ASSUME NEW w, w.ill = None, w.gone = {}
      PROVE  NewResource("function", id, Workspace) \in List("function", Workspace, NoToken, w).items
  <2> DEFINE r == List("function", Workspace, NoToken, w)
             Answer(type, n) == ListFunctions(type, IF n = 1 THEN NoToken ELSE n, w)
  <2>1. \A type \in FunctionType : Sound(type, w)
    BY <1>1 DEF Sound
  <2>2. r.ok
    <3>1. \A type, n : Answer(type, n).ok
      BY <1>1 DEF ListFunctions, GetPage, IsIll, Result
    <3>2. r = FunctionList(Workspace, w)
      BY DEF List, Checked
    <3> DEFINE answers == UNION {{Answer(type, n) : n \in {1} \cup DOMAIN Pages[type]} :
                                   type \in FunctionType}
    <3>3. \A a \in answers : a.ok
      <4> HIDE DEF Answer
      <4> QED BY <3>1
    <3>4. FunctionList(Workspace, w) =
            Result({FunctionResource(f, Workspace) : f \in UNION {a.items : a \in answers}}, NoToken)
      BY <3>3 DEF FunctionList
    <3> HIDE DEF r
    <3> QED BY <3>2, <3>4 DEF Result
  <2>3. NoToken \in Token /\ id \in Ever("function") \ w.gone
    BY <1>1 DEF Token
  <2> QED BY <2>1, <2>2, <2>3, FunctionsLeaveNothing
<1>2. NoToken \in ListTokens("function") /\ "function" \in ChildKind
  BY DEF ListTokens, PagedKind, ChildKind
<1>3. NewResource("function", id, Workspace) \in List("function", Workspace, NoToken, Structure).items
  BY <1>1, SegmentIsWell
<1> QED BY <1>2, <1>3 DEF Found, Children

\* The entitlements of a resource with roles are named for roles.
LEMMA RoleNames ==
  ASSUME NEW r, r.kind \in RoleKind, NEW token \in Token, NEW w,
         NEW e \in Entitlements(r, token, w).items
  PROVE  \E x \in Ever("role") : e = Entitlement(r.kind, r.id, x)
<1> DEFINE bag == ParsePageToken(token, "role")
           page == GetPage(Pages["role"], bag.cursor, "role", w)
           named == {Entitlement(r.kind, r.id, x) : x \in {y \in page.items : r.kind \in NamesKind[y]}}
           es == Entitlements(r, token, w)
<1>1. bag.cursor \in Nat \cup {NoToken} /\ IsPages(Pages["role"])
  BY BagType, CollectionPages DEF Kind, ChildKind, PagedKind, Collection
<1>2. page.items \subseteq Ever("role")
  <2>1. page.items \subseteq Everything(Pages["role"])
    BY <1>1, PageType
  <2> QED BY <2>1, PagedIds DEF PagedKind
<1>3. es = Failure \/ es = Result(named, NextToken(bag, page.next))
  <2>1. CASE r.kind = "source"
    BY <2>1 DEF Entitlements, Checked, SourceEntitlements, OfRoles, Paged, ListRoles
  <2>2. CASE r.kind = "warehouse"
    BY <2>2 DEF Entitlements, Checked, WarehouseEntitlements, OfRoles, Paged, ListRoles
  <2>3. CASE r.kind = "space"
    BY <2>3 DEF Entitlements, Checked, SpaceEntitlements, OfRoles, Paged, ListRoles
  <2>4. CASE r.kind = "function"
    BY <2>4 DEF Entitlements, Checked, FunctionEntitlements, OfRoles, Paged, ListRoles
  <2> QED BY <2>1, <2>2, <2>3, <2>4 DEF RoleKind
<1>4. e \in named
  <2> HIDE DEF named, es
  <2>1. es.items = {} \/ es.items = named
    BY <1>3 DEF Result, Failure
  <2> QED BY <2>1 DEF es
<1> QED BY <1>2, <1>4

\* Those of any other resource are of membership.
LEMMA MemberNames ==
  ASSUME NEW r, r.kind \in Kind \ RoleKind, NEW token, NEW w, NEW e \in Entitlements(r, token, w).items
  PROVE  e = Entitlement(r.kind, r.id, "member")
<1> DEFINE es == Entitlements(r, token, w)
           one == {Entitlement(r.kind, r.id, "member")}
<1>1. es = Failure \/ es = Result({}, NoToken) \/ es = Result(one, NoToken)
  BY DEF Entitlements, Checked, Membership, WorkspaceEntitlements, GroupEntitlements,
     RoleEntitlements, Kind, ChildKind, PagedKind, RoleKind
<1> HIDE DEF es, one
<1>2. es.items \subseteq one
  BY <1>1 DEF Result, Failure
<1> QED BY <1>2 DEF es, one

\* Entitlements are of a resource that is found, named for a role or for membership.
LEMMA FoundEntitlementType ==
  ASSUME NEW e \in FoundEntitlements
  PROVE  \E r \in Found :
           \/ r.kind \in RoleKind /\ \E x \in Ever("role") : e = Entitlement(r.kind, r.id, x)
           \/ r.kind \notin RoleKind /\ e = Entitlement(r.kind, r.id, "member")
<1>1. \E r \in Found, token \in Tokens("role", Pages["role"]) :
        e \in Entitlements(r, token, Structure).items
  <2> DEFINE Of(r, token) == Entitlements(r, token, Structure).items
  <2>1. e \in UNION {Of(r, token) : r \in Found, token \in Tokens("role", Pages["role"])}
    BY DEF FoundEntitlements, EntitlementsOf
  <2> HIDE DEF Of
  <2>2. \E r \in Found, token \in Tokens("role", Pages["role"]) : e \in Of(r, token)
    BY <2>1
  <2> QED BY <2>2 DEF Of
<1>2. PICK r \in Found, token \in Tokens("role", Pages["role"]) :
        e \in Entitlements(r, token, Structure).items
  BY <1>1
<1>3. r.kind \in Kind /\ token \in Token
  BY FoundType, TokensAreTokens, CollectionPages DEF Kind, ChildKind, PagedKind, Collection
<1>4. CASE r.kind \in RoleKind
  BY <1>2, <1>3, <1>4, RoleNames
<1>5. CASE r.kind \notin RoleKind
  BY <1>2, <1>3, <1>5, MemberNames
<1> QED BY <1>4, <1>5

\* A grant that a sync finds is one of a permission of its principal, or of a member of
\* a group or of the workspace.
LEMMA FoundGrantType ==
  ASSUME NEW rs \in SUBSET Found, NEW w, NEW g \in FoundGrants(rs, w)
  PROVE  \E r \in rs :
           \/ /\ r.kind \in {"user", "group"}
              /\ g \in PermissionGrants(r.kind, r.id, w.held[r.id])
           \/ /\ r.kind \in {"group", "workspace"}
              /\ \E u \in Ever("user") : g = NewGrant(Entitlement(r.kind, r.id, "member"), "user", u)
<1> USE ConnectorAssumption
<1>0. PICK r \in rs : g \in UNION {Grants(r, token, w).items : token \in GrantTokens(r)}
  BY DEF FoundGrants
<1>1. PICK token \in GrantTokens(r) : g \in Grants(r, token, w).items
  BY <1>0
<1>2. r.kind \in Kind /\ r.id \in Ever(r.kind)
  BY FoundType
<1>3. token \in Token
  <2>1. CASE r.kind = "workspace"
    BY <2>1, TokensAreTokens, CollectionPages DEF GrantTokens, Kind, Collection, PagedKind
  <2>2. CASE r.kind = "group"
    <3>1. IsPages(MemberPages[r.id])
      BY <1>2, <2>2, PagedIds DEF PagedKind
    <3> QED BY <2>2, <3>1, TokensAreTokens DEF GrantTokens, Kind, ChildKind, PagedKind
  <2>3. CASE r.kind \notin {"workspace", "group"}
    BY <2>3 DEF GrantTokens, Token
  <2> QED BY <2>1, <2>2, <2>3
<1>4. Grants(r, token, w).items \subseteq
        CASE r.kind = "user" -> PermissionGrants("user", r.id, w.held[r.id])
          [] r.kind = "group" ->
               PermissionGrants("group", r.id, w.held[r.id])
                 \cup MemberGrants(r, Everything(MemberPages[r.id]) \ w.gone)
          [] r.kind = "workspace" -> MemberGrants(r, Ever("user") \ w.gone)
          [] OTHER -> {}
  BY <1>2, <1>3, GrantsType
<1>5. CASE r.kind = "user"
  BY <1>1, <1>4, <1>5
<1>6. CASE r.kind = "group"
  <2>1. r.id \in DOMAIN MemberPages
    BY <1>2, <1>6, PagedIds DEF PagedKind
  <2>2. Everything(MemberPages[r.id]) \subseteq Ever("user")
    BY <2>1, PagedIds DEF PagedKind
  <2>3. g \in PermissionGrants("group", r.id, w.held[r.id]) \/ g \in MemberGrants(r, Ever("user"))
    BY <1>1, <1>4, <1>6, <2>2 DEF MemberGrants
  <2> QED BY <1>6, <2>3 DEF MemberGrants
<1>7. CASE r.kind = "workspace"
  BY <1>1, <1>4, <1>7 DEF MemberGrants
<1>8. CASE r.kind \notin {"user", "group", "workspace"}
  BY <1>1, <1>4, <1>8
<1> QED BY <1>5, <1>6, <1>7, <1>8

(***************************************************************************)
(* The invariant: the file speaks of what a sync finds.                    *)
(***************************************************************************)

\* The accesses that permissions may amount to.
Placed == {a \in Access : /\ a.type = "WORKSPACE" => a.id = Workspace
                          /\ a.type = "FUNCTION" => a.id \in Ever("function")}

LEMMA AccessesArePlaced ==
  ASSUME NEW list \in Seq(Permission), NEW a \in Flatten(list)
  PROVE  a \in Placed
<1>1. PICK p \in {list[i] : i \in DOMAIN list} : \E i \in DOMAIN p.resources : a = AccessAt(p, i)
  BY FlattenHas
<1>2. PICK i \in DOMAIN p.resources : a = AccessAt(p, i)
  BY <1>1
<1>3. p \in Permission
  BY <1>1
<1>4. p.role \in Role /\ p.resources[i] \in Place
  BY <1>2, <1>3 DEF Permission
<1> QED BY <1>2, <1>4 DEF AccessAt, Placed, Access, Place

\* What the users and groups of the file are.
LEMMA HolderIsPrincipal ==
  ASSUME NEW r \in Found, r.kind \in {"user", "group"}
  PROVE  r \in Holder /\ r.id \in Ever(r.kind) /\ r.id \in Principal
BY FoundType DEF Holder, Principal

\* The grants of a sync are of principals that it finds.
LEMMA FoundGrantsTyped ==
  ASSUME permissions \in [Principal -> Seq(Permission)], NEW rs \in SUBSET Found
  PROVE  FoundGrants(rs, World) \subseteq GrantSet
<1> SUFFICES ASSUME NEW g \in FoundGrants(rs, World) PROVE g \in GrantSet
  OBVIOUS
<1> DEFINE Who == {[kind |-> r.kind, id |-> r.id] : r \in Holder}
           What == [kind : Kind, id : AnyId \cup Resource, name : Role \cup {"member"}]
<1>1. PICK r \in rs :
        \/ /\ r.kind \in {"user", "group"}
           /\ g \in PermissionGrants(r.kind, r.id, World.held[r.id])
        \/ /\ r.kind \in {"group", "workspace"}
           /\ \E u \in Ever("user") : g = NewGrant(Entitlement(r.kind, r.id, "member"), "user", u)
  BY FoundGrantType
<1>2. CASE r.kind \in {"user", "group"} /\ g \in PermissionGrants(r.kind, r.id, World.held[r.id])
  <2>1. r \in Holder /\ r.id \in Principal
    BY <1>2, HolderIsPrincipal
  <2>2. PICK a \in Flatten(permissions[r.id]) : g = NewGrant(EntitlementOf(a), r.kind, r.id)
    BY <1>2, <2>1, SegmentIsWell DEF PermissionGrants
  <2>3. a \in Access
    BY <2>1, <2>2, AccessesArePlaced DEF Placed
  <2>4. EntitlementOf(a) \in What
    BY <2>3, LocalAssumption
    DEF EntitlementOf, Entitlement, Access, Kind, ChildKind, PagedKind, AnyId, ResourceId
  <2>5. [kind |-> r.kind, id |-> r.id] \in Who
    BY <2>1
  <2> HIDE DEF Who, What
  <2>6. g \in [entitlement : What, principal : Who]
    BY <2>2, <2>4, <2>5 DEF NewGrant
  <2> QED BY <2>6 DEF GrantSet, Who, What
<1>3. ASSUME r.kind \in {"group", "workspace"}, NEW u \in Ever("user"),
             g = NewGrant(Entitlement(r.kind, r.id, "member"), "user", u)
      PROVE  g \in GrantSet
  <2>1. NewResource("user", u, Workspace) \in Holder
    BY ChildIsFound DEF Holder, NewResource
  <2>2. [kind |-> "user", id |-> u] \in Who
    BY <2>1 DEF NewResource
  <2>3. r.kind \in Kind /\ r.id \in AnyId
    BY FoundType DEF AnyId, ResourceId
  <2>4. Entitlement(r.kind, r.id, "member") \in What
    BY <2>3 DEF Entitlement
  <2> HIDE DEF Who, What
  <2>5. g \in [entitlement : What, principal : Who]
    BY <1>3, <2>2, <2>4 DEF NewGrant
  <2> QED BY <2>5 DEF GrantSet, Who, What
<1> QED BY <1>1, <1>2, <1>3

\* A grant of the file is of somebody who has a list.
LEMMA GranteeIsPrincipal ==
  ASSUME NEW g \in GrantSet
  PROVE  g.principal.id \in Principal
<1>1. PICK r \in Holder : g.principal = [kind |-> r.kind, id |-> r.id]
  BY DEF GrantSet
<1>2. r \in Found /\ r.kind \in {"user", "group"}
  BY DEF Holder
<1> QED BY <1>1, <1>2, HolderIsPrincipal

\* An entitlement of the file stands for an access to something that there is.
LEMMA ProvisionedIsPlaced ==
  ASSUME NEW e \in FoundEntitlements, OfPermissions(e)
  PROVE  AccessOf(Provisioned(e)) \in Placed
<1>1. PICK r \in Found :
        \/ r.kind \in RoleKind /\ \E x \in Ever("role") : e = Entitlement(r.kind, r.id, x)
        \/ r.kind \notin RoleKind /\ e = Entitlement(r.kind, r.id, "member")
  BY FoundEntitlementType
<1>2. r.kind \in Kind /\ r.id \in Ever(r.kind) /\ e.kind = r.kind /\ e.id = r.id
  BY <1>1, FoundType DEF Entitlement
<1>3. /\ \A kind \in ResourceKind : Ever(kind) \subseteq Resource
      /\ Ever("workspace") = {Workspace} /\ Workspace \in Resource /\ Ever("role") = Role
  BY LocalAssumption DEF Ever
<1>4. CASE e.kind = "role"
  BY <1>2, <1>3, <1>4
  DEF Provisioned, AccessOf, RoleOf, SegmentType, Placed, Access
<1>5. CASE e.kind \in ResourceKind
  <2>1. e.kind \in RoleKind /\ e.name \in Role
    BY <1>1, <1>2, <1>3, <1>5 DEF ResourceKind, RoleKind, Entitlement
  <2>2. RoleOf(Provisioned(e)) \in Role /\ e.id \in Resource
    BY <1>2, <1>3, <1>5, <2>1 DEF Provisioned, RoleOf, ResourceKind
  <2> QED BY <1>2, <1>5, <2>2
      DEF Provisioned, AccessOf, SegmentType, Placed, Access, ResourceKind
<1> QED BY <1>4, <1>5 DEF OfPermissions, PermissionKind

\* The file as it is looked into.
LEMMA ViewType ==
  ASSUME TypeOK
  PROVE  View \in SyncSet /\ Begun \in SyncSet
BY DEF TypeOK, View, Begun

LEMMA NothingType == Nothing \in SyncSet
BY DEF Nothing, SyncSet

\* A step gets no further than the resources it goes through.
LEMMA ProgressWithin ==
  ASSUME NEW rs, NEW kinds, NEW done \in Progress(rs, kinds)
  PROVE  done \subseteq rs
<1> DEFINE Before(n) == {r \in rs : \E i \in 1 .. n - 1 : r.kind = kinds[i]}
           At(n) == {r \in rs : r.kind = kinds[n]}
<1>1. PICK n \in DOMAIN kinds : done \in {Before(n) \cup part : part \in SUBSET At(n)}
  BY DEF Progress
<1>2. Before(n) \subseteq rs /\ At(n) \subseteq rs
  OBVIOUS
<1> HIDE DEF Before, At
<1> QED BY <1>1, <1>2

\* More resources have more entitlements.
LEMMA EntitlementsGrow ==
  ASSUME NEW less, NEW more, less \subseteq more
  PROVE  EntitlementsOf(less) \subseteq EntitlementsOf(more)
<1> DEFINE Of(r, token) == Entitlements(r, token, Structure).items
           All(rs) == UNION {Of(r, token) : r \in rs, token \in Tokens("role", Pages["role"])}
<1>1. \A rs : EntitlementsOf(rs) = All(rs)
  BY DEF EntitlementsOf
<1>2. All(less) \subseteq All(more)
  <2> HIDE DEF Of
  <2> QED OBVIOUS
<1> HIDE DEF All
<1> QED BY <1>1, <1>2

\* What a sync has is in its scope, which is of what there is to find.
LEMMA ScopeType ==
  ASSUME NEW x \in SyncSet
  PROVE  /\ x.scope \in {Found, Top} /\ x.scope \subseteq Found
         /\ x.resources \subseteq x.scope
         /\ x.entitlements \subseteq EntitlementsOf(x.scope)
         /\ EntitlementsOf(x.scope) \subseteq FoundEntitlements
         /\ x.grants \subseteq GrantSet /\ x.read \subseteq Holder
<1>1. x.scope \in {Found, Top} /\ Top \subseteq Found
  BY DEF SyncSet, Found
<1>2. x.scope \subseteq Found
  BY <1>1
<1>3. EntitlementsOf(x.scope) \subseteq FoundEntitlements
  BY <1>2, EntitlementsGrow DEF FoundEntitlements
<1> QED BY <1>1, <1>2, <1>3 DEF SyncSet

\* A sync with all of its resources and entitlements, and some of its grants.
LEMMA ReadingType ==
  ASSUME permissions \in [Principal -> Seq(Permission)], NEW x \in SyncSet, NEW rs \in SUBSET Found,
         NEW read \in SUBSET Holder
  PROVE  [resources |-> x.scope, entitlements |-> EntitlementsOf(x.scope),
          grants |-> x.grants \cup FoundGrants(rs, World), read |-> read, scope |-> x.scope] \in SyncSet
<1>1. FoundGrants(rs, World) \subseteq GrantSet
  BY FoundGrantsTyped
<1> QED BY <1>1, ScopeType DEF SyncSet

\* A sync that stops has what it had before, and is of the same shape.
LEMMA StopsType ==
  ASSUME TypeOK, SyncStops
  PROVE  /\ unfinished' \in SyncSet
         /\ Begun.resources \subseteq unfinished'.resources
         /\ Begun.entitlements \subseteq unfinished'.entitlements
         /\ Begun.grants \subseteq unfinished'.grants
<1>1. Begun \in SyncSet /\ permissions \in [Principal -> Seq(Permission)]
  BY ViewType DEF TypeOK
<1>2. /\ Begun.scope \in {Found, Top} /\ Begun.scope \subseteq Found
      /\ Begun.resources \subseteq Begun.scope
      /\ Begun.entitlements \subseteq EntitlementsOf(Begun.scope)
      /\ EntitlementsOf(Begun.scope) \subseteq FoundEntitlements
      /\ Begun.grants \subseteq GrantSet /\ Begun.read \subseteq Holder
  BY <1>1, ScopeType
<1>3. CASE StopsInResources
  <2>1. PICK rs \in Progress(Begun.scope, KindOrder) :
          Begun.resources \subseteq rs /\ unfinished' = [Begun EXCEPT !.resources = rs]
    BY <1>3 DEF StopsInResources
  <2>2. rs \subseteq Begun.scope
    BY <2>1, ProgressWithin
  <2> QED BY <1>1, <1>2, <2>1, <2>2 DEF SyncSet
<1>4. CASE StopsInEntitlements
  <2>1. PICK rs \in Progress(Begun.scope, Backwards) :
          unfinished' = [Begun EXCEPT !.resources = Begun.scope,
                                      !.entitlements = @ \cup EntitlementsOf(rs)]
    BY <1>4 DEF StopsInEntitlements
  <2>2. EntitlementsOf(rs) \subseteq EntitlementsOf(Begun.scope)
    BY <2>1, ProgressWithin, EntitlementsGrow
  <2> QED BY <1>1, <1>2, <2>1, <2>2 DEF SyncSet
<1>5. CASE StopsInGrants
  <2>1. PICK rs \in Progress(Begun.scope, Backwards) :
          unfinished' = [resources |-> Begun.scope, entitlements |-> EntitlementsOf(Begun.scope),
                         grants |-> Begun.grants \cup FoundGrants(rs \ Begun.read, World),
                         read |-> Holder \cap rs, scope |-> Begun.scope]
    BY <1>5 DEF StopsInGrants
  <2>2. rs \ Begun.read \in SUBSET Found /\ Holder \cap rs \in SUBSET Holder
    BY <1>2, <2>1, ProgressWithin
  <2>3. unfinished' \in SyncSet
    BY <1>1, <2>1, <2>2, ReadingType
  <2> QED BY <1>2, <2>1, <2>3
<1>6. CASE StopsAtTop
  <2>1. Begun = Nothing /\ unfinished' = [Nothing EXCEPT !.resources = Top, !.scope = Top]
    BY <1>6 DEF StopsAtTop
  <2>2. unfinished' = [resources |-> Top, entitlements |-> {}, grants |-> {}, read |-> {}, scope |-> Top]
    BY <2>1 DEF Nothing
  <2>3. Top \subseteq Found
    BY DEF Found
  <2>4. unfinished' \in SyncSet
    BY <2>2, <2>3 DEF SyncSet
  <2> QED BY <2>1, <2>4 DEF Nothing
<1> QED BY <1>3, <1>4, <1>5, <1>6 DEF SyncStops

\* So has one that completes.
LEMMA SyncType ==
  ASSUME TypeOK, Sync
  PROVE  /\ finished' \in SyncSet
         /\ Begun.resources \subseteq finished'.resources
         /\ Begun.entitlements \subseteq finished'.entitlements
         /\ Begun.grants \subseteq finished'.grants
<1>1. Begun \in SyncSet /\ permissions \in [Principal -> Seq(Permission)]
  BY ViewType DEF TypeOK
<1>2. Begun.scope \ Begun.read \in SUBSET Found /\ Holder \cap Begun.scope \in SUBSET Holder
  BY <1>1, ScopeType
<1>3. finished' = [resources |-> Begun.scope, entitlements |-> EntitlementsOf(Begun.scope),
                   grants |-> Begun.grants \cup FoundGrants(Begun.scope \ Begun.read, World),
                   read |-> Holder \cap Begun.scope, scope |-> Begun.scope]
  BY DEF Sync
<1>4. finished' \in SyncSet
  BY <1>1, <1>2, <1>3, ReadingType
<1>5. Begun.resources \subseteq Begun.scope /\ Begun.entitlements \subseteq EntitlementsOf(Begun.scope)
  BY <1>1, ScopeType
<1> QED BY <1>3, <1>4, <1>5

THEOREM LocalTypes == Spec => []TypeOK
<1> USE DEF TypeOK
<1>1. Init => TypeOK
  <2>1. SUFFICES ASSUME Init PROVE TypeOK
    OBVIOUS
  <2>2. permissions \in [Principal -> UNION {InitialLists[p] : p \in Principal}]
    BY <2>1 DEF Init
  <2>3. \A p \in Principal : permissions[p] \in Seq(Permission)
    BY <2>1, LocalAssumption DEF Init
  <2>4. permissions \in [Principal -> Seq(Permission)]
    BY <2>2, <2>3
  <2> QED BY <2>1, <2>4, NothingType DEF Init
<1>2. TypeOK /\ [Next]_vars => TypeOK'
  <2> SUFFICES ASSUME TypeOK, [Next]_vars PROVE TypeOK'
    OBVIOUS
  <2>2. Begun \in SyncSet /\ View \in SyncSet
    BY ViewType
  <2>3. CASE Sync
    BY <2>3, SyncType, NothingType DEF Sync
  <2>4. CASE SyncStops
    BY <2>4, StopsType DEF SyncStops
  <2>5. ASSUME NEW e \in View.entitlements, NEW p \in View.resources, Grant(e, p) PROVE TypeOK'
    <3>1. p.id \in Principal /\ e \in FoundEntitlements
      BY <2>2, <2>5, ScopeType, HolderIsPrincipal DEF Grant
    <3> DEFINE a == AccessOf(Provisioned(e))
               new == [role |-> RoleOf(Provisioned(e)), resources |-> <<[type |-> a.type, id |-> a.id]>>]
    <3>2. a \in Placed /\ a.role = RoleOf(Provisioned(e))
      BY <2>5, <3>1, ProvisionedIsPlaced DEF Grant, AccessOf
    <3> HIDE DEF a
    <3>3. [type |-> a.type, id |-> a.id] \in Place
      BY <3>2 DEF Placed, Access, Place
    <3>4. new \in Permission
      BY <3>2, <3>3 DEF Permission, Placed, Access
    <3>5. GrantPermissions(permissions[p.id], Provisioned(e)) = Append(permissions[p.id], new)
      BY DEF GrantPermissions, a
    <3> HIDE DEF new
    <3>6. Append(permissions[p.id], new) \in Seq(Permission)
      BY <3>1, <3>4
    <3> QED BY <2>5, <3>1, <3>5, <3>6 DEF Grant
  <2>6. ASSUME NEW g \in View.grants, Revoke(g) PROVE TypeOK'
    <3>1. g.principal.id \in Principal
      BY <2>2, ScopeType, GranteeIsPrincipal
    <3>2. RevokePermissions(permissions[g.principal.id], Provisioned(g.entitlement)) \in Seq(Permission)
      BY <3>1, RevokeKeeps
    <3> QED BY <2>6, <3>1, <3>2 DEF Revoke
  <2>7. ASSUME NEW p \in Principal, AdminEdit(p) PROVE TypeOK'
    <3>1. PICK list \in InitialLists[p] : permissions' = [permissions EXCEPT ![p] = list]
      BY <2>7 DEF AdminEdit
    <3>2. list \in Seq(Permission)
      BY LocalAssumption
    <3> QED BY <2>7, <3>1, <3>2 DEF AdminEdit
  <2>8. CASE UNCHANGED vars
    BY <2>8 DEF vars
  <2> QED BY <2>3, <2>4, <2>5, <2>6, <2>7, <2>8 DEF Next
<1> QED BY <1>1, <1>2, PTL DEF Spec

(***************************************************************************)
(* What a command does to the accesses.                                    *)
(***************************************************************************)

\* Whatever the list, Granted and Revoked say what becomes of its accesses.
LEMMA CommandsActAsSets ==
  ASSUME TypeOK
  PROVE  CommandsActOnSets
<1>1. /\ View \in SyncSet /\ permissions \in [Principal -> Seq(Permission)]
  BY ViewType DEF TypeOK
<1>2. ASSUME NEW e \in View.entitlements, NEW p \in View.resources, Grant(e, p)
      PROVE  Becomes(p.id, LAMBDA held : Granted(held, Provisioned(e)))
  <2>1. p.id \in Principal
    BY <1>1, <1>2, ScopeType, HolderIsPrincipal DEF Grant
  <2>2. permissions' = [permissions EXCEPT ![p.id] = GrantPermissions(@, Provisioned(e))]
    BY <1>2 DEF Grant
  <2>3. Flatten(GrantPermissions(permissions[p.id], Provisioned(e)))
          = Granted(Flatten(permissions[p.id]), Provisioned(e))
    BY <1>1, <2>1, GrantActsAsSet
  <2> QED BY <1>1, <2>1, <2>2, <2>3 DEF Becomes
<1>3. ASSUME NEW g \in View.grants, Revoke(g)
      PROVE  Becomes(g.principal.id, LAMBDA held : Revoked(held, Provisioned(g.entitlement)))
  <2> DEFINE who == g.principal.id
             e == Provisioned(g.entitlement)
  <2>1. who \in Principal
    BY <1>1, ScopeType, GranteeIsPrincipal
  <2>2. permissions' = [permissions EXCEPT ![who] = RevokePermissions(@, e)]
    BY <1>3 DEF Revoke
  <2>3. Flatten(RevokePermissions(permissions[who], e)) = Revoked(Flatten(permissions[who]), e)
    BY <1>1, <2>1, RevokeActsAsSet
  <2> QED BY <1>1, <2>1, <2>2, <2>3 DEF Becomes
<1> QED BY <1>2, <1>3 DEF CommandsActOnSets

THEOREM ListsAreSets == Spec => ListsActAsSets
<1>1. TypeOK /\ [Next]_vars => [CommandsActOnSets]_vars
  BY CommandsActAsSets
<1> QED BY <1>1, LocalTypes, PTL DEF Spec, ListsActAsSets

(***************************************************************************)
(* The file and the syncs that stop.                                       *)
(***************************************************************************)

\* What can be revoked from a file can be from one that has more.
LEMMA RevocableGrows ==
  ASSUME NEW old, NEW new, old.grants \subseteq new.grants,
         old.entitlements \subseteq new.entitlements, old.resources \subseteq new.resources,
         NEW g, Revocable(old, g)
  PROVE  Revocable(new, g)
BY DEF Revocable

\* A finished sync is not taken for none: it has the workspace.
LEMMA SyncFinishes ==
  ASSUME TypeOK, Sync
  PROVE  finished' # Nothing
<1>1. NewResource("workspace", Workspace, None) \in Top /\ Top \subseteq Found
  BY WorkspaceListIs, SegmentIsWell DEF Found, Top, IsIll
<1>2. finished'.resources = Begun.scope /\ Begun.scope \in {Found, Top}
  BY ViewType, ScopeType DEF Sync
<1>3. Nothing.resources = {}
  BY DEF Nothing
<1> QED BY <1>1, <1>2, <1>3

THEOREM FileKeepsWhatItHas == Spec => StopTakesNothing
<1> DEFINE Has(new, old) == /\ old.resources \subseteq new.resources
                            /\ old.entitlements \subseteq new.entitlements
                            /\ old.grants \subseteq new.grants
<1>1. ASSUME TypeOK, Next PROVE finished' = finished => Has(View', View)
  <2>1. View \in SyncSet /\ Begun \in SyncSet
    BY <1>1, ViewType
  <2>2. CASE Sync
    <3>1. SUFFICES ASSUME finished' = finished PROVE View' = View
      OBVIOUS
    <3> QED BY <1>1, <2>2, <3>1, SyncFinishes DEF View
  <2>3. CASE SyncStops
    <3>1. finished' = finished
      BY <2>3 DEF SyncStops
    <3>2. CASE finished # Nothing
      BY <3>1, <3>2 DEF View
    <3>3. CASE finished = Nothing
      <4>1. View = Begun /\ View' = unfinished'
        BY <3>1, <3>3 DEF View, Begun
      <4>2. Has(unfinished', Begun)
        BY <1>1, <2>3, StopsType
      <4> QED BY <4>1, <4>2
    <3> QED BY <3>2, <3>3
  <2>4. CASE UNCHANGED <<finished, unfinished>>
    <3>1. View' = View
      BY <2>4 DEF View
    <3> QED BY <3>1
  <2> QED BY <1>1, <2>2, <2>3, <2>4 DEF Next, Grant, Revoke, AdminEdit
<1>2. ASSUME TypeOK, Next PROVE finished' # finished => Has(finished', Begun)
  <2>1. SUFFICES ASSUME Sync PROVE Has(finished', Begun)
    BY <1>2 DEF Next, SyncStops, Grant, Revoke, AdminEdit
  <2> QED BY <1>2, <2>1, SyncType
<1>3. TypeOK /\ [Next]_vars => [NothingIsTaken]_vars
  <2> SUFFICES ASSUME TypeOK, Next PROVE NothingIsTaken
    OBVIOUS
  <2>1. ASSUME finished' = finished
        PROVE  /\ View.entitlements \subseteq View'.entitlements
               /\ View.resources \subseteq View'.resources
               /\ \A g \in View.grants : Revocable(View, g) => Revocable(View', g)
    <3>1. Has(View', View)
      BY <1>1, <2>1
    <3> QED BY <3>1, RevocableGrows
  <2>2. ASSUME finished' # finished, NEW g \in Begun.grants
        PROVE  g \in finished'.grants /\ (Revocable(Begun, g) => Revocable(finished', g))
    <3>1. Has(finished', Begun)
      BY <1>2, <2>2
    <3> QED BY <3>1, <2>2, RevocableGrows
  <2> QED BY <2>1, <2>2 DEF NothingIsTaken
<1> QED BY <1>3, LocalTypes, PTL DEF Spec, StopTakesNothing

(***************************************************************************)
(* What is read and what is written.                                       *)
(***************************************************************************)

\* The entitlement of each role of a function that is found.
LEMMA FunctionRoleIsListed ==
  ASSUME NEW id \in Ever("function"), NEW x \in Ever("role"), "function" \in NamesKind[x],
         NEW w, w.ill = None, w.gone = {}
  PROVE  \E token \in Tokens("role", Pages["role"]) :
           Entitlement("function", id, x) \in
             Entitlements(NewResource("function", id, Workspace), token, w).items
<1> USE ConnectorAssumption
<1> DEFINE r == NewResource("function", id, Workspace)
<1>1. "role" \in PagedKind /\ "role" \in Kind /\ IsPages(Pages["role"])
  BY CollectionPages DEF PagedKind, ChildKind, Kind, Collection
<1>2. PICK n \in DOMAIN Pages["role"] : x \in Pages["role"][n]
  BY <1>1, PagedIds DEF Everything
<1>3. PICK token \in Tokens("role", Pages["role"]) :
        LET bag == ParsePageToken(token, "role")
            page == GetPage(Pages["role"], bag.cursor, "role", w)
        IN  /\ page.ok /\ page.items = Pages["role"][n]
            /\ NextToken(bag, page.next) # token \/ token = NoToken
  BY <1>1, PageAnswered
<1> DEFINE bag == ParsePageToken(token, "role")
           page == GetPage(Pages["role"], bag.cursor, "role", w)
           named == {Entitlement("function", id, y) :
                       y \in {z \in page.items : "function" \in NamesKind[z]}}
           answer == Result(named, NextToken(bag, page.next))
<1>4. r.kind = "function" /\ r.id = id /\ id # None
  <2>1. \A type \in FunctionType : None \notin Everything(Pages[type])
    BY CollectionPages DEF Collection
  <2> QED BY <2>1 DEF Ever, NewResource
<1>5. Entitlements(r, token, w) = Checked(token, answer)
  <2> HIDE DEF r
  <2> QED BY <1>3, <1>4 DEF Entitlements, FunctionEntitlements, OfRoles, Paged, ListRoles
<1>6. Checked(token, answer) = answer
  BY <1>3 DEF Checked, Result
<1>7. Entitlement("function", id, x) \in answer.items
  BY <1>2, <1>3 DEF Result
<1> HIDE DEF answer
<1> QED BY <1>3, <1>5, <1>6, <1>7

\* The entitlement that a consistent access became is found, and stands for that access.
LEMMA ConsistentIsFound ==
  ASSUME NEW a \in Placed, Consistent(a)
  PROVE  /\ OfPermissions(EntitlementOf(a))
         /\ EntitlementOf(a) \in FoundEntitlements
         /\ AccessOf(Provisioned(EntitlementOf(a))) = a
<1>1. a.role \in Role /\ Ever("role") = Role
  BY LocalAssumption DEF Placed, Access
<1>2. CASE a.type = "WORKSPACE"
  <2> DEFINE r == NewResource("role", a.role, Workspace)
  <2>1. r \in Found /\ r.kind = "role" /\ r.id = a.role
    BY <1>1, ChildIsFound DEF NewResource
  <2>2. a.role # None
    BY <1>1, CollectionPages, PagedIds DEF PagedKind, Collection
  <2>3. Entitlement("role", a.role, "member") \in Entitlements(r, NoToken, Structure).items
    <3> HIDE DEF r
    <3> QED BY <2>1, <2>2 DEF Entitlements, Checked, RoleEntitlements, Membership, Result
  <2>4. NoToken \in Tokens("role", Pages["role"])
    BY DEF Tokens
  <2> DEFINE e == Entitlement("role", a.role, "member")
  <2>5. e \in FoundEntitlements
    BY <2>1, <2>3, <2>4 DEF FoundEntitlements, EntitlementsOf
  <2>6. EntitlementOf(a) = e /\ OfPermissions(e)
    BY <1>2 DEF EntitlementOf, OfPermissions, Entitlement, PermissionKind
  <2>7. AccessOf(Provisioned(e)) = [role |-> a.role, type |-> "WORKSPACE", id |-> Workspace]
    BY DEF AccessOf, Provisioned, RoleOf, Entitlement, SegmentType
  <2>8. a = [role |-> a.role, type |-> "WORKSPACE", id |-> Workspace]
    BY <1>2 DEF Placed, Access
  <2> QED BY <2>5, <2>6, <2>7, <2>8
<1>3. CASE a.type = "FUNCTION" /\ "function" \in NamesKind[a.role]
  <2> DEFINE r == NewResource("function", a.id, Workspace)
             e == Entitlement("function", a.id, a.role)
  <2>1. a.id \in Ever("function") /\ r \in Found
    BY <1>3, FunctionIsFound DEF Placed
  <2>2. PICK token \in Tokens("role", Pages["role"]) : e \in Entitlements(r, token, Structure).items
    BY <1>1, <1>3, <2>1, SegmentIsWell, FunctionRoleIsListed
  <2>3. e \in FoundEntitlements
    BY <2>1, <2>2 DEF FoundEntitlements, EntitlementsOf
  <2>4. EntitlementOf(a) = e /\ OfPermissions(e)
    BY <1>3 DEF EntitlementOf, OfPermissions, Entitlement, PermissionKind, ResourceKind
  <2>5. AccessOf(Provisioned(e)) = [role |-> a.role, type |-> "FUNCTION", id |-> a.id]
    BY <1>1 DEF AccessOf, Provisioned, RoleOf, Entitlement, SegmentType
  <2>6. a = [role |-> a.role, type |-> "FUNCTION", id |-> a.id]
    BY <1>3 DEF Placed, Access
  <2> QED BY <2>3, <2>4, <2>5, <2>6
<1> QED BY <1>2, <1>3 DEF Consistent

\* And a sync that reads its principal has the grant.
LEMMA PermissionIsGranted ==
  ASSUME NEW rs \in SUBSET Found, NEW r \in rs, r.kind \in {"user", "group"},
         NEW w, w.ill = None, w.gone = {}, NEW a \in w.held[r.id]
  PROVE  NewGrant(EntitlementOf(a), r.kind, r.id) \in FoundGrants(rs, w)
<1> USE ConnectorAssumption
<1>1. r.kind \in Kind /\ r.id \in Ever(r.kind)
  BY FoundType
<1>2. r.id # None
  BY <1>1, CollectionPages, PagedIds DEF PagedKind, Collection
<1>3. Sound("principal", w) /\ GetPrincipal(r.id, w).ok
  BY DEF Sound, GetPrincipal, IsIll, Result
<1>4. \E token \in GrantTokens(r) : Grants(r, token, w).ok
  <2>1. CASE r.kind = "user"
    <3>1. Grants(r, NoToken, w).ok
      BY <1>2, <1>3, <2>1 DEF Grants, Checked, UserGrants, Result
    <3>2. NoToken \in GrantTokens(r)
      BY <2>1 DEF GrantTokens
    <3> QED BY <3>1, <3>2
  <2>2. CASE r.kind = "group"
    <3> DEFINE page == GetPage(MemberPages[r.id], ParsePageToken(NoToken, "user").cursor, "members", w)
    <3>1. page.ok
      BY DEF GetPage, IsIll, Result
    <3> HIDE DEF page
    <3>2. Grants(r, NoToken, w).ok
      BY <1>2, <1>3, <2>2, <3>1
      DEF page, Grants, Checked, GroupGrants, Paged, ListGroupMembers, Result
    <3>3. NoToken \in GrantTokens(r)
      BY <2>2 DEF GrantTokens, Tokens
    <3> QED BY <3>2, <3>3
  <2> QED BY <2>1, <2>2
<1>5. PICK token \in GrantTokens(r) : Grants(r, token, w).ok
  BY <1>4
<1>6. NewGrant(EntitlementOf(a), r.kind, r.id) \in Grants(r, token, w).items
  BY <1>3, <1>5, PermissionsAreListed DEF PermissionGrants
<1> QED BY <1>6 DEF FoundGrants

THEOREM WhatIsReadCanBeRevoked == Spec => SeenIsRevocable
<1>1. ASSUME TypeOK, Next, finished' # finished, NEW r \in Holder \cap Begun.scope,
             r \notin Begun.read, NEW a \in Flatten(permissions[r.id]), Consistent(a)
      PROVE  \E g \in finished'.grants :
               /\ g.principal.id = r.id
               /\ Revocable(finished', g)
               /\ AccessOf(Provisioned(g.entitlement)) = a
  <2>1. Sync
    BY <1>1 DEF Next, SyncStops, Grant, Revoke, AdminEdit
  <2>2. r \in Found /\ r.kind \in {"user", "group"} /\ r.id \in Principal
    BY HolderIsPrincipal DEF Holder
  <2>3. a \in Placed
    BY <1>1, <2>2, AccessesArePlaced DEF TypeOK
  <2> DEFINE g == NewGrant(EntitlementOf(a), r.kind, r.id)
             rs == Begun.scope \ Begun.read
  <2>0. Begun.scope = Found
    <3>1. Top = {NewResource("workspace", Workspace, None)}
      BY WorkspaceListIs, SegmentIsWell DEF Top, IsIll
    <3>2. r \notin Top
      BY <2>2, <3>1 DEF NewResource
    <3> QED BY <1>1, <3>2, ViewType, ScopeType
  <2>4. g \in FoundGrants(rs, World)
    <3>1. a \in World.held[r.id]
      BY <2>2, SegmentIsWell
    <3>2. r \in rs /\ rs \in SUBSET Found
      BY <1>1, <2>0
    <3> HIDE DEF rs
    <3> QED BY <2>2, <3>1, <3>2, SegmentIsWell, PermissionIsGranted
  <2>5. /\ g \in finished'.grants
        /\ finished'.entitlements = FoundEntitlements /\ finished'.resources = Found
    BY <2>0, <2>1, <2>4 DEF Sync, FoundEntitlements
  <2>6. g.entitlement = EntitlementOf(a) /\ g.principal.kind = r.kind /\ g.principal.id = r.id
    BY DEF NewGrant
  <2> HIDE DEF g
  <2>7. Revocable(finished', g)
    BY <1>1, <2>2, <2>3, <2>5, <2>6, ConsistentIsFound DEF Revocable
  <2> QED BY <1>1, <2>3, <2>5, <2>6, <2>7, ConsistentIsFound
<1>2. TypeOK /\ [Next]_vars => [ReadCanBeRevoked]_vars
  BY <1>1 DEF ReadCanBeRevoked
<1> QED BY <1>2, LocalTypes, PTL DEF Spec, SeenIsRevocable

\* An entitlement of permissions, when its access is consistent, is the one that the
\* access is read as.
LEMMA EntitlementComesBack ==
  ASSUME NEW e \in FoundEntitlements, OfPermissions(e), Consistent(AccessOf(Provisioned(e)))
  PROVE  EntitlementOf(AccessOf(Provisioned(e))) = e
<1> DEFINE a == AccessOf(Provisioned(e))
<1>1. PICK r \in Found :
        \/ r.kind \in RoleKind /\ \E x \in Ever("role") : e = Entitlement(r.kind, r.id, x)
        \/ r.kind \notin RoleKind /\ e = Entitlement(r.kind, r.id, "member")
  BY FoundEntitlementType
<1>2. e.kind = r.kind /\ e.id = r.id
  BY <1>1 DEF Entitlement
<1>3. a.type = SegmentType[e.kind] /\ a.role = RoleOf(Provisioned(e))
  BY DEF AccessOf, Provisioned
<1>4. CASE e.kind = "role"
  <2>1. e = Entitlement("role", e.id, "member")
    BY <1>1, <1>2, <1>4 DEF RoleKind
  <2>2. a.type = "WORKSPACE" /\ a.role = e.id
    BY <1>3, <1>4 DEF SegmentType, RoleOf, Provisioned
  <2> HIDE DEF a
  <2>3. EntitlementOf(a) = e
    BY <2>1, <2>2 DEF EntitlementOf
  <2> QED BY <2>3 DEF a
<1>5. CASE e.kind = "function"
  <2>1. PICK x \in Ever("role") : e = Entitlement("function", e.id, x)
    BY <1>1, <1>2, <1>5 DEF RoleKind
  <2>2. e.name = x /\ x \in Role
    BY <2>1, LocalAssumption DEF Entitlement
  <2>3. a.type = "FUNCTION" /\ a.role = x /\ a.id = e.id
    BY <1>3, <1>5, <2>2 DEF SegmentType, RoleOf, Provisioned, AccessOf
  <2> HIDE DEF a
  <2>4. EntitlementOf(a) = e
    BY <2>1, <2>3 DEF EntitlementOf
  <2> QED BY <2>4 DEF a
<1>6. CASE e.kind \in {"source", "warehouse", "space"}
  BY <1>3, <1>6 DEF Consistent, SegmentType
<1> QED BY <1>4, <1>5, <1>6 DEF OfPermissions, PermissionKind, ResourceKind

\* What is read as an entitlement is of the role that its revoke takes away.
LEMMA ReadAsItsRole ==
  ASSUME NEW a \in Placed
  PROVE  RoleOf(Provisioned(EntitlementOf(a))) = a.role
BY DEF EntitlementOf, Entitlement, Provisioned, RoleOf, Placed, Access

\* Segment after a step.
LEMMA SegmentStaysWell ==
  /\ World'.ill = None /\ World'.gone = {}
  /\ \A p \in Principal : World'.held[p] = Flatten(permissions'[p])
BY DEF Structure, World

THEOREM CommandsShow == Spec => CommandShows
<1>1. ASSUME TypeOK, TypeOK', NEW e \in View.entitlements, NEW p \in View.resources,
             Grant(e, p), Consistent(AccessOf(Provisioned(e)))
      PROVE  Shows(p.id, e)'
  <2> DEFINE a == AccessOf(Provisioned(e))
             g == NewGrant(e, p.kind, p.id)
  <2>1. /\ e \in FoundEntitlements /\ OfPermissions(e)
        /\ p \in Found /\ p.kind \in {"user", "group"} /\ p.id \in Principal
    BY <1>1, ViewType, ScopeType, HolderIsPrincipal DEF Grant
  <2>2. a \in Flatten(permissions'[p.id])
    <3>1. Becomes(p.id, LAMBDA held : Granted(held, Provisioned(e)))
      BY <1>1, CommandsActAsSets DEF CommandsActOnSets
    <3> QED BY <2>1, <3>1 DEF Becomes, Granted
  <2>3. EntitlementOf(a) = e
    BY <1>1, <2>1, EntitlementComesBack
  <2>4. a \in World'.held[p.id]
    BY <2>1, <2>2, SegmentStaysWell
  <2> HIDE DEF a
  <2>5. g \in FoundGrants(Found, World')
    BY <2>1, <2>3, <2>4, SegmentStaysWell, PermissionIsGranted
  <2>6. g.principal.id = p.id /\ g.entitlement = e
    BY DEF NewGrant
  <2> QED BY <2>5, <2>6 DEF Shows
<1>2. ASSUME TypeOK, TypeOK', NEW g \in View.grants, Revoke(g), Shows(g.principal.id, g.entitlement)'
      PROVE  FALSE
  <2> DEFINE who == g.principal.id
             e == g.entitlement
  <2>1. g \in GrantSet /\ who \in Principal /\ OfPermissions(e)
    BY <1>2, ViewType, ScopeType, GranteeIsPrincipal DEF Revoke, Revocable
  <2>2. PICK h \in FoundGrants(Found, World') : h.principal.id = who /\ h.entitlement = e
    BY <1>2 DEF Shows
  <2>3. PICK r \in Found :
          \/ /\ r.kind \in {"user", "group"}
             /\ h \in PermissionGrants(r.kind, r.id, World'.held[r.id])
          \/ /\ r.kind \in {"group", "workspace"}
             /\ \E u \in Ever("user") : h = NewGrant(Entitlement(r.kind, r.id, "member"), "user", u)
    BY <2>2, FoundGrantType
  <2>4. CASE r.kind \in {"user", "group"} /\ h \in PermissionGrants(r.kind, r.id, World'.held[r.id])
    <3>1. r.id \in Principal
      BY <2>4, HolderIsPrincipal
    <3>2. PICK a \in Flatten(permissions'[r.id]) : h = NewGrant(EntitlementOf(a), r.kind, r.id)
      BY <2>4, <3>1, SegmentStaysWell DEF PermissionGrants
    <3>3. r.id = who /\ EntitlementOf(a) = e
      BY <2>2, <3>2 DEF NewGrant
    <3>4. a.role # RoleOf(Provisioned(e))
      <4>1. Becomes(who, LAMBDA held : Revoked(held, Provisioned(e)))
        BY <1>2, CommandsActAsSets DEF CommandsActOnSets
      <4> QED BY <2>1, <3>2, <3>3, <4>1 DEF Becomes, Revoked
    <3>5. a \in Placed
      BY <1>2, <3>1, <3>2, AccessesArePlaced DEF TypeOK
    <3> QED BY <3>3, <3>4, <3>5, ReadAsItsRole
  <2>5. ASSUME r.kind \in {"group", "workspace"}, NEW u \in Ever("user"),
               h = NewGrant(Entitlement(r.kind, r.id, "member"), "user", u)
        PROVE  FALSE
    <3>1. e.kind = r.kind
      BY <2>2, <2>5 DEF NewGrant, Entitlement
    <3> QED BY <2>1, <2>5, <3>1 DEF OfPermissions, PermissionKind, ResourceKind
  <2> QED BY <2>3, <2>4, <2>5
<1>3. TypeOK /\ TypeOK' /\ [Next]_vars => [CommandIsSeen]_vars
  BY <1>1, <1>2 DEF CommandIsSeen
<1> QED BY <1>3, LocalTypes, PTL DEF Spec, CommandShows
=============================================================================
