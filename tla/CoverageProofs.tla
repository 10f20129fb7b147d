--------------------------- MODULE CoverageProofs ---------------------------
(***************************************************************************)
(* Proofs about Sync: what a complete sync has of the resources in its     *)
(* store, for every workspace and every schedule of failures, cancelled    *)
(* runs, changes and answers cut short.                                    *)
(*                                                                         *)
(* The invariant is that what is missing is still ahead, both of the run   *)
(* that goes on and of one that would resume the saved stack.              *)
(***************************************************************************)
EXTENDS SyncProofs

\* The stack s will still ask for page n of a step of the resource r.
Ahead(s, op, r, n) ==
  \E a \in ToSet(s) :
    \/ a.op = "init"
    \/ a = Whole(op)
    \/ a.op = op /\ a.kind = r.kind /\ a.id = r.id /\ From(a.token) <= n

\* A resource without an id: the step fails at it.
NamelessAhead(s) ==
  \A r \in ToSet(resources) : r.id = None => Ahead(s, "entitlements", r, 1)

MembershipAhead(s) ==
  \A r \in ToSet(resources) : r.kind \in {"workspace", "group", "role"} =>
    Entitlement(r.kind, r.id, "member") \in entitlements \/ Ahead(s, "entitlements", r, 1)

RolesAhead(s) ==
  Trusted("role") =>
    \A r \in ToSet(resources), n \in DOMAIN Pages["role"] : \A x \in Pages["role"][n] \ Passing :
      r.kind \in RoleKind /\ r.kind \in NamesKind[x] =>
        Entitlement(r.kind, r.id, x) \in entitlements \/ Ahead(s, "entitlements", r, n)

PermissionsAhead(s) ==
  Trusted("principal") =>
    \A r \in ToSet(resources) : r.kind \in {"user", "group"} /\ r.id \notin Passing =>
      \/ PermissionGrants(r.kind, r.id, HeldThroughout[r.id]) \subseteq grants
      \/ Ahead(s, "grants", r, 1)

MembersAhead(s) ==
  Trusted("members") =>
    \A r \in ToSet(resources) : r.kind = "group" =>
      \A n \in DOMAIN MemberPages[r.id] : \A u \in MemberPages[r.id][n] \ Passing :
        MemberGrants(r, {u}) \subseteq grants \/ Ahead(s, "grants", r, n)

UsersAhead(s) ==
  Trusted("user") =>
    \A r \in ToSet(resources) : r.kind = "workspace" =>
      \A n \in DOMAIN Pages["user"] : \A u \in Pages["user"][n] \ Passing :
        MemberGrants(r, {u}) \subseteq grants \/ Ahead(s, "grants", r, n)

AllAhead(s) == /\ NamelessAhead(s) /\ MembershipAhead(s) /\ RolesAhead(s)
               /\ PermissionsAhead(s) /\ MembersAhead(s) /\ UsersAhead(s)

CoverInv == ShapeInv /\ AllAhead(stack) /\ AllAhead(saved)

\* A stack with the whole of a step has all of it ahead.
LEMMA WholeIsAhead ==
  ASSUME NEW s, NEW op, Whole(op) \in ToSet(s), NEW r, NEW n
  PROVE  Ahead(s, op, r, n)
BY DEF Ahead

\* An endpoint that never cut an answer short does not do so now.
LEMMA TrustedIsSound ==
  ASSUME TypeInv, NEW at, Trusted(at)
  PROVE  Sound(at, World)
BY DEF TypeInv, TypeOK, Trusted, Sound, World

\* An endpoint that is still trusted after a step was trusted before it.
LEMMA TrustedBefore ==
  ASSUME TypeInv, [Next]_vars, NEW at, Trusted(at)'
  PROVE  Trusted(at)
BY Growing DEF Trusted

\* A page that is asked for and got.
LEMMA CallOf ==
  ASSUME TypeInv, NEW op \in {"entitlements", "grants"}, Calls(op)
  PROVE  /\ phase = "act" /\ stack # <<>> /\ stack \in Seq(ActionSet)
         /\ Current.op = op /\ Current.kind \in Kind /\ Current.kind # None
         /\ Current.token \in Token /\ Current.id \in ResourceId(Current.kind)
         /\ Call.ok /\ Call.next \in Token
         /\ op = "entitlements" => Call = Entitlements(Current, Current.token, World)
         /\ op = "grants" => Call = Grants(Current, Current.token, World)
         /\ Current.id # None /\ Current.id \in Ever(Current.kind)
<1>1. /\ phase = "act" /\ stack # <<>> /\ stack \in Seq(ActionSet)
      /\ Current.op = op /\ Current.kind # None /\ Call.ok /\ OneOf(op)
  BY DEF Calls, OneOf, Doing, TypeInv, TypeOK
<1>2. /\ Current.kind \in Kind /\ Current.token \in Token
      /\ Current.id \in ResourceId(Current.kind)
  BY <1>1, CurrentType
<1>3. /\ op = "entitlements" => Call = Entitlements(Current, Current.token, World)
      /\ op = "grants" => Call = Grants(Current, Current.token, World)
  BY <1>1, CallIs
<1>4. Current.id # None
  BY <1>1, <1>3, EntitlementsHaveIds, GrantsHaveIds
<1>5. Call.next \in Token
  BY CallType
<1> QED BY <1>1, <1>2, <1>3, <1>4, <1>5 DEF ResourceId

\* What is ahead stays ahead, but for the page that the step yields: it is not ahead any
\* more when it was the last, or the next one lies behind it.
LEMMA AheadStep ==
  ASSUME TypeInv, [Next]_vars, ~Resume, NEW op \in {"entitlements", "grants"},
         NEW r \in ToSet(resources), NEW n \in Nat \ {0}, Ahead(stack, op, r, n)
  PROVE  \/ Ahead(stack', op, r, n)
         \/ /\ Calls(op) /\ Current.kind = r.kind /\ Current.id = r.id
            /\ From(Current.token) <= n
            /\ Call.next = NoToken \/ ~(From(Call.next) <= n)
            /\ op = "entitlements" => SyncEntitlementsForResource
            /\ op = "grants" => SyncGrantsForResource
<1> USE DEF stored, world
<1> DEFINE Got == /\ Calls(op) /\ Current.kind = r.kind /\ Current.id = r.id
                  /\ From(Current.token) <= n
                  /\ Call.next = NoToken \/ ~(From(Call.next) <= n)
                  /\ op = "entitlements" => SyncEntitlementsForResource
                  /\ op = "grants" => SyncGrantsForResource
           Is(a) == \/ a.op = "init" \/ a = Whole(op)
                    \/ a.op = op /\ a.kind = r.kind /\ a.id = r.id /\ From(a.token) <= n
<1>1. stack \in Seq(ActionSet) /\ resources \in Seq(ResourceSet) /\ pending \subseteq ResourceSet
  BY DEF TypeInv, TypeOK
<1>2. PICK a \in ToSet(stack) : Is(a)
  BY DEF Ahead
<1>3. stack # <<>>
  BY <1>2 DEF ToSet
<1>4. ToSet(stack) = ToSet(Finished) \cup {Current} /\ Finished \in Seq(ActionSet)
  BY <1>1, <1>3, CurrentType
<1>5. a \in ToSet(stack') => Ahead(stack', op, r, n)
  BY <1>2 DEF Ahead
<1>6. ASSUME NEW t \in Seq(ActionSet), stack' = Finished \o t
      PROVE  ToSet(stack') = ToSet(Finished) \cup ToSet(t)
  BY <1>4, <1>6, SeqConcat
<1>7. r.kind \in Kind /\ r.kind # None /\ Whole(op).op = op /\ Whole(op).kind = None
  BY <1>1, SeqElements, WholeType, ConnectorAssumption DEF ResourceSet, Kind, Op
<1>8. CASE InitSync
  <2>1. ToSet(stack') = ToSet(Finished) \cup ToSet(StepActions)
    BY <1>1, <1>3, <1>8, StepActionsType, PushAllIs DEF InitSync, StepActions
  <2>2. Whole(op) \in ToSet(stack')
    BY <2>1, StepActionsType
  <2> QED BY <2>2, WholeIsAhead
<1>9. CASE stack' = stack
  BY <1>2, <1>9 DEF Ahead
<1>10. ASSUME NEW t \in Seq(ActionSet), stack' = stack \o t
       PROVE  Ahead(stack', op, r, n)
  BY <1>1, <1>5, <1>10, SeqConcat
<1>11. ASSUME NEW t \in Seq(ActionSet), stack' = Finished \o t, Current.op \notin {"init", op}
       PROVE  Ahead(stack', op, r, n)
  <2>1. a # Current
    BY <1>2, <1>7, <1>11
  <2> QED BY <1>4, <1>5, <1>6, <1>11, <2>1
<1>12. ASSUME PushForEachResource(op) PROVE Ahead(stack', op, r, n)
  <2>1. ToSet(stack') = ToSet(Finished) \cup ToSet(ResourceActions(op))
    BY <1>1, <1>3, <1>12, PushAllIs, ResourceActionsType
    DEF PushForEachResource, ResourceActions, Op
  <2>2. LET b == Action(op, r.kind, r.id, None)
        IN  b.op = op /\ b.kind = r.kind /\ b.id = r.id /\ b.token = NoToken
    BY <1>7, NotWhole
  <2>3. Action(op, r.kind, r.id, None) \in ToSet(stack')
    BY <1>1, <2>1, ResourceActionsType DEF Op
  <2>4. From(NoToken) <= n
    BY DEF From
  <2> QED BY <2>2, <2>3, <2>4 DEF Ahead
<1>13. ASSUME Calls(op), Turn(Call.next),
              op = "entitlements" => SyncEntitlementsForResource,
              op = "grants" => SyncGrantsForResource
       PROVE  Ahead(stack', op, r, n) \/ Got
  <2>1. Current.op = op /\ Current.kind # None /\ Call.next \in Token
    BY <1>13, CallOf
  <2>2. ToSet(stack') = ToSet(Finished) \cup
          (IF Call.next = NoToken THEN {} ELSE {[Current EXCEPT !.token = Call.next]})
    BY <1>1, <1>3, <1>13, <2>1, TurnIs
  <2>3. LET b == [Current EXCEPT !.token = Call.next]
        IN  b.op = op /\ b.kind = Current.kind /\ b.id = Current.id /\ b.token = Call.next
    BY <1>1, <1>3, <2>1, TurnedType
  <2>4. CASE a \in ToSet(Finished)
    BY <1>5, <2>2, <2>4
  <2>5. CASE a = Current
    <3>1. Current.kind = r.kind /\ Current.id = r.id /\ From(Current.token) <= n
      BY <1>2, <1>7, <2>1, <2>5
    <3>2. CASE Call.next # NoToken /\ From(Call.next) <= n
      BY <2>2, <2>3, <3>1, <3>2 DEF Ahead
    <3> QED BY <1>13, <3>1, <3>2
  <2> QED BY <1>4, <2>4, <2>5
<1>14. ASSUME phase = "act", Current.op = op, stack' # stack
       PROVE  \/ PushForEachResource(op)
              \/ /\ Calls(op) /\ Turn(Call.next)
                 /\ op = "entitlements" => SyncEntitlementsForResource
                 /\ op = "grants" => SyncGrantsForResource
  BY <1>14 DEF Next, SyncerStep, vars, Checkpoint, EndSync, InitSync, SyncResourceTypes,
     SyncResources, SyncResourcesOfKind, PutResource, PagePut, SyncEntitlements, SyncGrants,
     PushForEachResource, SyncEntitlementsForResource, SyncGrantsForResource,
     SyncGrantExpansion, Resume, Fail, FailForGood, Cancel, Stop, Done, Delete, Create, Change, FallIll,
     Recover, Calls, OneOf, AllOf, Doing
<1>15. CASE phase = "act" /\ Current.op = op
  BY <1>9, <1>12, <1>13, <1>14, <1>15
<1>16. CASE phase = "act" /\ Current.op # op
  BY <1>8, <1>9, <1>10, <1>11, <1>16, StackStep
<1>17. CASE phase # "act"
  BY <1>8, <1>9, <1>10, <1>17, StackStep DEF InitSync, Doing
<1> QED BY <1>15, <1>16, <1>17

\* The step yields the last page that r has at n or later, or up to n.
Got(op, r, n) ==
  /\ Calls(op) /\ Current.kind = r.kind /\ Current.id = r.id
  /\ From(Current.token) <= n
  /\ Call.next = NoToken \/ ~(From(Call.next) <= n)
  /\ op = "entitlements" => entitlements' = entitlements \cup Call.items
  /\ op = "grants" => grants' = grants \cup Call.items

\* The pages of a collection are numbered from one.
LEMMA PageNumbers ==
  /\ \A c \in Collection : DOMAIN Pages[c] \subseteq Nat \ {0}
  /\ \A g \in Ever("group") : DOMAIN MemberPages[g] \subseteq Nat \ {0}
<1>1. \A pages : IsPages(pages) => DOMAIN pages \subseteq Nat \ {0}
  BY DEF IsPages
<1> QED BY <1>1, ConnectorAssumption DEF Ever

\* Where a stack z has ahead what s had, but for a page that the step yields, and all of
\* a resource that is stored now, all that is missing after the step is ahead in z.
LEMMA CoverKept ==
  ASSUME TypeInv, [Next]_vars, NEW s, NEW z, AllAhead(s),
         \A op \in {"entitlements", "grants"}, r \in ToSet(resources), n \in Nat \ {0} :
           Ahead(s, op, r, n) => Ahead(z, op, r, n) \/ Got(op, r, n),
         \A op \in {"entitlements", "grants"}, r \in ToSet(resources') \ ToSet(resources),
            n \in Nat \ {0} : Ahead(z, op, r, n)
  PROVE  AllAhead(z)'
<1>1. /\ entitlements \subseteq entitlements' /\ grants \subseteq grants' /\ Passing \subseteq Passing'
      /\ \A at : Trusted(at)' => Trusted(at)
  BY Growing, TrustedBefore
<1>2. resources \in Seq(ResourceSet)
  BY DEF TypeInv, TypeOK
<1>3. \A r \in ToSet(resources) : r.kind \in Kind /\ r.id \in ResourceId(r.kind)
  BY <1>2, SeqElements DEF ResourceSet
<1>r. /\ ResourceId("user") = Ever("user") /\ ResourceId("group") = Ever("group")
      /\ Ever("user") \cup Ever("group") \subseteq DOMAIN Holds
  BY Principals, PagedIds DEF PagedKind
<1>4. NamelessAhead(z)'
  <2> SUFFICES ASSUME NEW r \in ToSet(resources'), r.id = None
               PROVE  Ahead(z, "entitlements", r, 1)
    BY DEF NamelessAhead
  <2>1. CASE r \in ToSet(resources)
    <3>1. Ahead(s, "entitlements", r, 1)
      BY <2>1 DEF AllAhead, NamelessAhead
    <3>2. ~Got("entitlements", r, 1)
      BY CallOf DEF Got
    <3> QED BY <2>1, <3>1, <3>2
  <2> QED BY <2>1
<1>5. MembershipAhead(z)'
  <2> SUFFICES ASSUME NEW r \in ToSet(resources'), r.kind \in {"workspace", "group", "role"}
               PROVE  \/ Entitlement(r.kind, r.id, "member") \in entitlements'
                      \/ Ahead(z, "entitlements", r, 1)
    BY DEF MembershipAhead
  <2>1. CASE r \in ToSet(resources)
    <3>1. \/ Entitlement(r.kind, r.id, "member") \in entitlements
          \/ Ahead(s, "entitlements", r, 1)
      BY <2>1 DEF AllAhead, MembershipAhead
    <3>2. ASSUME Got("entitlements", r, 1)
          PROVE  Entitlement(r.kind, r.id, "member") \in entitlements'
      <4>1. /\ Call = Entitlements(Current, Current.token, World) /\ Call.ok
            /\ Current.kind = r.kind /\ Current.id = r.id
            /\ entitlements' = entitlements \cup Call.items
        BY <3>2, CallOf DEF Got
      <4>2. Entitlement(Current.kind, Current.id, "member") \in Call.items
        BY <4>1, MembershipIsListed
      <4> QED BY <4>1, <4>2
    <3> QED BY <1>1, <2>1, <3>1, <3>2
  <2> QED BY <2>1
<1>6. RolesAhead(z)'
  <2> SUFFICES ASSUME Trusted("role")', NEW r \in ToSet(resources'), NEW n \in DOMAIN Pages["role"],
                      NEW x \in Pages["role"][n] \ Passing', r.kind \in RoleKind,
                      r.kind \in NamesKind[x]
               PROVE  \/ Entitlement(r.kind, r.id, x) \in entitlements'
                      \/ Ahead(z, "entitlements", r, n)
    BY DEF RolesAhead
  <2>n. n \in Nat \ {0} /\ x \in Pages["role"][n] \ Passing /\ Trusted("role")
    BY <1>1, PageNumbers DEF Collection, PagedKind
  <2>1. CASE r \in ToSet(resources)
    <3>1. \/ Entitlement(r.kind, r.id, x) \in entitlements
          \/ Ahead(s, "entitlements", r, n)
      BY <2>n, <2>1 DEF AllAhead, RolesAhead
    <3>2. ASSUME Got("entitlements", r, n)
          PROVE  Entitlement(r.kind, r.id, x) \in entitlements'
      <4>1. /\ Call = Entitlements(Current, Current.token, World) /\ Call.ok
            /\ Current.kind = r.kind /\ Current.id = r.id /\ Current.token \in Token
            /\ From(Current.token) <= n /\ (Call.next = NoToken \/ ~(From(Call.next) <= n))
            /\ entitlements' = entitlements \cup Call.items
        BY <3>2, CallOf DEF Got
      <4>2. World.gone \subseteq Passing /\ Sound("role", World)
        BY <2>n, TrustedIsSound DEF World, Absent, Passing
      <4>3. \A y \in Pages["role"][n] \ World.gone : Current.kind \in NamesKind[y] =>
              Entitlement(Current.kind, Current.id, y) \in Call.items
        BY <4>1, <4>2, EntitlementsLeaveNothing
      <4> QED BY <2>n, <4>1, <4>2, <4>3
    <3> QED BY <1>1, <2>n, <2>1, <3>1, <3>2
  <2> QED BY <2>n, <2>1
<1>7. PermissionsAhead(z)'
  <2> SUFFICES ASSUME Trusted("principal")', NEW r \in ToSet(resources'),
                      r.kind \in {"user", "group"}, r.id \notin Passing'
               PROVE  \/ PermissionGrants(r.kind, r.id, HeldThroughout'[r.id]) \subseteq grants'
                      \/ Ahead(z, "grants", r, 1)
    BY DEF PermissionsAhead
  <2>n. r.id \notin Passing /\ Trusted("principal")
    BY <1>1
  <2>1. CASE r \in ToSet(resources)
    <3>p. r.id \in DOMAIN Holds
      BY <1>3, <1>r, <2>1
    <3>q. HeldThroughout'[r.id] \subseteq HeldThroughout[r.id]
      BY <3>p, Growing DEF HeldThroughout, ChangedOf
    <3>h. PermissionGrants(r.kind, r.id, HeldThroughout'[r.id])
            \subseteq PermissionGrants(r.kind, r.id, HeldThroughout[r.id])
      BY <3>q DEF PermissionGrants
    <3>1. \/ PermissionGrants(r.kind, r.id, HeldThroughout[r.id]) \subseteq grants
          \/ Ahead(s, "grants", r, 1)
      BY <2>n, <2>1 DEF AllAhead, PermissionsAhead
    <3>2. ASSUME Got("grants", r, 1)
          PROVE  PermissionGrants(r.kind, r.id, HeldThroughout[r.id]) \subseteq grants'
      <4>1. /\ Call = Grants(Current, Current.token, World) /\ Call.ok
            /\ Current.kind = r.kind /\ Current.id = r.id
            /\ grants' = grants \cup Call.items
        BY <3>2, CallOf DEF Got
      <4>2. PermissionGrants(r.kind, r.id, World.held[r.id]) \subseteq Call.items
        BY <2>n, <4>1, TrustedIsSound, PermissionsAreListed
      <4>3. PermissionGrants(r.kind, r.id, HeldThroughout[r.id])
              \subseteq PermissionGrants(r.kind, r.id, World.held[r.id])
        BY <3>p, WorldHolds DEF PermissionGrants
      <4> QED BY <4>1, <4>2, <4>3
    <3> QED BY <1>1, <2>1, <3>h, <3>1, <3>2
  <2> QED BY <2>1
<1>8. MembersAhead(z)'
  <2> SUFFICES ASSUME Trusted("members")', NEW r \in ToSet(resources'), r.kind = "group",
                      NEW n \in DOMAIN MemberPages[r.id], NEW u \in MemberPages[r.id][n] \ Passing'
               PROVE  MemberGrants(r, {u}) \subseteq grants' \/ Ahead(z, "grants", r, n)
    BY DEF MembersAhead
  <2>t. r \in ResourceSet
    <3>1. resources' \in Seq(ResourceSet)
      BY TypeStep DEF TypeInv, TypeOK
    <3> QED BY <3>1, SeqElements
  <2>n. /\ r.id \in Ever("group") /\ n \in Nat \ {0} /\ u \in MemberPages[r.id][n] \ Passing
        /\ Trusted("members")
    BY <1>1, <1>r, <2>t, PageNumbers DEF ResourceSet
  <2>1. CASE r \in ToSet(resources)
    <3>1. MemberGrants(r, {u}) \subseteq grants \/ Ahead(s, "grants", r, n)
      BY <2>n, <2>1 DEF AllAhead, MembersAhead
    <3>2. ASSUME Got("grants", r, n)
          PROVE  MemberGrants(r, {u}) \subseteq grants'
      <4>1. /\ Call = Grants(Current, Current.token, World) /\ Call.ok
            /\ Current.kind = r.kind /\ Current.id = r.id /\ Current.token \in Token
            /\ From(Current.token) <= n /\ (Call.next = NoToken \/ ~(From(Call.next) <= n))
            /\ grants' = grants \cup Call.items
        BY <3>2, CallOf DEF Got
      <4>2. World.gone \subseteq Passing /\ Sound("members", World)
        BY <2>n, TrustedIsSound DEF World, Absent, Passing
      <4>3. MemberGrants(Current, MemberPages[Current.id][n] \ World.gone) \subseteq Call.items
        BY <2>n, <4>1, <4>2, MembersLeaveNothing
      <4> QED BY <2>n, <4>1, <4>2, <4>3 DEF MemberGrants
    <3> QED BY <1>1, <2>n, <2>1, <3>1, <3>2
  <2> QED BY <2>n, <2>1
<1>9. UsersAhead(z)'
  <2> SUFFICES ASSUME Trusted("user")', NEW r \in ToSet(resources'), r.kind = "workspace",
                      NEW n \in DOMAIN Pages["user"], NEW u \in Pages["user"][n] \ Passing'
               PROVE  MemberGrants(r, {u}) \subseteq grants' \/ Ahead(z, "grants", r, n)
    BY DEF UsersAhead
  <2>n. n \in Nat \ {0} /\ u \in Pages["user"][n] \ Passing /\ Trusted("user")
    BY <1>1, PageNumbers DEF Collection, PagedKind
  <2>1. CASE r \in ToSet(resources)
    <3>1. MemberGrants(r, {u}) \subseteq grants \/ Ahead(s, "grants", r, n)
      BY <2>n, <2>1 DEF AllAhead, UsersAhead
    <3>2. ASSUME Got("grants", r, n)
          PROVE  MemberGrants(r, {u}) \subseteq grants'
      <4>1. /\ Call = Grants(Current, Current.token, World) /\ Call.ok
            /\ Current.kind = r.kind /\ Current.id = r.id /\ Current.token \in Token
            /\ From(Current.token) <= n /\ (Call.next = NoToken \/ ~(From(Call.next) <= n))
            /\ grants' = grants \cup Call.items
        BY <3>2, CallOf DEF Got
      <4>2. World.gone \subseteq Passing /\ Sound("user", World)
        BY <2>n, TrustedIsSound DEF World, Absent, Passing
      <4>3. MemberGrants(Current, Pages["user"][n] \ World.gone) \subseteq Call.items
        BY <4>1, <4>2, UsersLeaveNothing
      <4> QED BY <2>n, <4>1, <4>2, <4>3 DEF MemberGrants
    <3> QED BY <1>1, <2>n, <2>1, <3>1, <3>2
  <2> QED BY <2>n, <2>1
<1> QED BY <1>4, <1>5, <1>6, <1>7, <1>8, <1>9 DEF AllAhead

\* A resource is stored only while both stacks have the whole of the steps that follow.
LEMMA NewIsAhead ==
  ASSUME ShapeInv, [Next]_vars, NEW op \in {"entitlements", "grants"},
         NEW r \in ToSet(resources') \ ToSet(resources), NEW n
  PROVE  Ahead(stack', op, r, n) /\ Ahead(saved', op, r, n)
<1>1. phase = "put" /\ TypeInv /\ stack \in Seq(ActionSet)
  BY Growing DEF ShapeInv, TypeInv, TypeOK
<1>2. Whole(op) \in ToSet(stack) /\ Whole(op) \in ToSet(saved)
  BY <1>1 DEF ShapeInv, PhaseInv, Steps
<1>3. ToSet(stack) \subseteq ToSet(stack') /\ saved' \in {saved, stack}
  <2>1. ~Resume /\ ~InitSync
    BY <1>1 DEF Resume, InitSync, Doing
  <2>2. ASSUME NEW t \in Seq(ActionSet) PROVE ToSet(stack) \subseteq ToSet(stack \o t)
    BY <1>1, SeqConcat
  <2> QED BY <1>1, <2>1, <2>2, StackStep
<1> QED BY <1>2, <1>3, WholeIsAhead

\* What is missing stays ahead of both stacks: of the current one by CoverKept, of the
\* saved one because it is a copy, and of the resumed one because it is the saved one.
LEMMA CoverStep ==
  ASSUME CoverInv, [Next]_vars
  PROVE  CoverInv'
<1> USE DEF CoverInv
<1>1. ShapeInv' /\ ShapeInv /\ TypeInv
  BY ShapeInvStep DEF ShapeInv
<1>2. ASSUME ~Resume, NEW op \in {"entitlements", "grants"}, NEW r \in ToSet(resources),
             NEW n \in Nat \ {0}, Ahead(stack, op, r, n)
      PROVE  Ahead(stack', op, r, n) \/ Got(op, r, n)
  BY <1>1, <1>2, AheadStep DEF Got, SyncEntitlementsForResource, SyncGrantsForResource
<1>4. PICK next : next = stack'
  OBVIOUS
<1>5. PICK keep : keep = saved'
  OBVIOUS
<1>6. AllAhead(next)'
  <2>1. CASE ~Resume
    BY <1>1, <1>2, <1>4, <2>1, CoverKept, NewIsAhead
  <2>2. CASE Resume
    <3>1. next = saved
      BY <1>4, <2>2 DEF Resume
    <3> QED BY <1>1, <1>4, <3>1, CoverKept, NewIsAhead
  <2> QED BY <2>1, <2>2
<1>7. saved' = saved \/ (saved' = stack /\ ~Resume) \/ (saved' = stack' /\ InitSync)
  BY <1>1, StackStep DEF InitSync, Resume, Doing
<1>8. AllAhead(keep)'
  <2>1. CASE saved' = saved
    BY <1>1, <1>5, <2>1, CoverKept, NewIsAhead
  <2>2. CASE saved' = stack
    BY <1>1, <1>5, <2>2, CoverKept, NewIsAhead
  <2>3. CASE saved' = stack'
    BY <1>4, <1>5, <1>6, <2>3
  <2> QED BY <1>7, <2>1, <2>2, <2>3
<1>9. AllAhead(stack)'
  BY <1>4, <1>6 DEF AllAhead, NamelessAhead, MembershipAhead, RolesAhead, PermissionsAhead,
     MembersAhead, UsersAhead
<1>10. AllAhead(saved)'
  BY <1>5, <1>8 DEF AllAhead, NamelessAhead, MembershipAhead, RolesAhead, PermissionsAhead,
     MembersAhead, UsersAhead
<1> QED BY <1>1, <1>9, <1>10

\* With nothing in the store, nothing is missing.
LEMMA InitCoverInv == Init => CoverInv
<1> SUFFICES ASSUME Init PROVE CoverInv
  OBVIOUS
<1>1. resources = <<>> /\ ToSet(<<>>) = {}
  BY DEF Init, ToSet
<1> QED BY <1>1, InitShapeInv DEF CoverInv, AllAhead, NamelessAhead, MembershipAhead, RolesAhead,
        PermissionsAhead, MembersAhead, UsersAhead

\* CoverInv holds whenever runs stop, with and without cancellations.
LEMMA CoverIsInvariant == Spec => []CoverInv
<1>1. CoverInv /\ [Next]_vars => CoverInv'
  BY CoverStep
<1> QED BY <1>1, InitCoverInv, PTL DEF Spec

\* Nothing is ahead of a complete sync.
LEMMA CompleteIsAtTheEnd ==
  ASSUME ShapeInv, phase = "complete", NEW op, NEW r, NEW n
  PROVE  ~Ahead(stack, op, r, n)
BY DEF ShapeInv, PhaseInv, Ahead, ToSet

\* A complete sync has an entitlement for each role that speaks of the kind of a stored
\* source or function: no page of the roles is lost where a run stops, is resumed or finds
\* a cursor that does not advance.
THEOREM EntitlementsAreComplete == Spec => []CompleteHasEntitlements
<1>1. CoverInv => CompleteHasEntitlements
  <2> SUFFICES ASSUME CoverInv, phase = "complete", Trusted("role"), NEW r \in ToSet(resources),
                      NEW x \in Lasting("role"), r.kind \in RoleKind, r.kind \in NamesKind[x]
               PROVE  Entitlement(r.kind, r.id, x) \in entitlements
    BY DEF CompleteHasEntitlements
  <2>1. PICK n \in DOMAIN Pages["role"] : x \in Pages["role"][n] \ Passing
    BY PagedIds DEF Lasting, Everything, PagedKind
  <2>2. ~Ahead(stack, "entitlements", r, n)
    BY CompleteIsAtTheEnd DEF CoverInv
  <2> QED BY <2>1, <2>2 DEF CoverInv, AllAhead, RolesAhead
<1> QED BY <1>1, CoverIsInvariant, PTL

\* A complete sync lacks no grant of its users, groups and members that was true all the
\* time: neither a page of members nor a principal's accesses are lost where a run stops,
\* is cancelled or resumed.
THEOREM GrantsAreComplete == Spec => []CompleteHasGrants
<1>1. CoverInv => CompleteHasGrants
  <2> SUFFICES ASSUME CoverInv, phase = "complete", Trusted("principal"), Trusted("members"),
                      Trusted("user"), NEW g \in GrantsOf(HeldThroughout, Passing)
               PROVE  g \in grants
    BY DEF CompleteHasGrants
  <2>1. /\ ShapeInv /\ resources \in Seq(ResourceSet)
        /\ PermissionsAhead(stack) /\ MembersAhead(stack) /\ UsersAhead(stack)
    BY DEF CoverInv, AllAhead, ShapeInv, TypeInv, TypeOK
  <2>2. \A kind : \A id \in Stored(kind) :
          \E r \in ToSet(resources) : r.kind = kind /\ r.id = id /\ id \in Ever(kind)
    BY <2>1, StoredIs DEF Stored
  <2>3. \A op, r, n : ~Ahead(stack, op, r, n)
    BY <2>1, CompleteIsAtTheEnd
  <2>4. ASSUME NEW p, p \notin Passing, NEW kind \in {"user", "group"}, p \in Stored(kind),
               g \in PermissionGrants(kind, p, HeldThroughout[p])
        PROVE  g \in grants
    <3>1. PICK r \in ToSet(resources) : r.kind = kind /\ r.id = p
      BY <2>2, <2>4
    <3> QED BY <2>1, <2>3, <2>4, <3>1 DEF PermissionsAhead
  <2>5. ASSUME NEW h \in Stored("group"),
               g \in MemberGrants([kind |-> "group", id |-> h], Everything(MemberPages[h]) \ Passing)
        PROVE  g \in grants
    <3>1. PICK r \in ToSet(resources) : r.kind = "group" /\ r.id = h
      BY <2>2
    <3>2. PICK u \in Everything(MemberPages[h]) \ Passing : g \in MemberGrants(r, {u})
      BY <2>5, <3>1 DEF MemberGrants
    <3>3. PICK n \in DOMAIN MemberPages[h] : u \in MemberPages[h][n] \ Passing
      BY DEF Everything
    <3> QED BY <2>1, <2>3, <3>1, <3>2, <3>3 DEF MembersAhead
  <2>6. ASSUME NEW w \in Stored("workspace"),
               g \in MemberGrants([kind |-> "workspace", id |-> w], Ever("user") \ Passing)
        PROVE  g \in grants
    <3>1. PICK r \in ToSet(resources) : r.kind = "workspace" /\ r.id = w
      BY <2>2
    <3>2. PICK u \in Ever("user") \ Passing : g \in MemberGrants(r, {u})
      BY <2>6, <3>1 DEF MemberGrants
    <3>3. PICK n \in DOMAIN Pages["user"] : u \in Pages["user"][n] \ Passing
      BY PagedIds DEF Everything, PagedKind
    <3> QED BY <2>1, <2>3, <3>1, <3>2, <3>3 DEF UsersAhead
  <2> QED BY <2>4, <2>5, <2>6 DEF GrantsOf
<1> QED BY <1>1, CoverIsInvariant, PTL

=============================================================================
