----------------------------- MODULE SyncProofs -----------------------------
(***************************************************************************)
(* Proofs about Sync, for every workspace, whatever may be wrong with      *)
(* Segment's answers, and wherever the runs stop: the types, the shape of  *)
(* the stack, and that no grant is ever in the store that was never true.  *)
(***************************************************************************)
EXTENDS Sync, ReadingProofs

(***************************************************************************)
(* Sequences.                                                              *)
(***************************************************************************)

\* A sequence that is not empty is its Front with its Last behind it.
LEMMA SeqPop ==
  ASSUME NEW S, NEW s \in Seq(S), s # <<>>
  PROVE  /\ Last(s) \in S
         /\ Front(s) \in Seq(S)
         /\ Len(Front(s)) = Len(s) - 1
         /\ Last(s) = s[Len(s)] /\ Len(s) \in 1 .. Len(s)
         /\ \A i \in 1 .. Len(Front(s)) : Front(s)[i] = s[i]
         /\ ToSet(s) = ToSet(Front(s)) \cup {Last(s)}
<1>1. Len(s) \in Nat \ {0} /\ DOMAIN s = 1 .. Len(s)
  OBVIOUS
<1>2. Last(s) = s[Len(s)] /\ Last(s) \in S
  BY <1>1 DEF Last
<1>3. /\ Front(s) \in Seq(S) /\ Len(Front(s)) = Len(s) - 1
      /\ \A i \in 1 .. Len(Front(s)) : Front(s)[i] = s[i]
  BY <1>1 DEF Front
<1>4. DOMAIN Front(s) = 1 .. Len(s) - 1
  BY <1>3
<1>5. ToSet(s) = ToSet(Front(s)) \cup {Last(s)}
  BY <1>1, <1>2, <1>3, <1>4 DEF ToSet
<1> QED BY <1>1, <1>2, <1>3, <1>5

\* What Append adds is the last element, and the rest stays where it is.
LEMMA SeqAppend ==
  ASSUME NEW S, NEW s \in Seq(S), NEW e \in S
  PROVE  /\ Append(s, e) \in Seq(S)
         /\ Len(Append(s, e)) = Len(s) + 1
         /\ \A i \in 1 .. Len(s) : Append(s, e)[i] = s[i]
         /\ Append(s, e)[Len(s) + 1] = e
         /\ ToSet(Append(s, e)) = ToSet(s) \cup {e}
<1>1. /\ Append(s, e) \in Seq(S)
      /\ Len(Append(s, e)) = Len(s) + 1
      /\ \A i \in 1 .. Len(s) : Append(s, e)[i] = s[i]
      /\ Append(s, e)[Len(s) + 1] = e
  OBVIOUS
<1>2. DOMAIN s = 1 .. Len(s) /\ DOMAIN Append(s, e) = 1 .. Len(s) + 1 /\ Len(s) \in Nat
  BY <1>1
<1>3. ToSet(Append(s, e)) = ToSet(s) \cup {e}
  BY <1>1, <1>2 DEF ToSet
<1> QED BY <1>1, <1>3

\* Two sequences behind each other: both keep their order.
LEMMA SeqConcat ==
  ASSUME NEW S, NEW s \in Seq(S), NEW t \in Seq(S)
  PROVE  /\ s \o t \in Seq(S)
         /\ Len(s \o t) = Len(s) + Len(t) /\ Len(s) \in Nat /\ Len(t) \in Nat
         /\ \A i \in 1 .. Len(s) : (s \o t)[i] = s[i]
         /\ \A i \in 1 .. Len(t) : (s \o t)[Len(s) + i] = t[i]
         /\ ToSet(s \o t) = ToSet(s) \cup ToSet(t)
<1>1. /\ s \o t \in Seq(S)
      /\ Len(s \o t) = Len(s) + Len(t) /\ Len(s) \in Nat /\ Len(t) \in Nat
      /\ \A i \in 1 .. Len(s) : (s \o t)[i] = s[i]
      /\ \A i \in 1 .. Len(t) : (s \o t)[Len(s) + i] = t[i]
  OBVIOUS
<1>2. DOMAIN s = 1 .. Len(s) /\ DOMAIN t = 1 .. Len(t) /\ DOMAIN (s \o t) = 1 .. Len(s) + Len(t)
  BY <1>1
<1>3. \A i \in 1 .. Len(s) + Len(t) : i \in 1 .. Len(s) \/ i - Len(s) \in 1 .. Len(t)
  BY <1>1
<1>4. \A i \in 1 .. Len(s) + Len(t) : (s \o t)[i] \in ToSet(s) \cup ToSet(t)
  <2>1. TAKE i \in 1 .. Len(s) + Len(t)
  <2>2. CASE i \in 1 .. Len(s)
    BY <1>1, <1>2, <2>2 DEF ToSet
  <2>3. CASE i - Len(s) \in 1 .. Len(t)
    <3>1. (s \o t)[Len(s) + (i - Len(s))] = t[i - Len(s)] /\ Len(s) + (i - Len(s)) = i
      BY <1>1, <2>3
    <3> QED BY <1>2, <2>3, <3>1 DEF ToSet
  <2> QED BY <1>3, <2>2, <2>3
<1>5. \A i \in 1 .. Len(s) : s[i] \in ToSet(s \o t)
  BY <1>1, <1>2 DEF ToSet
<1>6. \A i \in 1 .. Len(t) : t[i] \in ToSet(s \o t)
  <2>1. \A i \in 1 .. Len(t) : Len(s) + i \in 1 .. Len(s) + Len(t)
    BY <1>1
  <2> QED BY <1>1, <1>2, <2>1 DEF ToSet
<1>7. ToSet(s \o t) = ToSet(s) \cup ToSet(t)
  BY <1>2, <1>4, <1>5, <1>6 DEF ToSet
<1> QED BY <1>1, <1>7

\* The elements of a sequence, by their values and by their places.
LEMMA SeqElements ==
  ASSUME NEW S, NEW s \in Seq(S)
  PROVE  /\ \A x \in ToSet(s) : x \in S
         /\ \A i \in 1 .. Len(s) : s[i] \in ToSet(s)
         /\ \A x \in ToSet(s) : \E i \in 1 .. Len(s) : x = s[i]
         /\ s # <<>> => Len(s) \in 1 .. Len(s)
BY DEF ToSet

(***************************************************************************)
(* The stack and the calls.                                                *)
(***************************************************************************)

\* An action of a whole step has None for its id.
LEMMA NoneIsAnId == None \in AnyId
BY DEF AnyId, ResourceId, Kind

\* The action of a whole step is an action.
LEMMA WholeType ==
  ASSUME NEW op \in Op
  PROVE  Whole(op) \in ActionSet /\ Whole(op).op = op /\ Whole(op).kind = None
<1> DEFINE a == Whole(op)
<1>1. a = [op |-> op, kind |-> None, id |-> None, parent |-> None, token |-> NoToken]
  BY DEF Whole, Action
<1>2. a.op = op /\ a.kind = None
  BY <1>1
<1>3. a \in [op : Op, kind : Kind \cup {None}, id : AnyId, parent : Parent,
             token : PageToken \cup {NoToken}]
  BY <1>1, NoneIsAnId DEF Parent
<1>4. a.kind = None /\ a = Whole(a.op)
  BY <1>2
<1> QED BY <1>2, <1>3, <1>4 DEF ActionSet

\* So is one for a kind of resource, or for one resource.
LEMMA ActionType ==
  ASSUME NEW op \in Op, NEW kind \in Kind, NEW id \in AnyId,
         NEW parent \in Parent, op # "resources" => id \in ResourceId(kind)
  PROVE  Action(op, kind, id, parent) \in ActionSet
<1>1. kind # None
  BY ConnectorAssumption DEF Kind
<1> QED BY <1>1 DEF Action, ActionSet

\* The current action and what is below it.
LEMMA CurrentType ==
  ASSUME stack \in Seq(ActionSet), stack # <<>>
  PROVE  /\ Current \in ActionSet
         /\ Finished \in Seq(ActionSet)
         /\ ToSet(stack) = ToSet(Finished) \cup {Current}
         /\ Current.op \in Op /\ Current.parent \in Parent /\ Current.token \in Token
         /\ Current.kind # None => Current.kind \in Kind
         /\ Current.kind = None => Current = Whole(Current.op)
         /\ Current.kind # None /\ Current.op # "resources" => Current.id \in ResourceId(Current.kind)
<1>1. /\ Current \in ActionSet
      /\ Finished \in Seq(ActionSet)
      /\ ToSet(stack) = ToSet(Finished) \cup {Current}
  BY SeqPop DEF Current, Finished
<1> QED BY <1>1 DEF ActionSet, Token

\* The current action with another token.
LEMMA TurnedType ==
  ASSUME stack \in Seq(ActionSet), stack # <<>>, Current.kind # None, NEW next \in Token
  PROVE  LET turned == [Current EXCEPT !.token = next]
         IN  /\ turned \in ActionSet
             /\ turned.op = Current.op /\ turned.kind = Current.kind /\ turned.id = Current.id
             /\ turned.parent = Current.parent /\ turned.token = next
BY CurrentType DEF ActionSet, Token

\* Turn leaves what is below the current action, and the action itself when there is a
\* next page.
LEMMA TurnIs ==
  ASSUME stack \in Seq(ActionSet), stack # <<>>, Current.kind # None, NEW next \in Token,
         Turn(next)
  PROVE  /\ stack' \in Seq(ActionSet)
         /\ ToSet(stack') = ToSet(Finished) \cup
              (IF next = NoToken THEN {} ELSE {[Current EXCEPT !.token = next]})
<1>1. Finished \in Seq(ActionSet)
  BY CurrentType
<1>2. CASE next = NoToken
  BY <1>1, <1>2 DEF Turn
<1>3. CASE next # NoToken
  <2>1. stack' = Append(Finished, [Current EXCEPT !.token = next])
    BY <1>3 DEF Turn
  <2>2. [Current EXCEPT !.token = next] \in ActionSet
    BY TurnedType
  <2> QED BY <1>1, <1>3, <2>1, <2>2, SeqAppend
<1> QED BY <1>2, <1>3

\* PushAll leaves what is below the current action, and puts the new ones above.
LEMMA PushAllIs ==
  ASSUME stack \in Seq(ActionSet), stack # <<>>, NEW actions \in Seq(ActionSet),
         stack' = PushAll(actions)
  PROVE  /\ stack' \in Seq(ActionSet)
         /\ ToSet(stack') = ToSet(Finished) \cup ToSet(actions)
BY CurrentType, SeqConcat DEF PushAll

\* What the steps push.
StepActions == <<Whole("expansion"), Whole("grants"), Whole("entitlements"),
                 Whole("resources"), Whole("types")>>
KindActions == [i \in DOMAIN TypeOrder |-> Action("resources", TypeOrder[i], None, None)]
ResourceActions(op) == [i \in DOMAIN resources |->
                          Action(op, resources[i].kind, resources[i].id, None)]

\* What InitSync pushes: the five steps of a sync.
LEMMA StepActionsType ==
  /\ StepActions \in Seq(ActionSet) /\ Len(StepActions) = 5
  /\ ToSet(StepActions) = {Whole("expansion"), Whole("grants"), Whole("entitlements"),
                           Whole("resources"), Whole("types")}
<1>1. /\ StepActions \in Seq(ActionSet) /\ Len(StepActions) = 5
  BY WholeType DEF StepActions, Op
<1> QED BY <1>1 DEF StepActions, ToSet

\* What SyncResources pushes: one listing for each kind.
LEMMA KindActionsType ==
  /\ KindActions \in Seq(ActionSet)
  /\ ToSet(KindActions) = {Action("resources", kind, None, None) : kind \in Kind}
<1>1. TypeOrder \in Seq(Kind) /\ DOMAIN TypeOrder = 1 .. 8
  BY DEF TypeOrder, Kind, ChildKind, PagedKind
<1>2. {TypeOrder[i] : i \in DOMAIN TypeOrder} = Kind
  BY DEF TypeOrder, Kind, ChildKind, PagedKind
<1>3. \A i \in 1 .. 8 : Action("resources", TypeOrder[i], None, None) \in ActionSet
  <2>1. \A i \in 1 .. 8 : TypeOrder[i] \in Kind
    BY DEF TypeOrder, Kind, ChildKind, PagedKind
  <2>2. "resources" \in Op /\ None \in Parent
    BY DEF Op, Parent
  <2> QED BY <2>1, <2>2, NoneIsAnId, ActionType
<1>4. KindActions \in Seq(ActionSet)
  BY <1>1, <1>3 DEF KindActions
<1>5. ToSet(KindActions) = {KindActions[i] : i \in DOMAIN TypeOrder}
  BY <1>1 DEF KindActions, ToSet
<1> QED BY <1>2, <1>4, <1>5 DEF KindActions

\* What SyncEntitlements and SyncGrants push: an action for each stored resource.
LEMMA ResourceActionsType ==
  ASSUME resources \in Seq(ResourceSet), NEW op \in Op
  PROVE  /\ ResourceActions(op) \in Seq(ActionSet)
         /\ ToSet(ResourceActions(op)) =
              {Action(op, r.kind, r.id, None) : r \in ToSet(resources)}
<1>1. DOMAIN resources = 1 .. Len(resources) /\ Len(resources) \in Nat
  OBVIOUS
<1>2. \A i \in 1 .. Len(resources) : resources[i] \in ResourceSet
  OBVIOUS
<1>3. \A i \in 1 .. Len(resources) :
        Action(op, resources[i].kind, resources[i].id, None) \in ActionSet
  BY <1>2, ActionType DEF ResourceSet, Parent
<1>4. ResourceActions(op) \in Seq(ActionSet) /\ DOMAIN ResourceActions(op) = 1 .. Len(resources)
  BY <1>1, <1>3 DEF ResourceActions
<1> QED BY <1>1, <1>4 DEF ResourceActions, ToSet

\* What a resource pushes when it is put: a listing of each kind for the workspace,
\* nothing for the others.
LEMMA SubActionsType ==
  ASSUME NEW r \in ResourceSet
  PROVE  /\ SubActions(r) \in Seq(ActionSet)
         /\ ToSet(SubActions(r)) =
              IF r.kind = "workspace" THEN {Action("resources", kind, None, r.id) : kind \in ChildKind}
                                      ELSE {}
<1>1. CASE r.kind # "workspace"
  BY <1>1 DEF SubActions, ToSet
<1>2. CASE r.kind = "workspace"
  <2>1. Children \in Seq(Kind) /\ DOMAIN Children = 1 .. 7
    BY DEF Children, Kind, ChildKind, PagedKind
  <2>2. {Children[i] : i \in DOMAIN Children} = ChildKind
    BY DEF Children, Kind, ChildKind, PagedKind
  <2>3. r.id \in Parent
    BY <1>2 DEF ResourceSet, ResourceId, Ever, Parent
  <2>4. \A i \in 1 .. 7 : Action("resources", Children[i], None, r.id) \in ActionSet
    <3>1. \A i \in 1 .. 7 : Children[i] \in Kind
      BY DEF Children, Kind, ChildKind, PagedKind
    <3>2. "resources" \in Op
      BY DEF Op
    <3> QED BY <2>3, <3>1, <3>2, NoneIsAnId, ActionType
  <2>5. SubActions(r) \in Seq(ActionSet) /\ DOMAIN SubActions(r) = DOMAIN Children
    BY <1>2, <2>1, <2>4 DEF SubActions
  <2> QED BY <1>2, <2>2, <2>5 DEF SubActions, ToSet
<1> QED BY <1>1, <1>2

(***************************************************************************)
(* Types.                                                                  *)
(***************************************************************************)

TypeInv == TypeOK /\ (phase = "act" => stack # <<>>)

\* The call of the connector is the one its action is for.
LEMMA CallIs ==
  ASSUME NEW op, OneOf(op), op \in {"resources", "entitlements", "grants"}
  PROVE  /\ op = "resources" => Call = List(Current.kind, Current.parent, Current.token, World)
         /\ op = "entitlements" => Call = Entitlements(Current, Current.token, World)
         /\ op = "grants" => Call = Grants(Current, Current.token, World)
BY DEF Call, OneOf, Doing

\* The page of a step: what it yields for the store, and its token.
LEMMA CallType ==
  ASSUME TypeInv, NEW op, Calls(op), op \in {"resources", "entitlements", "grants"}
  PROVE  /\ op = "resources" => Call.items \subseteq ResourceSet
         /\ op = "entitlements" => Call.items \subseteq EntitlementSet
         /\ Call.next \in Token
         /\ Current.kind # None /\ stack # <<>> /\ stack \in Seq(ActionSet)
<1>1. /\ OneOf(op) /\ Call.ok
      /\ Current.kind # None /\ stack # <<>> /\ stack \in Seq(ActionSet)
  BY DEF Calls, OneOf, Doing, TypeInv, TypeOK
<1>2. /\ Current \in ActionSet /\ Current.kind \in Kind
      /\ Current.parent \in Parent /\ Current.token \in Token
  BY <1>1, CurrentType
<1>3. CASE op = "resources"
  BY <1>1, <1>2, <1>3, CallIs, ListType
<1>4. CASE op = "entitlements"
  <2>1. Current.id # None /\ Call.next \in Token
    BY <1>1, <1>2, <1>4, CallIs, EntitlementsHaveIds, EntitlementsType
  <2>2. Current.id \in UNION {Ever(kind) : kind \in Kind}
    BY <1>2, <2>1 DEF ActionSet, AnyId, ResourceId
  <2>3. \A name \in Role \cup {"member"} :
          Entitlement(Current.kind, Current.id, name) \in EntitlementSet
    BY <1>2, <2>2 DEF Entitlement, EntitlementSet
  <2>r. Role = Ever("role")
    BY PagedIds DEF PagedKind, Role
  <2>4. Call.items \subseteq EntitlementSet
    BY <1>1, <1>2, <1>4, <2>3, <2>r, CallIs, EntitlementsType
  <2> QED BY <1>1, <1>4, <2>1, <2>4
<1>5. CASE op = "grants"
  <2>1. Current.id # None
    BY <1>1, <1>5, CallIs, GrantsHaveIds
  <2>2. Current.op = "grants"
    BY <1>1, <1>5 DEF OneOf, Doing
  <2>3. Current.id \in Ever(Current.kind)
    BY <1>1, <2>1, <2>2, CurrentType DEF ResourceId
  <2> QED BY <1>1, <1>2, <1>5, <2>3, CallIs, GrantsType
<1> QED BY <1>3, <1>4, <1>5

\* A sync begins well typed.
LEMMA InitTypeInv == Init => TypeInv
<1> SUFFICES ASSUME Init PROVE TypeInv
  OBVIOUS
<1>1. <<Whole("init")>> \in Seq(ActionSet)
  BY WholeType DEF Op
<1> QED BY <1>1, SyncAssumption DEF Init, TypeInv, TypeOK, Phase

\* Every step keeps the types, one case per action.
LEMMA TypeStep ==
  ASSUME TypeInv, [Next]_vars
  PROVE  TypeInv'
<1> USE DEF TypeInv, TypeOK, Phase, stored, world, segment
<1>1. CASE Checkpoint
  BY <1>1 DEF Checkpoint
<1>2. CASE EndSync
  BY <1>2 DEF EndSync
<1>3. CASE InitSync
  <2>1. stack' \in Seq(ActionSet)
    BY <1>3, PushAllIs, StepActionsType DEF InitSync, Doing, StepActions
  <2> QED BY <1>3, <2>1 DEF InitSync, Doing
<1>4. CASE SyncResourceTypes
  <2>1. ToSet(TypeOrder) \subseteq Kind
    BY DEF TypeOrder, ToSet, Kind, ChildKind, PagedKind
  <2>2. Finished \in Seq(ActionSet)
    BY <1>4, CurrentType DEF SyncResourceTypes, Doing
  <2> QED BY <1>4, <2>1, <2>2 DEF SyncResourceTypes, Doing
<1>5. CASE SyncResources
  <2>1. stack' \in Seq(ActionSet)
    BY <1>5, PushAllIs, KindActionsType DEF SyncResources, AllOf, Doing, KindActions
  <2> QED BY <1>5, <2>1 DEF SyncResources, AllOf, Doing
<1>6. CASE SyncResourcesOfKind
  <2>1. Calls("resources") /\ Turn(Call.next)
    BY <1>6 DEF SyncResourcesOfKind
  <2>2. stack' \in Seq(ActionSet) /\ Call.items \subseteq ResourceSet
    BY <2>1, CallType, TurnIs
  <2> QED BY <1>6, <2>2 DEF SyncResourcesOfKind
<1>7. ASSUME NEW r \in pending, PutResource(r) PROVE TypeInv'
  <2>1. r \in ResourceSet
    OBVIOUS
  <2>2. SubActions(r) \in Seq(ActionSet)
    BY <2>1, SubActionsType
  <2>3. stack \o SubActions(r) \in Seq(ActionSet) /\ Append(resources, r) \in Seq(ResourceSet)
    BY <2>1, <2>2
  <2>4. stack' \in Seq(ActionSet) /\ resources' \in Seq(ResourceSet)
    BY <1>7, <2>3 DEF PutResource
  <2> QED BY <1>7, <2>4 DEF PutResource
<1>8. CASE PagePut
  BY <1>8 DEF PagePut
<1>9. ASSUME NEW op \in {"entitlements", "grants"}, PushForEachResource(op) PROVE TypeInv'
  <2>1. stack' \in Seq(ActionSet)
    BY <1>9, PushAllIs, ResourceActionsType
    DEF PushForEachResource, AllOf, Doing, ResourceActions, Op
  <2> QED BY <1>9, <2>1 DEF PushForEachResource, AllOf, Doing
<1>10. CASE SyncEntitlementsForResource
  <2>1. Calls("entitlements") /\ Turn(Call.next)
    BY <1>10 DEF SyncEntitlementsForResource
  <2>2. stack' \in Seq(ActionSet) /\ Call.items \subseteq EntitlementSet
    BY <2>1, CallType, TurnIs
  <2> QED BY <1>10, <2>2 DEF SyncEntitlementsForResource, Calls, OneOf, Doing
<1>11. CASE SyncGrantsForResource
  <2>1. Calls("grants") /\ Turn(Call.next)
    BY <1>11 DEF SyncGrantsForResource
  <2>2. stack' \in Seq(ActionSet)
    BY <2>1, CallType, TurnIs
  <2> QED BY <1>11, <2>2 DEF SyncGrantsForResource, Calls, OneOf, Doing
<1>12. CASE SyncGrantExpansion
  <2>1. Finished \in Seq(ActionSet)
    BY <1>12, CurrentType DEF SyncGrantExpansion, Doing
  <2> QED BY <1>12, <2>1 DEF SyncGrantExpansion, Doing
<1>13. CASE Resume
  BY <1>13 DEF Resume
<1>14. CASE Fail \/ FailForGood \/ Cancel
  BY <1>14, SyncAssumption DEF Fail, FailForGood, Cancel, Stop
<1>15. ASSUME NEW p, (p \in Deletable /\ Delete(p)) \/ (p \in Newcomers /\ Create(p)) PROVE TypeInv'
  BY <1>15 DEF Delete, Create
<1>16. ASSUME NEW c \in Changing, Change(c) PROVE TypeInv'
  BY <1>16 DEF Change
<1>17. ASSUME NEW a \in Ailments, FallIll(a) PROVE TypeInv'
  BY <1>17 DEF FallIll
<1>18. CASE Recover
  BY <1>18 DEF Recover
<1>19. CASE Done \/ UNCHANGED vars
  BY <1>19 DEF Done, vars
<1> QED
  BY <1>1, <1>2, <1>3, <1>4, <1>5, <1>6, <1>7, <1>8, <1>9, <1>10, <1>11, <1>12, <1>13, <1>14,
     <1>15, <1>16, <1>17, <1>18, <1>19 DEF Next, SyncerStep, SyncEntitlements, SyncGrants

\* Every reachable state is well typed: a page is only kept by a run that puts it, an id
\* or a token is always one of Segment, whatever it answers and wherever the runs stop.
THEOREM SyncTypes == Spec => []TypeOK
<1>1. Init => TypeInv
  BY InitTypeInv
<1>2. TypeInv /\ [Next]_vars => TypeInv'
  BY TypeStep
<1>3. TypeInv => TypeOK
  BY DEF TypeInv
<1> QED BY <1>1, <1>2, <1>3, PTL DEF Spec

(***************************************************************************)
(* What only grows.                                                        *)
(***************************************************************************)

\* A resource is stored when it is an element of the store.
LEMMA StoredIs ==
  ASSUME resources \in Seq(ResourceSet), NEW kind, NEW id
  PROVE  IsStored(kind, id) <=> \E r \in ToSet(resources) : r.kind = kind /\ r.id = id
BY DEF IsStored, ToSet

\* A step adds to the store, and to the history of Segment, and takes nothing away; a
\* resource it adds is one of the page that is being put.
LEMMA Growing ==
  ASSUME TypeInv, [Next]_vars
  PROVE  /\ ToSet(resources) \subseteq ToSet(resources')
         /\ \A r \in ToSet(resources') \ ToSet(resources) : phase = "put" /\ r \in pending
         /\ entitlements \subseteq entitlements' /\ grants \subseteq grants'
         /\ Passing \subseteq Passing' /\ changed \subseteq changed' /\ hadIll \subseteq hadIll'
<1> USE DEF stored, world, segment
<1>1. ASSUME NEW r \in pending, PutResource(r)
      PROVE  /\ ToSet(resources) \subseteq ToSet(resources')
             /\ ToSet(resources') \subseteq ToSet(resources) \cup {r}
             /\ phase = "put"
  <2>1. r \in ResourceSet /\ resources \in Seq(ResourceSet)
    BY DEF TypeInv, TypeOK
  <2>2. ToSet(Append(resources, r)) = ToSet(resources) \cup {r}
    BY <2>1, SeqAppend
  <2> QED BY <1>1, <2>2 DEF PutResource
<1>2. CASE \E r \in pending : PutResource(r)
  BY <1>1, <1>2 DEF PutResource, Passing
<1>3. CASE UNCHANGED resources
  <2>1. /\ entitlements \subseteq entitlements' /\ grants \subseteq grants'
        /\ Passing \subseteq Passing' /\ changed \subseteq changed' /\ hadIll \subseteq hadIll'
    BY DEF Next, SyncerStep, vars, Checkpoint, EndSync, InitSync, SyncResourceTypes,
       SyncResources, SyncResourcesOfKind, PutResource, PagePut, SyncEntitlements, SyncGrants,
       PushForEachResource, SyncEntitlementsForResource, SyncGrantsForResource,
       SyncGrantExpansion, Resume, Fail, FailForGood, Cancel, Stop, Done, Delete, Create, Change,
       FallIll, Recover, Passing
  <2> QED BY <1>3, <2>1
<1>4. (\E r \in pending : PutResource(r)) \/ UNCHANGED resources
  BY DEF Next, SyncerStep, vars, Checkpoint, EndSync, InitSync, SyncResourceTypes,
     SyncResources, SyncResourcesOfKind, PagePut, SyncEntitlements, SyncGrants,
     PushForEachResource, SyncEntitlementsForResource, SyncGrantsForResource,
     SyncGrantExpansion, Resume, Fail, FailForGood, Cancel, Stop, Done, Delete, Create, Change,
     FallIll, Recover
<1> QED BY <1>2, <1>3, <1>4

\* What is stored stays stored.
LEMMA StoredStays ==
  ASSUME TypeInv, [Next]_vars, NEW kind, NEW id, IsStored(kind, id)
  PROVE  IsStored(kind, id)'
<1>1. PICK r \in ToSet(resources) : r.kind = kind /\ r.id = id
  BY StoredIs DEF TypeInv, TypeOK
<1>2. r \in ToSet(resources')
  BY <1>1, Growing
<1> QED BY <1>1, <1>2 DEF IsStored, ToSet

(***************************************************************************)
(* The shape of the stack: the steps of a sync are done one after another, *)
(* whatever pages and resources they push, and wherever the runs stop.     *)
(***************************************************************************)
Rank == [expansion |-> 0, grants |-> 1, entitlements |-> 2, resources |-> 3, types |-> 4,
         init |-> 5]
Steps == {Whole("entitlements"), Whole("grants")}

\* Nothing lies above an action of a later step, or the whole of the listing below a
\* part of it.
Ordered(s) ==
  \A i, j \in 1 .. Len(s) : i < j =>
    /\ Rank[s[i].op] <= Rank[s[j].op]
    /\ s[i] = Whole("resources") => s[j].op # "resources"

\* The first action is alone, and below every action the steps that follow it are whole.
Continues(s) ==
  \A a \in ToSet(s) :
    /\ a.op = "init" => Len(s) = 1
    /\ a.op \in {"types", "resources"} => Steps \subseteq ToSet(s)
    /\ a.op = "entitlements" => Whole("grants") \in ToSet(s)

Shape(s) == Ordered(s) /\ Continues(s)

\* Entitlements and grants are asked for of resources in the store.
Grounded(s) ==
  \A a \in ToSet(s) :
    a.op \in {"entitlements", "grants"} /\ a.kind # None => IsStored(a.kind, a.id)

PhaseInv ==
  /\ phase = "act" => saved = stack
  /\ phase = "put" =>
       /\ Steps \subseteq ToSet(stack) \cap ToSet(saved)
       /\ \A a \in ToSet(stack) : Rank[a.op] <= 3 /\ a # Whole("resources")
  /\ phase = "complete" => stack = <<>>

ShapeInv == /\ TypeInv
            /\ Shape(stack) /\ Shape(saved)
            /\ Grounded(stack) /\ Grounded(saved)
            /\ PhaseInv

\* Nothing lies above the top of a stack.
LEMMA TopRank ==
  ASSUME NEW s \in Seq(ActionSet), s # <<>>, Ordered(s), NEW a \in ToSet(s)
  PROVE  Rank[a.op] <= Rank[Last(s).op]
<1>1. PICK i \in 1 .. Len(s) : a = s[i]
  BY SeqElements
<1>2. Last(s) = s[Len(s)] /\ Len(s) \in 1 .. Len(s) /\ Last(s) \in ActionSet
  BY SeqPop
<1>3. Rank[Last(s).op] \in Int
  BY <1>2 DEF ActionSet, Op, Rank
<1>4. CASE i = Len(s)
  BY <1>1, <1>2, <1>3, <1>4
<1>5. CASE i < Len(s)
  BY <1>1, <1>2, <1>5 DEF Ordered
<1> QED BY <1>1, <1>4, <1>5

\* The top action gives way to actions of the same step.
LEMMA ReplaceShape ==
  ASSUME NEW s \in Seq(ActionSet), s # <<>>, Shape(s), Last(s).op # "init",
         NEW t \in Seq(ActionSet),
         \A a \in ToSet(t) : a.op = Last(s).op /\ a # Whole("resources")
  PROVE  Shape(Front(s) \o t)
<1> DEFINE f == Front(s)
           top == Last(s)
           n == Len(f)
<1> USE DEF Shape
<1>1. /\ f \in Seq(ActionSet) /\ top \in ActionSet /\ n = Len(s) - 1 /\ top = s[Len(s)]
      /\ Len(s) \in 1 .. Len(s)
      /\ \A i \in 1 .. n : f[i] = s[i]
      /\ ToSet(s) = ToSet(f) \cup {top}
  BY SeqPop
<1>r. \A a \in ToSet(s) : Rank[a.op] <= Rank[top.op]
  BY TopRank
<1>q. Front(s) = f /\ top.op # "init"
  OBVIOUS
<1> HIDE DEF f, top
<1>2. /\ f \o t \in Seq(ActionSet) /\ Len(f \o t) = n + Len(t) /\ n \in Nat /\ Len(t) \in Nat
      /\ \A i \in 1 .. n : (f \o t)[i] = f[i]
      /\ \A i \in 1 .. Len(t) : (f \o t)[n + i] = t[i]
      /\ ToSet(f \o t) = ToSet(f) \cup ToSet(t)
  <2>1. f \in Seq(ActionSet)
    BY <1>1
  <2> QED BY ONLY <2>1, t \in Seq(ActionSet), SeqConcat
<1>3. \A i \in 1 .. Len(t) : t[i].op = top.op /\ t[i] # Whole("resources")
  BY SeqElements DEF top
<1>4. Rank[top.op] \in Int
  BY <1>1 DEF ActionSet, Op, Rank
<1>5. Ordered(f \o t)
  <2>s. \A i, j \in 1 .. Len(s) : i < j =>
          Rank[s[i].op] <= Rank[s[j].op] /\ (s[i] = Whole("resources") => s[j].op # "resources")
    BY DEF Ordered
  <2> SUFFICES ASSUME NEW i \in 1 .. Len(f \o t), NEW j \in 1 .. Len(f \o t), i < j
               PROVE  /\ Rank[(f \o t)[i].op] <= Rank[(f \o t)[j].op]
                      /\ (f \o t)[i] = Whole("resources") => (f \o t)[j].op # "resources"
    BY DEF Ordered
  <2>1. CASE j <= n
    <3>1. i \in 1 .. n /\ j \in 1 .. n /\ i \in 1 .. Len(s) /\ j \in 1 .. Len(s)
      BY <1>1, <1>2, <2>1
    <3>2. (f \o t)[i] = s[i] /\ (f \o t)[j] = s[j]
      BY <1>1, <1>2, <3>1
    <3> QED BY <2>s, <3>1, <3>2
  <2>2. CASE i <= n /\ j > n
    <3>1. j - n \in 1 .. Len(t) /\ n + (j - n) = j
      BY <1>2, <2>2
    <3>2. (f \o t)[j].op = top.op
      BY <1>2, <1>3, <3>1
    <3>3. (f \o t)[i] = s[i] /\ i \in 1 .. Len(s) /\ i < Len(s)
      BY <1>1, <1>2, <2>2
    <3>4. Rank[s[i].op] <= Rank[top.op] /\ (s[i] = Whole("resources") => top.op # "resources")
      BY <1>1, <2>s, <3>3
    <3> QED BY <3>2, <3>3, <3>4
  <2>3. CASE i > n
    <3>1. /\ j - n \in 1 .. Len(t) /\ n + (j - n) = j
          /\ i - n \in 1 .. Len(t) /\ n + (i - n) = i
      BY <1>2, <2>3
    <3>2. (f \o t)[j].op = top.op /\ (f \o t)[i].op = top.op /\ (f \o t)[i] # Whole("resources")
      BY <1>2, <1>3, <3>1
    <3> QED BY <1>4, <3>2
  <2>4. j <= n \/ (i <= n /\ j > n) \/ i > n
    BY <1>2
  <2> QED BY <2>1, <2>2, <2>3, <2>4
<1>6. Continues(f \o t)
  <2> SUFFICES ASSUME NEW a \in ToSet(f \o t)
               PROVE  /\ a.op # "init"
                      /\ a.op \in {"types", "resources"} => Steps \subseteq ToSet(f)
                      /\ a.op = "entitlements" => Whole("grants") \in ToSet(f)
    BY <1>2 DEF Continues
  <2>1. PICK b \in ToSet(s) : a.op = b.op
    BY <1>1, <1>2 DEF top
  <2>2. Rank[b.op] <= Rank[top.op] /\ b.op \in Op /\ top.op \in Op
    <3>1. b \in ActionSet
      BY SeqElements
    <3> QED BY <1>1, <1>r, <3>1 DEF ActionSet
  <2>3. b.op # "init"
    BY <1>q, <2>2 DEF Rank, Op
  <2>4. ASSUME b.op \in {"types", "resources"} PROVE Steps \subseteq ToSet(f)
    <3>1. top \notin Steps
      BY <2>2, <2>4, WholeType DEF Rank, Op, Steps
    <3> QED BY <1>1, <2>4, <3>1 DEF Continues
  <2>5. ASSUME b.op = "entitlements" PROVE Whole("grants") \in ToSet(f)
    <3>1. top # Whole("grants")
      BY <2>2, <2>5, WholeType DEF Rank, Op
    <3> QED BY <1>1, <2>5, <3>1 DEF Continues
  <2> QED BY <2>1, <2>3, <2>4, <2>5
<1> QED BY <1>5, <1>6, <1>q

\* So does that of the stack.
LEMMA StackReplaced ==
  ASSUME TypeInv, phase = "act", Shape(stack), Current.op # "init",
         NEW t \in Seq(ActionSet), stack' = Finished \o t,
         \A a \in ToSet(t) : a.op = Current.op /\ a # Whole("resources")
  PROVE  Shape(stack')
BY ReplaceShape DEF TypeInv, TypeOK, Current, Finished

\* What a sync begins with has the shape.
LEMMA FirstShape == Shape(<<Whole("init")>>) /\ Shape(StepActions)
<1>1. /\ <<Whole("init")>> \in Seq(ActionSet) /\ Len(<<Whole("init")>>) = 1
      /\ ToSet(<<Whole("init")>>) = {Whole("init")}
  BY WholeType DEF ToSet, Op
<1>2. Shape(<<Whole("init")>>)
  BY <1>1, WholeType DEF Shape, Ordered, Continues, Op
<1>3. /\ Whole("expansion").op = "expansion" /\ Whole("grants").op = "grants"
      /\ Whole("entitlements").op = "entitlements" /\ Whole("resources").op = "resources"
      /\ Whole("types").op = "types"
  BY WholeType DEF Op
<1>4. /\ StepActions[1] = Whole("expansion") /\ StepActions[2] = Whole("grants")
      /\ StepActions[3] = Whole("entitlements") /\ StepActions[4] = Whole("resources")
      /\ StepActions[5] = Whole("types")
  BY DEF StepActions
<1>5. Ordered(StepActions)
  <2> SUFFICES ASSUME NEW i \in 1 .. 5, NEW j \in 1 .. 5, i < j
               PROVE  /\ Rank[StepActions[i].op] <= Rank[StepActions[j].op]
                      /\ StepActions[i] = Whole("resources") => StepActions[j].op # "resources"
    BY StepActionsType DEF Ordered
  <2>1. i \in {1, 2, 3, 4, 5} /\ j \in {1, 2, 3, 4, 5}
    OBVIOUS
  <2> QED BY <1>3, <1>4, <2>1 DEF Rank
<1>6. Continues(StepActions)
  BY <1>3, StepActionsType DEF Continues, Steps
<1> QED BY <1>2, <1>5, <1>6 DEF Shape

\* So has a stack that the children of the workspace are pushed on.
LEMMA PutShape ==
  ASSUME NEW s \in Seq(ActionSet), Shape(s), Steps \subseteq ToSet(s),
         \A a \in ToSet(s) : Rank[a.op] <= 3 /\ a # Whole("resources"),
         NEW t \in Seq(ActionSet), \A a \in ToSet(t) : a.op = "resources" /\ a # Whole("resources")
  PROVE  Shape(s \o t)
<1> DEFINE n == Len(s)
<1>1. /\ s \o t \in Seq(ActionSet) /\ Len(s \o t) = n + Len(t) /\ n \in Nat /\ Len(t) \in Nat
      /\ \A i \in 1 .. n : (s \o t)[i] = s[i]
      /\ \A i \in 1 .. Len(t) : (s \o t)[n + i] = t[i]
      /\ ToSet(s \o t) = ToSet(s) \cup ToSet(t)
  BY ONLY s \in Seq(ActionSet), t \in Seq(ActionSet), SeqConcat
<1>2. \A i \in 1 .. Len(t) : t[i].op = "resources" /\ t[i] # Whole("resources")
  BY SeqElements
<1>3. \A i \in 1 .. n : Rank[s[i].op] <= 3 /\ s[i] # Whole("resources")
  BY SeqElements
<1>4. Ordered(s \o t)
  <2>s. \A i, j \in 1 .. n : i < j => Rank[s[i].op] <= Rank[s[j].op]
    BY DEF Shape, Ordered
  <2>r. Rank["resources"] = 3
    BY DEF Rank
  <2> SUFFICES ASSUME NEW i \in 1 .. Len(s \o t), NEW j \in 1 .. Len(s \o t), i < j
               PROVE  /\ Rank[(s \o t)[i].op] <= Rank[(s \o t)[j].op]
                      /\ (s \o t)[i] # Whole("resources")
    BY DEF Ordered
  <2>1. i \in 1 .. n \/ (i - n \in 1 .. Len(t) /\ n + (i - n) = i)
    BY <1>1
  <2>2. j \in 1 .. n \/ (j - n \in 1 .. Len(t) /\ n + (j - n) = j)
    BY <1>1
  <2>3. (s \o t)[i] # Whole("resources") /\ Rank[(s \o t)[i].op] <= 3
    <3>1. CASE i \in 1 .. n
      <4>1. (s \o t)[i] = s[i]
        BY <1>1, <3>1
      <4> QED BY <1>3, <3>1, <4>1
    <3>2. CASE i - n \in 1 .. Len(t) /\ n + (i - n) = i
      <4>1. (s \o t)[i] = t[i - n]
        BY <1>1, <3>2
      <4>2. t[i - n].op = "resources" /\ t[i - n] # Whole("resources")
        BY <1>2, <3>2
      <4> QED BY <2>r, <4>1, <4>2
    <3> QED BY <2>1, <3>1, <3>2
  <2>4. CASE j \in 1 .. n
    BY <1>1, <2>s, <2>3, <2>4
  <2>5. CASE j - n \in 1 .. Len(t) /\ n + (j - n) = j
    <3>1. (s \o t)[j].op = "resources"
      BY <1>1, <1>2, <2>5
    <3> QED BY <2>3, <2>r, <3>1
  <2> QED BY <2>2, <2>4, <2>5
<1>5. Continues(s \o t)
  <2> SUFFICES ASSUME NEW a \in ToSet(s \o t)
               PROVE  /\ a.op # "init"
                      /\ a.op = "entitlements" => Whole("grants") \in ToSet(s)
    BY <1>1 DEF Continues
  <2>1. CASE a \in ToSet(s)
    BY <2>1 DEF Shape, Continues, Rank
  <2>2. CASE a \in ToSet(t)
    BY <2>2
  <2> QED BY <1>1, <2>1, <2>2
<1> QED BY <1>4, <1>5 DEF Shape

\* The actions a step pushes are not the whole of the listing.
LEMMA NotWhole ==
  ASSUME NEW op, NEW kind \in Kind, NEW id, NEW parent
  PROVE  /\ Action(op, kind, id, parent) # Whole("resources")
         /\ Action(op, kind, id, parent).op = op /\ Action(op, kind, id, parent).kind = kind
         /\ Action(op, kind, id, parent).id = id /\ Action(op, kind, id, parent).parent = parent
         /\ Action(op, kind, id, parent).token = NoToken
BY ConnectorAssumption DEF Whole, Action, Kind

\* What a step does to the stack: nothing, or the next run's is the saved one; the
\* current action gives way to others of its step; or the children of a workspace are
\* pushed on it.
LEMMA StackStep ==
  ASSUME TypeInv, [Next]_vars
  PROVE  \/ stack' = stack /\ saved' \in {saved, stack}
         \/ Resume
         \/ InitSync
         \/ /\ phase = "act" /\ Current.op # "init" /\ saved' = saved
            /\ \E t \in Seq(ActionSet) :
                 /\ stack' = Finished \o t
                 /\ \A a \in ToSet(t) : /\ a.op = Current.op /\ a # Whole("resources")
                                        /\ a.op \in {"entitlements", "grants"} =>
                                             \/ a.kind = Current.kind /\ a.id = Current.id
                                             \/ IsStored(a.kind, a.id)
         \/ /\ phase = "put" /\ saved' = saved
            /\ \E t \in Seq(ActionSet) :
                 /\ stack' = stack \o t
                 /\ \A a \in ToSet(t) : a.op = "resources" /\ a # Whole("resources")
<1> USE DEF stored, world
<1> DEFINE Kept == stack' = stack /\ saved' \in {saved, stack}
           Replaced == /\ phase = "act" /\ Current.op # "init" /\ saved' = saved
                       /\ \E t \in Seq(ActionSet) :
                            /\ stack' = Finished \o t
                            /\ \A a \in ToSet(t) :
                                 /\ a.op = Current.op /\ a # Whole("resources")
                                 /\ a.op \in {"entitlements", "grants"} =>
                                      \/ a.kind = Current.kind /\ a.id = Current.id
                                      \/ IsStored(a.kind, a.id)
           Pushed == /\ phase = "put" /\ saved' = saved
                     /\ \E t \in Seq(ActionSet) :
                          /\ stack' = stack \o t
                          /\ \A a \in ToSet(t) : a.op = "resources" /\ a # Whole("resources")
<1>1. stack \in Seq(ActionSet) /\ resources \in Seq(ResourceSet) /\ pending \subseteq ResourceSet
  BY DEF TypeInv, TypeOK
<1>2. ASSUME stack # <<>>, phase = "act", Current.op # "init", saved' = saved, stack' = Finished
      PROVE  Replaced
  <2>1. Finished \in Seq(ActionSet)
    BY <1>1, <1>2, CurrentType
  <2>2. << >> \in Seq(ActionSet) /\ ToSet(<< >>) = {} /\ Finished \o << >> = Finished
    BY <2>1 DEF ToSet
  <2> QED BY <1>2, <2>2
<1>3. ASSUME phase = "act", stack # <<>>, Current.kind # None, Current.op # "init", saved' = saved,
             NEW next \in Token, Turn(next)
      PROVE  Replaced
  <2>1. CASE next = NoToken
    BY <1>2, <1>3, <2>1 DEF Turn
  <2>2. CASE next # NoToken
    <3> DEFINE turned == [Current EXCEPT !.token = next]
    <3>1. /\ turned \in ActionSet /\ turned.op = Current.op /\ turned.kind = Current.kind
          /\ turned.id = Current.id
      BY <1>1, <1>3, TurnedType
    <3>2. stack' = Append(Finished, turned)
      BY <1>3, <2>2 DEF Turn
    <3> HIDE DEF turned
    <3>3. <<turned>> \in Seq(ActionSet) /\ ToSet(<<turned>>) = {turned}
      BY <3>1 DEF ToSet
    <3>4. Finished \in Seq(ActionSet)
      BY <1>1, <1>3, CurrentType
    <3>5. stack' = Finished \o <<turned>>
      BY <3>1, <3>2, <3>4
    <3>6. turned # Whole("resources")
      BY <1>3, <3>1, WholeType DEF Op
    <3> QED BY <1>3, <3>1, <3>3, <3>5, <3>6
  <2> QED BY <2>1, <2>2
<1>4. CASE SyncResources
  <2>1. stack' = Finished \o KindActions
    BY <1>4 DEF SyncResources, PushAll, KindActions
  <2>2. phase = "act" /\ Current.op = "resources" /\ saved' = saved
    BY <1>4 DEF SyncResources, AllOf, Doing
  <2>3. \A a \in ToSet(KindActions) : a.op = "resources" /\ a # Whole("resources")
    BY KindActionsType, NotWhole
  <2> QED BY <2>1, <2>2, <2>3, KindActionsType
<1>5. ASSUME NEW op \in {"entitlements", "grants"}, PushForEachResource(op) PROVE Replaced
  <2>1. stack' = Finished \o ResourceActions(op)
    BY <1>5 DEF PushForEachResource, PushAll, ResourceActions
  <2>2. phase = "act" /\ Current.op = op /\ saved' = saved
    BY <1>5 DEF PushForEachResource, AllOf, Doing
  <2>3. \A r \in ToSet(resources) : r.kind \in Kind
    BY <1>1, SeqElements DEF ResourceSet
  <2>4. \A a \in ToSet(ResourceActions(op)) : a.op = op /\ IsStored(a.kind, a.id)
    <3>1. \A r \in ToSet(resources) : IsStored(r.kind, r.id)
      BY <1>1, StoredIs
    <3>2. \A r \in ToSet(resources) : LET a == Action(op, r.kind, r.id, None)
                                     IN  a.op = op /\ a.kind = r.kind /\ a.id = r.id
      BY <2>3, NotWhole
    <3> QED BY <1>1, <3>1, <3>2, ResourceActionsType DEF Op
  <2>5. ResourceActions(op) \in Seq(ActionSet)
    BY <1>1, ResourceActionsType DEF Op
  <2>6. \A a \in ToSet(ResourceActions(op)) : a # Whole("resources")
    BY <2>4, WholeType DEF Op
  <2> QED BY <2>1, <2>2, <2>4, <2>5, <2>6
<1>6. ASSUME NEW op \in {"resources", "entitlements", "grants"}, Calls(op), Turn(Call.next),
             saved' = saved
      PROVE  Replaced
  <2>1. phase = "act" /\ Current.op = op /\ Current.kind # None /\ stack # <<>>
    BY <1>6, CallType DEF Calls, OneOf, Doing
  <2>2. Call.next \in Token
    BY <1>6, CallType
  <2> QED BY <1>3, <1>6, <2>1, <2>2
<1>7. ASSUME NEW r \in pending, PutResource(r) PROVE Kept \/ Pushed
  <2>1. \A a \in ToSet(SubActions(r)) : a.op = "resources" /\ a # Whole("resources")
    BY <1>1, SubActionsType, NotWhole DEF Kind
  <2>2. SubActions(r) \in Seq(ActionSet)
    BY <1>1, SubActionsType
  <2> QED BY <1>7, <2>1, <2>2 DEF PutResource
<1>8. CASE SyncResourceTypes
  BY <1>2, <1>8 DEF SyncResourceTypes, Doing, TypeInv
<1>9. CASE SyncGrantExpansion
  BY <1>2, <1>9 DEF SyncGrantExpansion, Doing, TypeInv
<1>10. CASE SyncResourcesOfKind
  BY <1>6, <1>10 DEF SyncResourcesOfKind
<1>11. CASE SyncEntitlementsForResource
  BY <1>6, <1>11 DEF SyncEntitlementsForResource
<1>12. CASE SyncGrantsForResource
  BY <1>6, <1>12 DEF SyncGrantsForResource
<1>13. CASE \/ Checkpoint \/ EndSync \/ PagePut \/ Fail \/ FailForGood \/ Cancel \/ Done
            \/ UNCHANGED vars \/ (\E p \in Deletable : Delete(p))
            \/ (\E p \in Newcomers : Create(p)) \/ (\E c \in Changing : Change(c))
            \/ (\E a \in Ailments : FallIll(a)) \/ Recover
  BY <1>13 DEF Checkpoint, EndSync, PagePut, Fail, FailForGood, Cancel, Stop, Done, vars, Delete, Create,
     Change, FallIll, Recover
<1> QED BY <1>4, <1>5, <1>7, <1>8, <1>9, <1>10, <1>11, <1>12, <1>13
        DEF Next, SyncerStep, SyncEntitlements, SyncGrants

\* Every step keeps the two stacks in shape.
LEMMA ShapeStep ==
  ASSUME ShapeInv, [Next]_vars
  PROVE  Shape(stack') /\ Shape(saved')
<1> USE DEF ShapeInv
<1>1. stack \in Seq(ActionSet)
  BY DEF TypeInv, TypeOK
<1>2. CASE stack' = stack /\ saved' \in {saved, stack}
  BY <1>2
<1>3. CASE Resume
  BY <1>3 DEF Resume
<1>4. CASE InitSync
  <2>1. stack # <<>> /\ Current.op = "init"
    BY <1>4 DEF InitSync, Doing, TypeInv
  <2>2. Current \in ToSet(stack)
    BY <1>1, <2>1, CurrentType
  <2>3. Len(stack) = 1
    BY <2>1, <2>2 DEF Shape, Continues
  <2>4. Finished = <<>>
    BY <1>1, <2>1, <2>3, SeqPop DEF Finished
  <2>5. stack' = StepActions
    BY <1>4, <2>4, StepActionsType DEF InitSync, PushAll, StepActions
  <2> QED BY <1>4, <2>5, FirstShape DEF InitSync
<1>5. ASSUME phase = "act", Current.op # "init", saved' = saved,
             NEW t \in Seq(ActionSet), stack' = Finished \o t,
             \A a \in ToSet(t) : a.op = Current.op /\ a # Whole("resources")
      PROVE  Shape(stack') /\ Shape(saved')
  BY <1>5, StackReplaced
<1>6. ASSUME phase = "put", saved' = saved, NEW t \in Seq(ActionSet), stack' = stack \o t,
             \A a \in ToSet(t) : a.op = "resources" /\ a # Whole("resources")
      PROVE  Shape(stack') /\ Shape(saved')
  BY <1>1, <1>6, PutShape DEF PhaseInv
<1> QED BY <1>2, <1>3, <1>4, <1>5, <1>6, StackStep DEF ShapeInv

\* Every step keeps the resources that the actions name in the store.
LEMMA GroundedStep ==
  ASSUME ShapeInv, [Next]_vars
  PROVE  Grounded(stack)' /\ Grounded(saved)'
<1> USE DEF ShapeInv
<1>1. stack \in Seq(ActionSet)
  BY DEF TypeInv, TypeOK
<1>2. ASSUME NEW a, \/ a \in ToSet(stack) \cup ToSet(saved)
                    \/ a.kind = None \/ a.op \notin {"entitlements", "grants"}
      PROVE  a.op \in {"entitlements", "grants"} /\ a.kind # None => IsStored(a.kind, a.id)'
  BY <1>2, StoredStays DEF Grounded
<1>3. ASSUME ToSet(stack') \subseteq ToSet(stack) \cup ToSet(saved),
             ToSet(saved') \subseteq ToSet(stack) \cup ToSet(saved)
      PROVE  Grounded(stack)' /\ Grounded(saved)'
  BY <1>2, <1>3 DEF Grounded
<1>4. CASE InitSync
  <2>1. stack # <<>>
    BY <1>4 DEF InitSync, Doing, TypeInv
  <2>2. ToSet(stack') = ToSet(Finished) \cup ToSet(StepActions) /\ saved' = stack'
    BY <1>1, <1>4, <2>1, PushAllIs, StepActionsType DEF InitSync, StepActions
  <2>3. ToSet(Finished) \subseteq ToSet(stack)
    BY <1>1, <2>1, CurrentType
  <2>4. \A a \in ToSet(StepActions) : a.kind = None
    BY StepActionsType, WholeType DEF Op
  <2> QED BY <1>2, <2>2, <2>3, <2>4 DEF Grounded
<1>5. ASSUME phase = "act", Current.op # "init", saved' = saved,
             NEW t \in Seq(ActionSet), stack' = Finished \o t,
             \A a \in ToSet(t) : a.op = Current.op /\ (a.op \in {"entitlements", "grants"} =>
                \/ a.kind = Current.kind /\ a.id = Current.id
                \/ IsStored(a.kind, a.id))
      PROVE  Grounded(stack)' /\ Grounded(saved)'
  <2>1. stack # <<>>
    BY <1>5 DEF TypeInv
  <2>2. Finished \in Seq(ActionSet) /\ ToSet(stack) = ToSet(Finished) \cup {Current}
    BY <1>1, <2>1, CurrentType
  <2>3. ToSet(stack') = ToSet(Finished) \cup ToSet(t)
    BY <1>5, <2>2, SeqConcat
  <2>4. \A a \in ToSet(t) : a.op \in {"entitlements", "grants"} /\ a.kind # None =>
          IsStored(a.kind, a.id)
    BY <1>5, <2>2 DEF Grounded
  <2>5. \A a \in ToSet(stack') : a.op \in {"entitlements", "grants"} /\ a.kind # None =>
          IsStored(a.kind, a.id)'
    BY <1>2, <2>2, <2>3, <2>4, StoredStays
  <2> QED BY <1>2, <1>5, <2>5 DEF Grounded
<1>6. ASSUME phase = "put", saved' = saved, NEW t \in Seq(ActionSet), stack' = stack \o t,
             \A a \in ToSet(t) : a.op = "resources"
      PROVE  Grounded(stack)' /\ Grounded(saved)'
  <2>1. ToSet(stack') = ToSet(stack) \cup ToSet(t)
    BY <1>1, <1>6, SeqConcat
  <2> QED BY <1>2, <1>6, <2>1 DEF Grounded
<1>7. CASE Resume
  BY <1>3, <1>7 DEF Resume
<1>8. CASE stack' = stack /\ saved' \in {saved, stack}
  BY <1>3, <1>8
<1> QED BY <1>4, <1>5, <1>6, <1>7, <1>8, StackStep

\* Every step keeps what the phase says of the stacks.
LEMMA PhaseStep ==
  ASSUME ShapeInv, [Next]_vars
  PROVE  PhaseInv'
<1> USE DEF ShapeInv, stored, world
<1>1. stack \in Seq(ActionSet)
  BY DEF TypeInv, TypeOK
<1>2. ASSUME phase' \in {"checkpoint", "stopped"}
      PROVE  PhaseInv'
  BY <1>2 DEF PhaseInv
<1>3. CASE SyncResourcesOfKind
  <2>1. Calls("resources") /\ Turn(Call.next) /\ phase' = "put" /\ saved' = saved
    BY <1>3 DEF SyncResourcesOfKind
  <2>2. phase = "act" /\ Current.op = "resources" /\ Current.kind # None /\ stack # <<>>
    BY <2>1, CallType DEF Calls, OneOf, Doing
  <2>3. saved = stack
    BY <2>2 DEF PhaseInv
  <2>4. /\ Current \in ToSet(stack) /\ ToSet(stack) = ToSet(Finished) \cup {Current}
        /\ Finished \in Seq(ActionSet)
    BY <1>1, <2>2, CurrentType
  <2>5. Steps \subseteq ToSet(stack)
    BY <2>2, <2>4 DEF Shape, Continues
  <2>6. Current \notin Steps
    BY <2>2, WholeType DEF Steps, Op
  <2>7. \A a \in ToSet(Finished) : Rank[a.op] <= 3 /\ a # Whole("resources")
    <3>1. /\ Len(Finished) = Len(stack) - 1 /\ Current = stack[Len(stack)]
          /\ Len(stack) \in 1 .. Len(stack)
          /\ \A i \in 1 .. Len(Finished) : Finished[i] = stack[i]
      BY <1>1, <2>2, SeqPop DEF Current, Finished
    <3>2. TAKE a \in ToSet(Finished)
    <3>3. PICK i \in 1 .. Len(Finished) : a = Finished[i]
      BY <2>4, SeqElements
    <3>4. a = stack[i] /\ i \in 1 .. Len(stack) /\ i < Len(stack)
      BY <2>4, <3>1, <3>3
    <3>5. Rank[a.op] <= Rank[Current.op] /\ (a = Whole("resources") => Current.op # "resources")
      BY <3>1, <3>4 DEF Shape, Ordered
    <3> QED BY <2>2, <3>5 DEF Rank
  <2>8. ToSet(stack') = ToSet(Finished) \cup
          (IF Call.next = NoToken THEN {} ELSE {[Current EXCEPT !.token = Call.next]})
    BY <1>1, <2>1, <2>2, CallType, TurnIs
  <2>9. LET turned == [Current EXCEPT !.token = Call.next]
        IN  turned.op = "resources" /\ turned.kind # None
    BY <1>1, <2>1, <2>2, CallType, TurnedType
  <2>10. \A a \in ToSet(stack') : Rank[a.op] <= 3 /\ a # Whole("resources")
    <3>1. Rank["resources"] <= 3 /\ Whole("resources").kind = None
      BY WholeType DEF Rank, Op
    <3> QED BY <2>7, <2>8, <2>9, <3>1
  <2> QED BY <2>1, <2>3, <2>4, <2>5, <2>6, <2>8, <2>10 DEF PhaseInv
<1>4. ASSUME NEW r \in pending, PutResource(r) PROVE PhaseInv'
  <2>1. /\ SubActions(r) \in Seq(ActionSet)
        /\ \A a \in ToSet(SubActions(r)) : a.op = "resources" /\ a # Whole("resources")
    <3>1. r \in ResourceSet
      BY DEF TypeInv, TypeOK
    <3> QED BY <3>1, SubActionsType, NotWhole DEF Kind
  <2>2. ToSet(stack \o SubActions(r)) = ToSet(stack) \cup ToSet(SubActions(r))
    BY <1>1, <2>1, SeqConcat
  <2>3. phase = "put" /\ phase' = "put" /\ saved' = saved
    BY <1>4 DEF PutResource
  <2>4. ToSet(stack) \subseteq ToSet(stack') /\
        ToSet(stack') \subseteq ToSet(stack) \cup ToSet(SubActions(r))
    BY <1>4, <2>2 DEF PutResource
  <2> QED BY <2>1, <2>3, <2>4 DEF PhaseInv, Rank
<1>5. CASE Checkpoint
  BY <1>5 DEF Checkpoint, PhaseInv
<1>6. CASE EndSync
  BY <1>6 DEF EndSync, PhaseInv
<1>7. CASE \/ Done \/ UNCHANGED vars
           \/ (\E p \in Deletable : Delete(p)) \/ (\E p \in Newcomers : Create(p))
           \/ (\E c \in Changing : Change(c)) \/ (\E a \in Ailments : FallIll(a)) \/ Recover
  BY <1>7 DEF Done, vars, Delete, Create, Change, FallIll, Recover, PhaseInv
<1>8. CASE \/ InitSync \/ SyncResourceTypes \/ SyncResources \/ PagePut \/ SyncEntitlements
           \/ SyncEntitlementsForResource \/ SyncGrants \/ SyncGrantsForResource
           \/ SyncGrantExpansion \/ Resume \/ Fail \/ FailForGood \/ Cancel
  BY <1>2, <1>8 DEF InitSync, SyncResourceTypes, SyncResources, PagePut, SyncEntitlements,
     SyncGrants, PushForEachResource, SyncEntitlementsForResource, SyncGrantsForResource,
     SyncGrantExpansion, Resume, Fail, FailForGood, Cancel, Stop
<1> QED BY <1>3, <1>4, <1>5, <1>6, <1>7, <1>8 DEF Next, SyncerStep

\* The stack a sync begins with is in shape.
LEMMA InitShapeInv == Init => ShapeInv
<1> SUFFICES ASSUME Init PROVE ShapeInv
  OBVIOUS
<1>1. TypeInv
  BY InitTypeInv
<1>2. stack = <<Whole("init")>> /\ saved = <<Whole("init")>> /\ phase = "checkpoint"
  BY DEF Init
<1>3. ToSet(<<Whole("init")>>) = {Whole("init")} /\ Whole("init").kind = None
  BY WholeType DEF ToSet, Op
<1> QED BY <1>1, <1>2, <1>3, FirstShape DEF ShapeInv, Grounded, PhaseInv

\* The three together are inductive.
LEMMA ShapeInvStep == ShapeInv /\ [Next]_vars => ShapeInv'
BY ShapeStep, GroundedStep, PhaseStep, TypeStep DEF ShapeInv

(***************************************************************************)
(* What the grants rest on.                                                *)
(***************************************************************************)

\* What a principal holds now lies between what it held all the time and what it held at
\* some time.
LEMMA WorldHolds ==
  ASSUME NEW p \in DOMAIN Holds
  PROVE  /\ HeldThroughout[p] \subseteq World.held[p] /\ World.held[p] \subseteq HeldSometime[p]
         /\ World.gone \subseteq Passing
BY DEF World, Absent, Passing, Toggled, HeldThroughout, HeldSometime, ChangedOf

\* Users and groups are principals.
LEMMA Principals == Ever("user") \cup Ever("group") \subseteq DOMAIN Holds
BY SyncAssumption DEF Ever

\* What makes a grant one of GrantsOf.
LEMMA GrantsOfHas ==
  ASSUME NEW accesses, NEW out, NEW id
  PROVE  /\ id \in Stored("user") \ out =>
              PermissionGrants("user", id, accesses[id]) \subseteq GrantsOf(accesses, out)
         /\ id \in Stored("group") \ out =>
              /\ PermissionGrants("group", id, accesses[id]) \subseteq GrantsOf(accesses, out)
              /\ MemberGrants([kind |-> "group", id |-> id], Everything(MemberPages[id]) \ out)
                   \subseteq GrantsOf(accesses, out)
         /\ id \in Stored("workspace") =>
              MemberGrants([kind |-> "workspace", id |-> id], Ever("user") \ out)
                \subseteq GrantsOf(accesses, out)
BY DEF GrantsOf

\* A grant that was true at some time since the sync began stays one.
LEMMA TrueStaysTrue ==
  ASSUME TypeInv, [Next]_vars
  PROVE  GrantsOf(HeldSometime, {}) \subseteq GrantsOf(HeldSometime, {})'
<1>1. ASSUME NEW kind PROVE Stored(kind) \subseteq Stored(kind)'
  BY StoredStays DEF Stored
<1>2. \A p \in DOMAIN Holds : HeldSometime[p] \subseteq HeldSometime'[p]
  BY Growing DEF HeldSometime, ChangedOf
<1>3. Stored("user") \cup Stored("group") \subseteq DOMAIN Holds
  BY Principals DEF Stored
<1>4. ASSUME NEW g \in GrantsOf(HeldSometime, {}) PROVE g \in GrantsOf(HeldSometime, {})'
  <2>1. \/ \E u \in Stored("user") : g \in PermissionGrants("user", u, HeldSometime[u])
        \/ \E h \in Stored("group") : g \in PermissionGrants("group", h, HeldSometime[h])
        \/ \E h \in Stored("group") :
             g \in MemberGrants([kind |-> "group", id |-> h], Everything(MemberPages[h]) \ {})
        \/ \E w \in Stored("workspace") :
             g \in MemberGrants([kind |-> "workspace", id |-> w], Ever("user") \ {})
    BY <1>4 DEF GrantsOf
  <2>2. ASSUME NEW kind, NEW p \in DOMAIN Holds
        PROVE  PermissionGrants(kind, p, HeldSometime[p])
                 \subseteq PermissionGrants(kind, p, HeldSometime'[p])
    BY <1>2 DEF PermissionGrants
  <2>3. \/ \E u \in Stored("user")' : g \in PermissionGrants("user", u, HeldSometime'[u])
        \/ \E h \in Stored("group")' : g \in PermissionGrants("group", h, HeldSometime'[h])
        \/ \E h \in Stored("group")' :
             g \in MemberGrants([kind |-> "group", id |-> h], Everything(MemberPages[h]) \ {})
        \/ \E w \in Stored("workspace")' :
             g \in MemberGrants([kind |-> "workspace", id |-> w], Ever("user") \ {})
    BY <1>1, <1>3, <2>1, <2>2
  <2> QED BY <2>3 DEF GrantsOf
<1> QED BY <1>4

\* The grants of a page are true now.
LEMMA PageIsTrue ==
  ASSUME ShapeInv, Calls("grants")
  PROVE  Call.items \subseteq GrantsOf(HeldSometime, {})
<1>1. /\ Current.op = "grants" /\ Current.kind # None /\ stack # <<>>
      /\ stack \in Seq(ActionSet) /\ resources \in Seq(ResourceSet)
      /\ Call.ok /\ OneOf("grants")
  BY DEF Calls, OneOf, Doing, ShapeInv, TypeInv, TypeOK
<1>2. /\ Current.kind \in Kind /\ Current.id \in ResourceId(Current.kind)
      /\ Current.token \in Token /\ Current \in ToSet(stack)
  BY <1>1, CurrentType
<1>3. Call = Grants(Current, Current.token, World)
  BY <1>1, CallIs
<1>4. Current.id \in Ever(Current.kind)
  BY <1>1, <1>2, <1>3, GrantsHaveIds DEF ResourceId
<1>5. Current.id \in Stored(Current.kind)
  BY <1>1, <1>2, <1>4 DEF Stored, ShapeInv, Grounded
<1> DEFINE held == PermissionGrants(Current.kind, Current.id, World.held[Current.id])
<1>6. Current.kind \in {"user", "group"} =>
        held \subseteq PermissionGrants(Current.kind, Current.id, HeldSometime[Current.id])
  BY <1>4, WorldHolds, Principals DEF PermissionGrants
<1>7. Call.items \subseteq
        CASE Current.kind = "user" -> held
          [] Current.kind = "group" ->
               held \cup MemberGrants(Current, Everything(MemberPages[Current.id]) \ Absent)
          [] Current.kind = "workspace" -> MemberGrants(Current, Ever("user") \ Absent)
          [] OTHER -> {}
  <2>1. World.gone = Absent
    BY DEF World
  <2> QED BY <1>2, <1>3, <1>4, <2>1, GrantsType
<1>8. ASSUME NEW users
      PROVE  MemberGrants(Current, users \ Absent) \subseteq
               MemberGrants([kind |-> Current.kind, id |-> Current.id], users \ {})
  BY DEF MemberGrants
<1> HIDE DEF held
<1>9. CASE Current.kind = "user"
  BY <1>5, <1>6, <1>7, <1>9, GrantsOfHas
<1>10. CASE Current.kind = "group"
  <2>1. MemberGrants([kind |-> Current.kind, id |-> Current.id],
                     Everything(MemberPages[Current.id]) \ {}) \subseteq GrantsOf(HeldSometime, {})
    BY <1>5, <1>10, GrantsOfHas
  <2>2. held \subseteq GrantsOf(HeldSometime, {})
    BY <1>5, <1>6, <1>10, GrantsOfHas
  <2> QED BY <1>7, <1>8, <1>10, <2>1, <2>2
<1>11. CASE Current.kind = "workspace"
  <2>1. MemberGrants([kind |-> Current.kind, id |-> Current.id], Ever("user") \ {})
          \subseteq GrantsOf(HeldSometime, {})
    BY <1>5, <1>11, GrantsOfHas
  <2> QED BY <1>7, <1>8, <1>11, <2>1
<1>12. CASE Current.kind \notin {"user", "group", "workspace"}
  BY <1>7, <1>12
<1> QED BY <1>9, <1>10, <1>11, <1>12

\* The grants change with a page of grants only.
LEMMA GrantsStep ==
  ASSUME [Next]_vars
  PROVE  grants' = grants \/ (Calls("grants") /\ grants' = grants \cup Call.items)
BY DEF Next, SyncerStep, vars, stored, world, Checkpoint, EndSync, InitSync, SyncResourceTypes,
   SyncResources, SyncResourcesOfKind, PutResource, PagePut, SyncEntitlements, SyncGrants,
   PushForEachResource, SyncEntitlementsForResource, SyncGrantsForResource, SyncGrantExpansion,
   Resume, Fail, FailForGood, Cancel, Stop, Done, Delete, Create, Change, FallIll, Recover

\* No grant is ever in the store that was not true of a stored resource at some time since
\* the sync began: the grants' pages are asked for of stored resources only, whatever the
\* stack that a run resumes, and a principal's accesses are those it has now.
THEOREM NothingIsInvented == Spec => []NothingInvented
<1> DEFINE Inv == ShapeInv /\ NothingInvented
<1>1. Init => Inv
  <2>1. Init => NothingInvented
    BY DEF Init, NothingInvented
  <2> QED BY <2>1, InitShapeInv
<1>2. Inv /\ [Next]_vars => Inv'
  <2> SUFFICES ASSUME Inv, [Next]_vars PROVE NothingInvented'
    BY ShapeInvStep
  <2>1. TypeInv
    BY DEF ShapeInv
  <2>2. grants' \subseteq GrantsOf(HeldSometime, {})
    BY GrantsStep, PageIsTrue DEF NothingInvented
  <2> QED BY <2>1, <2>2, TrueStaysTrue DEF NothingInvented
<1> QED BY <1>1, <1>2, PTL DEF Spec

=============================================================================
