---------------------------- MODULE ListingProofs ----------------------------
(***************************************************************************)
(* Proofs about Sync: what a complete sync has of Segment, when its runs   *)
(* stop at failures and are not cancelled.  A run that is cancelled        *)
(* between storing the workspace and saving the stack with its children    *)
(* loses the children, since the next one skips a workspace that is        *)
(* stored: with Cancels the theorems of this module are false.             *)
(***************************************************************************)
EXTENDS CoverageProofs

\* The workspace came without an id.
Doomed == \E r \in ToSet(resources) \cup pending : r.kind = "workspace" /\ r.id = None

\* It is stored, or on the page that is being put.
Here(kind, id) == IsStored(kind, id) \/ \E r \in pending : r.kind = kind /\ r.id = id

\* Page n of a kind will still be listed.
Coming(kind, n) == \/ Reaches(stack, kind, n)
                   \/ /\ \E r \in pending : r.kind = "workspace"
                      /\ ~IsStored("workspace", Workspace)

WorkspaceComes ==
  \/ Here("workspace", Workspace)
  \/ \E a \in ToSet(stack) : a.op = "init" \/ (a.op = "resources" /\ a.kind \in {None, "workspace"})

PagesCome ==
  \A kind \in {"user", "group", "role", "source"} : Trusted(kind) =>
    \A n \in DOMAIN Pages[kind] : \A id \in Pages[kind][n] \ Passing :
      Here(kind, id) \/ Coming(kind, n)

FunctionsCome ==
  (\A type \in FunctionType : Trusted(type)) =>
    \A id \in Ever("function") \ Passing : Here("function", id) \/ Coming("function", 1)

\* Nothing is stored before the listing has begun.
Fresh ==
  \A a \in ToSet(stack) : a.op \in {"init", "types"} \/ a = Whole("resources") => resources = <<>>

\* A run that stops loses nothing that the saved stack has not.
StopInv == phase = "stopped" => stack = saved /\ pending = {}

ListInv == /\ CoverInv /\ Fresh /\ StopInv
           /\ Doomed => ~Trusted("workspace")
           /\ Doomed \/ (WorkspaceComes /\ PagesCome /\ FunctionsCome)

\* A page of resources that is asked for and got.
LEMMA ListCallOf ==
  ASSUME TypeInv, Calls("resources")
  PROVE  /\ phase = "act" /\ stack # <<>> /\ stack \in Seq(ActionSet) /\ pending = {}
         /\ Current.op = "resources" /\ Current.kind \in Kind /\ Current.kind # None
         /\ Current.token \in Token /\ Current.parent \in Parent
         /\ Call.ok /\ Call.next \in Token
         /\ Call = List(Current.kind, Current.parent, Current.token, World)
<1>1. /\ phase = "act" /\ stack # <<>> /\ stack \in Seq(ActionSet) /\ pending = {}
      /\ Current.op = "resources" /\ Current.kind # None /\ Call.ok /\ OneOf("resources")
  BY DEF Calls, OneOf, Doing, TypeInv, TypeOK
<1>2. /\ Current.kind \in Kind /\ Current.token \in Token /\ Current.parent \in Parent
  BY <1>1, CurrentType
<1>3. Call = List(Current.kind, Current.parent, Current.token, World)
  BY <1>1, CallIs
<1> QED BY <1>1, <1>2, <1>3, CallType

\* The page changes only when one is got, and when one of its resources is put.
LEMMA PendingStep ==
  ASSUME TypeInv, StopInv, ~Cancels, [Next]_vars
  PROVE  \/ pending' = pending
         \/ SyncResourcesOfKind /\ pending = {}
         \/ \E r \in pending : PutResource(r)
<1> USE DEF stored, world
<1>1. CASE SyncResourcesOfKind
  BY <1>1, ListCallOf DEF SyncResourcesOfKind
<1>2. CASE Resume
  BY <1>2 DEF Resume, StopInv
<1> QED BY <1>1, <1>2
   DEF Next, SyncerStep, vars, Checkpoint, EndSync, InitSync, SyncResourceTypes,
     SyncResources, PagePut, SyncEntitlements, SyncGrants,
     PushForEachResource, SyncEntitlementsForResource, SyncGrantsForResource,
     SyncGrantExpansion, Fail, FailForGood, Cancel, Stop, Done, Delete, Create, Change, FallIll, Recover

\* What is here stays here.
LEMMA HereStays ==
  ASSUME TypeInv, StopInv, ~Cancels, [Next]_vars, NEW kind, NEW id, Here(kind, id)
  PROVE  Here(kind, id)'
<1>1. CASE IsStored(kind, id)
  BY <1>1, StoredStays DEF Here
<1>2. ASSUME NEW r \in pending, r.kind = kind, r.id = id PROVE Here(kind, id)'
  <2>1. CASE r \in pending'
    BY <1>2, <2>1 DEF Here
  <2>2. ASSUME PutResource(r) PROVE Here(kind, id)'
    <3>1. CASE IsStored(kind, id)
      BY <3>1, StoredStays DEF Here
    <3>2. CASE ~IsStored(kind, id)
      <4>1. resources' = Append(resources, r) /\ resources \in Seq(ResourceSet) /\ r \in ResourceSet
        BY <1>2, <2>2, <3>2 DEF PutResource, TypeInv, TypeOK
      <4>2. r \in ToSet(resources')
        BY <4>1, SeqAppend
      <4> QED BY <1>2, <4>2 DEF Here, IsStored, ToSet
    <3> QED BY <3>1, <3>2
  <2>3. r \in pending' \/ PutResource(r)
    BY PendingStep DEF PutResource
  <2> QED BY <2>1, <2>2, <2>3
<1> QED BY <1>1, <1>2 DEF Here

\* A sync is doomed by a stored, or pending, workspace that has no id.
LEMMA DoomedIs ==
  ASSUME TypeInv
  PROVE  Doomed <=> Here("workspace", None)
BY StoredIs DEF Doomed, Here, TypeInv, TypeOK

\* A doomed sync stays doomed, resumed or not: what is stored is never taken back.
LEMMA DoomedStays ==
  ASSUME TypeInv, StopInv, ~Cancels, [Next]_vars, Doomed
  PROVE  Doomed'
<1>1. TypeInv' /\ resources' \in Seq(ResourceSet)
  BY TypeStep DEF TypeInv, TypeOK
<1>2. Here("workspace", None)'
  BY DoomedIs, HereStays
<1> QED BY <1>1, <1>2 DEF Doomed, Here, IsStored, ToSet

\* An action stays on the stack until it is done.
LEMMA ActionStays ==
  ASSUME TypeInv, StopInv, [Next]_vars, NEW a \in ToSet(stack)
  PROVE  \/ a \in ToSet(stack')
         \/ phase = "act" /\ a = Current /\ stack' # stack /\ stack # <<>>
<1>1. stack \in Seq(ActionSet) /\ stack # <<>>
  BY DEF TypeInv, TypeOK, ToSet
<1>2. ToSet(stack) = ToSet(Finished) \cup {Current} /\ Finished \in Seq(ActionSet)
  BY <1>1, CurrentType
<1>3. CASE stack' = stack
  BY <1>3
<1>4. CASE Resume
  BY <1>4 DEF Resume, StopInv
<1>5. CASE InitSync
  <2>1. ToSet(stack') = ToSet(Finished) \cup ToSet(StepActions)
    BY <1>1, <1>5, StepActionsType, PushAllIs DEF InitSync, StepActions
  <2> QED BY <1>1, <1>2, <1>3, <1>5, <2>1 DEF InitSync, Doing
<1>6. ASSUME phase = "act", NEW t \in Seq(ActionSet), stack' = Finished \o t
      PROVE  a \in ToSet(stack') \/ (phase = "act" /\ a = Current /\ stack' # stack /\ stack # <<>>)
  <2>1. ToSet(stack') = ToSet(Finished) \cup ToSet(t)
    BY <1>2, <1>6, SeqConcat
  <2> QED BY <1>1, <1>2, <1>3, <1>6, <2>1
<1>7. ASSUME NEW t \in Seq(ActionSet), stack' = stack \o t
      PROVE  a \in ToSet(stack')
  BY <1>1, <1>7, SeqConcat
<1> QED BY <1>3, <1>4, <1>5, <1>6, <1>7, StackStep

\* An action of the listing that is done.
LEMMA ListingDone ==
  ASSUME [Next]_vars, phase = "act", stack' # stack, Current.op \in {"init", "resources"}
  PROVE  \/ InitSync /\ Current.op = "init"
         \/ SyncResources /\ Current.op = "resources" /\ Current.kind = None
         \/ SyncResourcesOfKind /\ Current.op = "resources" /\ Current.kind # None
<1> USE DEF stored, world
<1> QED BY DEF Next, SyncerStep, vars, Checkpoint, EndSync, InitSync, SyncResourceTypes,
     SyncResources, SyncResourcesOfKind, PutResource, PagePut, SyncEntitlements, SyncGrants,
     PushForEachResource, SyncEntitlementsForResource, SyncGrantsForResource,
     SyncGrantExpansion, Resume, Fail, FailForGood, Cancel, Stop, Done, Delete, Create, Change, FallIll,
     Recover, Calls, OneOf, AllOf, Doing

\* The step that lists resources is not pushed again once there are resources.
LEMMA FreshStep ==
  ASSUME ListInv, [Next]_vars
  PROVE  Fresh'
<1>1. ShapeInv /\ TypeInv /\ StopInv /\ stack \in Seq(ActionSet)
  BY DEF ListInv, CoverInv, ShapeInv, TypeInv, TypeOK
<1> DEFINE Early(a) == a.op \in {"init", "types"} \/ a = Whole("resources")
<1> SUFFICES ASSUME NEW a \in ToSet(stack'), Early(a) PROVE resources' = <<>>
  BY DEF Fresh
<1>2. \A b \in ToSet(stack) : Early(b) => resources = <<>>
  BY DEF ListInv, Fresh
<1>3. CASE \E r \in pending : PutResource(r)
  <2>1. phase' = "put"
    BY <1>3 DEF PutResource
  <2>2. Rank[a.op] <= 3 /\ a # Whole("resources")
    BY <1>1, <2>1, ShapeInvStep DEF ShapeInv, PhaseInv
  <2> QED BY <2>2 DEF Rank
<1>4. CASE resources' = resources
  <2>1. CASE a \in ToSet(stack)
    BY <1>2, <1>4, <2>1
  <2>2. CASE phase = "act" /\ stack # <<>> /\ Early(Current)
    BY <1>1, <1>2, <1>4, <2>2, CurrentType
  <2>3. a \in ToSet(stack) \/ (phase = "act" /\ stack # <<>> /\ Early(Current))
    <3>1. CASE stack' = stack
      BY <3>1
    <3>2. CASE Resume
      BY <1>1, <3>2 DEF Resume, StopInv
    <3>3. CASE InitSync
      BY <1>1, <3>3 DEF InitSync, Doing, TypeInv
    <3>4. ASSUME phase = "act", NEW t \in Seq(ActionSet), stack' = Finished \o t,
                 \A b \in ToSet(t) : b.op = Current.op /\ b # Whole("resources")
          PROVE  a \in ToSet(stack) \/ (phase = "act" /\ stack # <<>> /\ Early(Current))
      <4>1. stack # <<>>
        BY <1>1, <3>4 DEF TypeInv
      <4>2. Finished \in Seq(ActionSet) /\ ToSet(Finished) \subseteq ToSet(stack)
        BY <1>1, <4>1, CurrentType
      <4>3. ToSet(stack') = ToSet(Finished) \cup ToSet(t)
        BY <3>4, <4>2, SeqConcat
      <4> QED BY <3>4, <4>1, <4>2, <4>3
    <3>5. ASSUME NEW t \in Seq(ActionSet), stack' = stack \o t,
                 \A b \in ToSet(t) : b.op = "resources" /\ b # Whole("resources")
          PROVE  a \in ToSet(stack)
      <4>1. ToSet(stack') = ToSet(stack) \cup ToSet(t)
        BY <1>1, <3>5, SeqConcat
      <4> QED BY <3>5, <4>1
    <3> QED BY <1>1, <3>1, <3>2, <3>3, <3>4, <3>5, StackStep
  <2> QED BY <2>1, <2>2, <2>3
<1>5. (\E r \in pending : PutResource(r)) \/ resources' = resources
  BY DEF Next, SyncerStep, vars, stored, world, Checkpoint, EndSync, InitSync, SyncResourceTypes,
     SyncResources, SyncResourcesOfKind, PagePut, SyncEntitlements, SyncGrants,
     PushForEachResource, SyncEntitlementsForResource, SyncGrantsForResource,
     SyncGrantExpansion, Resume, Fail, FailForGood, Cancel, Stop, Done, Delete, Create, Change, FallIll,
     Recover
<1> QED BY <1>3, <1>4, <1>5

\* A run that stops without being cancelled stops at a call: its page is put, and its
\* stack saved.
LEMMA StopStep ==
  ASSUME ListInv, ~Cancels, [Next]_vars
  PROVE  StopInv'
<1> USE DEF stored, world
<1> SUFFICES ASSUME phase' = "stopped" PROVE stack' = saved' /\ pending' = {}
  BY DEF StopInv
<1>1. /\ phase = "act" => saved = stack /\ pending = {}
      /\ phase = "stopped" => stack = saved /\ pending = {}
  BY DEF ListInv, CoverInv, ShapeInv, PhaseInv, TypeInv, TypeOK, StopInv
<1>2. CASE Fail \/ FailForGood
  BY <1>1, <1>2 DEF Fail, FailForGood, Stop
<1>3. CASE \/ Done \/ UNCHANGED vars
           \/ (\E p \in Deletable : Delete(p)) \/ (\E p \in Newcomers : Create(p))
           \/ (\E c \in Changing : Change(c)) \/ (\E a \in Ailments : FallIll(a)) \/ Recover
  BY <1>1, <1>3 DEF Done, vars, Delete, Create, Change, FallIll, Recover
<1> QED BY <1>2, <1>3
   DEF Next, SyncerStep, Checkpoint, EndSync, InitSync, SyncResourceTypes,
     SyncResources, SyncResourcesOfKind, PutResource, PagePut, SyncEntitlements, SyncGrants,
     PushForEachResource, SyncEntitlementsForResource, SyncGrantsForResource,
     SyncGrantExpansion, Resume, Cancel

\* Only a workspace that Segment answers with nothing has no id.
LEMMA DoomedStep ==
  ASSUME ListInv, ~Cancels, [Next]_vars, Doomed'
  PROVE  ~Trusted("workspace")'
<1>1. TypeInv /\ StopInv /\ (Doomed => ~Trusted("workspace"))
  BY DEF ListInv, CoverInv, ShapeInv
<1>2. CASE Doomed
  BY <1>1, <1>2, TrustedBefore
<1>3. CASE ~Doomed
  <2>1. PICK r \in ToSet(resources') \cup pending' : r.kind = "workspace" /\ r.id = None
    BY DEF Doomed
  <2>2. r \notin ToSet(resources) \cup pending
    BY <1>3, <2>1 DEF Doomed
  <2>3. r \in pending' /\ SyncResourcesOfKind
    BY <1>1, <2>1, <2>2, Growing, PendingStep DEF PutResource
  <2>4. Calls("resources") /\ r \in Call.items
    BY <2>3 DEF SyncResourcesOfKind
  <2>5. Current.kind = "workspace"
    BY <1>1, <2>1, <2>4, ListCallOf, ListType
  <2>6. IsIll("workspace", "blank", World)
    <3>1. Call = List("workspace", Current.parent, Current.token, World)
      BY <1>1, <2>4, <2>5, ListCallOf
    <3>2. r = NewResource("workspace", IF IsIll("workspace", "blank", World) THEN None
                                       ELSE Workspace, None)
      BY <2>4, <3>1, WorkspaceListIs
    <3> QED BY <2>1, <3>2, ConnectorAssumption DEF NewResource
  <2>7. ~Trusted("workspace")
    BY <1>1, <2>6 DEF IsIll, World, Trusted, TypeInv, TypeOK
  <2> QED BY <1>1, <2>7, TrustedBefore
<1> QED BY <1>2, <1>3

\* The workspace is stored, or about to be, or ahead.
LEMMA WorkspaceStep ==
  ASSUME ListInv, ~Cancels, [Next]_vars, ~Doomed', WorkspaceComes
  PROVE  WorkspaceComes'
<1>1. TypeInv /\ StopInv /\ stack \in Seq(ActionSet)
  BY DEF ListInv, CoverInv, ShapeInv, TypeInv, TypeOK
<1>2. CASE Here("workspace", Workspace)
  BY <1>1, <1>2, HereStays DEF WorkspaceComes
<1>3. ASSUME NEW a \in ToSet(stack),
             a.op = "init" \/ (a.op = "resources" /\ a.kind \in {None, "workspace"})
      PROVE  WorkspaceComes'
  <2>1. CASE a \in ToSet(stack')
    BY <1>3, <2>1 DEF WorkspaceComes
  <2>2. CASE phase = "act" /\ a = Current /\ stack' # stack /\ stack # <<>>
    <3>1. CASE InitSync
      <4>1. ToSet(stack') = ToSet(Finished) \cup ToSet(StepActions)
        BY <1>1, <2>2, <3>1, StepActionsType, PushAllIs DEF InitSync, StepActions
      <4>2. Whole("resources") \in ToSet(stack')
        BY <4>1, StepActionsType
      <4> QED BY <4>2, WholeType DEF WorkspaceComes, Op
    <3>2. CASE SyncResources
      <4>1. ToSet(stack') = ToSet(Finished) \cup ToSet(KindActions)
        BY <1>1, <2>2, <3>2, KindActionsType, PushAllIs DEF SyncResources, KindActions
      <4>2. Action("resources", "workspace", None, None) \in ToSet(stack')
        BY <4>1, KindActionsType DEF Kind
      <4> QED BY <4>2, NotWhole DEF WorkspaceComes, Kind
    <3>3. CASE SyncResourcesOfKind /\ Current.kind # None
      <4>1. Current.kind = "workspace" /\ Calls("resources") /\ pending' = Call.items
        BY <1>3, <2>2, <3>3, ListCallOf, <1>1 DEF SyncResourcesOfKind
      <4>2. Call = List("workspace", Current.parent, Current.token, World)
        BY <1>1, <4>1, ListCallOf
      <4>3. \E id \in {None, Workspace} : NewResource("workspace", id, None) \in pending'
        BY <4>1, <4>2, WorkspaceListIs
      <4>4. NewResource("workspace", None, None) \notin pending'
        BY DEF Doomed, NewResource
      <4>5. NewResource("workspace", Workspace, None) \in pending'
        BY <4>3, <4>4
      <4> QED BY <4>5 DEF NewResource, WorkspaceComes, Here
    <3> QED BY <1>3, <2>2, <3>1, <3>2, <3>3, ListingDone
  <2> QED BY <1>1, <2>1, <2>2, ActionStays
<1> QED BY <1>2, <1>3 DEF WorkspaceComes

\* When the workspace is put, its children are pushed.
LEMMA WorkspacePut ==
  ASSUME ListInv, ~Cancels, [Next]_vars, ~Doomed',
         ~IsStored("workspace", Workspace), IsStored("workspace", Workspace)',
         NEW kind \in ChildKind, NEW n \in Nat \ {0}
  PROVE  Reaches(stack, kind, n)'
<1>1. /\ TypeInv /\ StopInv /\ stack \in Seq(ActionSet) /\ resources \in Seq(ResourceSet)
      /\ pending \subseteq ResourceSet
  BY DEF ListInv, CoverInv, ShapeInv, TypeInv, TypeOK
<1>2. PICK q \in pending : PutResource(q) /\ resources' # resources
  BY DEF Next, SyncerStep, vars, stored, world, Checkpoint, EndSync, InitSync, SyncResourceTypes,
     SyncResources, SyncResourcesOfKind, PagePut, SyncEntitlements, SyncGrants,
     PushForEachResource, SyncEntitlementsForResource, SyncGrantsForResource,
     SyncGrantExpansion, Resume, Fail, FailForGood, Cancel, Stop, Done, Delete, Create, Change, FallIll,
     Recover, IsStored
<1>3. resources' = Append(resources, q) /\ stack' = stack \o SubActions(q) /\ q \in ResourceSet
  BY <1>1, <1>2 DEF PutResource
<1>4. ToSet(resources') = ToSet(resources) \cup {q}
  BY <1>1, <1>3, SeqAppend
<1>5. \E r \in ToSet(resources') : r.kind = "workspace" /\ r.id = Workspace
  BY DEF IsStored, ToSet
<1>6. q.kind = "workspace" /\ q.id = Workspace
  BY <1>1, <1>4, <1>5, StoredIs
<1>7. ToSet(stack') = ToSet(stack) \cup ToSet(SubActions(q))
  BY <1>1, <1>3, SubActionsType, SeqConcat
<1>8. Action("resources", kind, None, Workspace) \in ToSet(stack')
  BY <1>3, <1>6, <1>7, SubActionsType
<1>9. LET a == Action("resources", kind, None, Workspace)
      IN  /\ a.op = "resources" /\ a.kind = kind /\ a.parent = Workspace
          /\ From(a.token) <= n
  BY NotWhole DEF From, Kind
<1> QED BY <1>8, <1>9 DEF Reaches

\* The step yields the last page of a kind from n on, or up to n.
Yields(kind, n) ==
  /\ SyncResourcesOfKind
  /\ Current.kind = kind /\ Current.parent = Workspace /\ From(Current.token) <= n
  /\ Call.next = NoToken \/ ~(From(Call.next) <= n)

\* What is coming is coming until it is yielded.
LEMMA ComingStep ==
  ASSUME ListInv, ~Cancels, [Next]_vars, ~Doomed',
         NEW kind \in ChildKind, NEW n \in Nat \ {0}, Coming(kind, n)
  PROVE  Coming(kind, n)' \/ Yields(kind, n)
<1>1. /\ TypeInv /\ StopInv /\ stack \in Seq(ActionSet) /\ resources \in Seq(ResourceSet)
      /\ Fresh /\ kind \in Kind /\ kind # "workspace"
  BY DEF ListInv, CoverInv, ShapeInv, TypeInv, TypeOK, Kind, ChildKind, PagedKind
<1> DEFINE Stays == ~IsStored("workspace", Workspace)'
<1>2. ASSUME ~IsStored("workspace", Workspace), ~Stays
      PROVE  Coming(kind, n)'
  BY <1>2, WorkspacePut DEF Coming
<1>3. ASSUME NEW r \in pending, r.kind = "workspace", ~IsStored("workspace", Workspace), Stays
      PROVE  Coming(kind, n)'
  <2>1. ~Doomed
    BY <1>1, DoomedStays
  <2>2. r.id = Workspace
    <3>1. r \in ResourceSet
      BY <1>1 DEF TypeInv, TypeOK
    <3>2. r.id \in {Workspace, None}
      BY <1>3, <3>1 DEF ResourceSet, ResourceId, Ever
    <3> QED BY <1>3, <2>1, <3>2 DEF Doomed
  <2>3. Here("workspace", Workspace)'
    BY <1>1, <1>3, <2>2, HereStays DEF Here
  <2>4. \E q \in pending' : q.kind = "workspace"
    BY <1>3, <2>3 DEF Here
  <2> QED BY <1>3, <2>4 DEF Coming
<1>4. ASSUME NEW a \in ToSet(stack), a \in ToSet(stack'),
             \/ a.op = "init"
             \/ a.op = "resources" /\ a.kind = None
             \/ a.op = "resources" /\ a.kind = "workspace" /\ Stays
             \/ a.op = "resources" /\ a.kind = kind /\ a.parent = Workspace /\ From(a.token) <= n
      PROVE  Coming(kind, n)'
  BY <1>4 DEF Coming, Reaches
<1>5. CASE InitSync /\ stack # <<>>
  <2>1. ToSet(stack') = ToSet(Finished) \cup ToSet(StepActions)
    BY <1>1, <1>5, StepActionsType, PushAllIs DEF InitSync, StepActions
  <2>2. Whole("resources") \in ToSet(stack')
    BY <2>1, StepActionsType
  <2> QED BY <2>2, WholeType DEF Coming, Reaches, Op
<1>6. CASE SyncResources /\ stack # <<>>
  <2>1. ToSet(stack') = ToSet(Finished) \cup ToSet(KindActions) /\ resources' = resources
    BY <1>1, <1>6, KindActionsType, PushAllIs DEF SyncResources, KindActions, stored
  <2>2. Action("resources", "workspace", None, None) \in ToSet(stack')
    BY <2>1, KindActionsType DEF Kind
  <2>3. Current \in ToSet(stack) /\ Current = Whole("resources")
    BY <1>1, <1>6, CurrentType DEF SyncResources, AllOf, Doing
  <2>4. resources = <<>>
    BY <1>1, <2>3 DEF Fresh
  <2>5. Stays
    BY <2>1, <2>4 DEF IsStored
  <2> QED BY <2>2, <2>5, NotWhole DEF Coming, Reaches, Kind
<1>7. CASE SyncResourcesOfKind /\ Current.kind = "workspace" /\ ~IsStored("workspace", Workspace)
  <2>1. Calls("resources") /\ pending' = Call.items /\ resources' = resources
    BY <1>7 DEF SyncResourcesOfKind, stored
  <2>2. Call = List("workspace", Current.parent, Current.token, World)
    BY <1>1, <1>7, <2>1, ListCallOf
  <2>3. \E r \in pending' : r.kind = "workspace"
    <3>1. \E id : NewResource("workspace", id, None) \in pending'
      BY <2>1, <2>2, WorkspaceListIs
    <3> QED BY <3>1 DEF NewResource
  <2>4. Stays
    BY <1>7, <2>1 DEF IsStored
  <2> QED BY <2>3, <2>4 DEF Coming
<1>8. CASE SyncResourcesOfKind /\ Current.kind = kind /\ Current.parent = Workspace
             /\ From(Current.token) <= n
  <2>1. Calls("resources") /\ Turn(Call.next)
    BY <1>8 DEF SyncResourcesOfKind
  <2>2. stack # <<>> /\ Current.op = "resources" /\ Current.kind # None /\ Call.next \in Token
    BY <1>1, <2>1, ListCallOf
  <2>3. CASE Call.next # NoToken /\ From(Call.next) <= n
    <3>1. [Current EXCEPT !.token = Call.next] \in ToSet(stack')
      BY <1>1, <2>1, <2>2, <2>3, TurnIs
    <3>2. LET b == [Current EXCEPT !.token = Call.next]
          IN  b.op = "resources" /\ b.kind = kind /\ b.parent = Workspace /\ b.token = Call.next
      BY <1>1, <1>8, <2>2, TurnedType
    <3> QED BY <2>3, <3>1, <3>2 DEF Coming, Reaches
  <2> QED BY <1>8, <2>3 DEF Yields
<1>9. ASSUME NEW a \in ToSet(stack),
             \/ a.op = "init"
             \/ a.op = "resources" /\ a.kind = None
             \/ a.op = "resources" /\ a.kind = "workspace" /\ ~IsStored("workspace", Workspace)
             \/ a.op = "resources" /\ a.kind = kind /\ a.parent = Workspace /\ From(a.token) <= n
      PROVE  Coming(kind, n)' \/ Yields(kind, n)
  <2>1. CASE a \in ToSet(stack')
    BY <1>2, <1>4, <1>9, <2>1
  <2>2. CASE phase = "act" /\ a = Current /\ stack' # stack /\ stack # <<>>
    BY <1>1, <1>5, <1>6, <1>7, <1>8, <1>9, <2>2, ListingDone
  <2> QED BY <1>1, <2>1, <2>2, ActionStays
<1> QED BY <1>2, <1>3, <1>9 DEF Coming, Reaches

\* A page that is yielded has what was there all the time, unless Segment cut it short.
LEMMA YieldIsHere ==
  ASSUME TypeInv, NEW kind \in {"user", "group", "role", "source"}, Trusted(kind),
         NEW n \in DOMAIN Pages[kind], Yields(kind, n), NEW id \in Pages[kind][n] \ Passing
  PROVE  Here(kind, id)'
<1>1. /\ Calls("resources") /\ Call.ok /\ Current.token \in Token /\ pending' = Call.items
      /\ Call = List(kind, Workspace, Current.token, World)
  BY ListCallOf DEF Yields, SyncResourcesOfKind
<1>2. Sound(kind, World) /\ World.gone \subseteq Passing
  BY TrustedIsSound DEF World, Absent, Passing
<1>3. \A x \in Pages[kind][n] \ World.gone : NewResource(kind, x, Workspace) \in Call.items
  BY <1>1, <1>2, ListLeavesNothing DEF Yields
<1>4. id \in Pages[kind][n] \ World.gone
  BY <1>2
<1> QED BY <1>1, <1>3, <1>4 DEF NewResource, Here

\* The listing of functions has them all in its one page.
LEMMA FunctionYieldIsHere ==
  ASSUME TypeInv, \A type \in FunctionType : Trusted(type), Yields("function", 1),
         NEW id \in Ever("function") \ Passing
  PROVE  Here("function", id)'
<1>1. /\ Calls("resources") /\ Call.ok /\ Current.token \in Token /\ pending' = Call.items
      /\ Call = List("function", Workspace, Current.token, World)
  BY ListCallOf DEF Yields, SyncResourcesOfKind
<1>2. (\A type \in FunctionType : Sound(type, World)) /\ World.gone \subseteq Passing
  BY TrustedIsSound DEF World, Absent, Passing
<1>3. NewResource("function", id, Workspace) \in Call.items
  BY <1>1, <1>2, FunctionsLeaveNothing
<1> QED BY <1>1, <1>3 DEF NewResource, Here

\* The pages of users, groups, roles and sources keep coming until they are here.
LEMMA PagesStep ==
  ASSUME ListInv, ~Cancels, [Next]_vars, ~Doomed', PagesCome
  PROVE  PagesCome'
<1>1. TypeInv /\ StopInv
  BY DEF ListInv, CoverInv, ShapeInv
<1> SUFFICES ASSUME NEW kind \in {"user", "group", "role", "source"}, Trusted(kind)',
                    NEW n \in DOMAIN Pages[kind], NEW id \in Pages[kind][n] \ Passing'
             PROVE  Here(kind, id)' \/ Coming(kind, n)'
  BY DEF PagesCome
<1>2. /\ Trusted(kind) /\ id \in Pages[kind][n] \ Passing /\ n \in Nat \ {0} /\ kind \in ChildKind
  BY <1>1, TrustedBefore, Growing, PageNumbers DEF ChildKind, PagedKind, Collection
<1>3. Here(kind, id) \/ Coming(kind, n)
  BY <1>2 DEF PagesCome
<1> QED BY <1>1, <1>2, <1>3, HereStays, ComingStep, YieldIsHere

\* So do the functions.
LEMMA FunctionsStep ==
  ASSUME ListInv, ~Cancels, [Next]_vars, ~Doomed', FunctionsCome
  PROVE  FunctionsCome'
<1>1. TypeInv /\ StopInv
  BY DEF ListInv, CoverInv, ShapeInv
<1> SUFFICES ASSUME \A type \in FunctionType : Trusted(type)', NEW id \in Ever("function") \ Passing'
             PROVE  Here("function", id)' \/ Coming("function", 1)'
  BY DEF FunctionsCome
<1>2. /\ (\A type \in FunctionType : Trusted(type)) /\ id \in Ever("function") \ Passing
      /\ "function" \in ChildKind
  BY <1>1, TrustedBefore, Growing DEF ChildKind
<1>3. Here("function", id) \/ Coming("function", 1)
  BY <1>2 DEF FunctionsCome
<1> QED BY <1>1, <1>2, <1>3, HereStays, ComingStep, FunctionYieldIsHere

\* ListInv is inductive, as long as no run is cancelled.
LEMMA ListStep ==
  ASSUME ListInv, ~Cancels, [Next]_vars
  PROVE  ListInv'
<1>1. CoverInv' /\ Fresh' /\ StopInv' /\ (Doomed' => ~Trusted("workspace")')
  BY CoverStep, FreshStep, StopStep, DoomedStep DEF ListInv
<1>2. ASSUME ~Doomed' PROVE WorkspaceComes' /\ PagesCome' /\ FunctionsCome'
  <2>1. ~Doomed
    BY <1>2, DoomedStays DEF ListInv, CoverInv, ShapeInv
  <2> QED BY <1>2, <2>1, WorkspaceStep, PagesStep, FunctionsStep DEF ListInv
<1> QED BY <1>1, <1>2 DEF ListInv

\* At first everything is ahead, in the one action of the stack.
LEMMA InitListInv == Init => ListInv
<1> SUFFICES ASSUME Init PROVE ListInv
  OBVIOUS
<1>1. /\ resources = <<>> /\ pending = {} /\ ToSet(<<>>) = {} /\ phase # "stopped"
      /\ stack = <<Whole("init")>>
  BY DEF Init, ToSet
<1>2. Whole("init") \in ToSet(stack) /\ Whole("init").op = "init"
  BY <1>1, WholeType DEF ToSet, Op
<1>3. CoverInv /\ Fresh /\ StopInv /\ ~Doomed
  BY <1>1, InitCoverInv DEF Fresh, StopInv, Doomed
<1>4. WorkspaceComes /\ \A kind, n : Coming(kind, n)
  BY <1>2 DEF WorkspaceComes, Coming, Reaches
<1> QED BY <1>3, <1>4 DEF ListInv, PagesCome, FunctionsCome

\* ListInv holds in every run that only failures stop.
LEMMA ListIsInvariant ==
  ASSUME ~Cancels
  PROVE  Spec => []ListInv
<1>1. ListInv /\ [Next]_vars => ListInv'
  BY ListStep
<1> QED BY <1>1, InitListInv, PTL DEF Spec

\* Whenever a run stops at a failure, what is not in the store yet is still ahead of the
\* one that resumes it: the saved stack lists every page that was not put.
THEOREM NothingIsForgotten ==
  ASSUME ~Cancels
  PROVE  Spec => []NothingForgotten
<1>1. ListInv => NothingForgotten
  <2> SUFFICES ASSUME ListInv, phase = "stopped", Trusted("workspace") PROVE NothingForgotten
    BY DEF NothingForgotten
  <2>1. stack = saved /\ pending = {} /\ PagesCome /\ FunctionsCome
    BY DEF ListInv, StopInv
  <2>2. \A kind, id : Here(kind, id) => IsStored(kind, id)
    BY <2>1 DEF Here
  <2>3. \A kind, n : Coming(kind, n) => Reaches(saved, kind, n)
    BY <2>1 DEF Coming
  <2>4. \A kind \in {"user", "group", "role", "source"} : Trusted(kind) =>
          \A n \in DOMAIN Pages[kind] : \A id \in Pages[kind][n] \ Passing :
            IsStored(kind, id) \/ Reaches(saved, kind, n)
    BY <2>1, <2>2, <2>3 DEF PagesCome
  <2>5. (\A type \in FunctionType : Trusted(type)) =>
          \A id \in Lasting("function") : IsStored("function", id) \/ Reaches(saved, "function", 1)
    BY <2>1, <2>2, <2>3 DEF FunctionsCome, Lasting
  <2> QED BY <2>4, <2>5 DEF NothingForgotten
<1> QED BY <1>1, ListIsInvariant, PTL

\* Where nothing is coming any more, all is in the store.
LEMMA AllIsStored ==
  ASSUME ListInv, phase \in {"act", "complete"},
         \A a \in ToSet(stack) : a.op \in {"expansion", "grants"}
  PROVE  /\ ~Doomed
         /\ IsStored("workspace", Workspace)
         /\ \A kind \in {"user", "group", "role", "source"} : Trusted(kind) =>
              \A id \in Lasting(kind) : IsStored(kind, id)
         /\ (\A type \in FunctionType : Trusted(type)) =>
              \A id \in Lasting("function") : IsStored("function", id)
<1>1. pending = {} /\ AllAhead(stack) /\ stack \in Seq(ActionSet)
  BY DEF ListInv, CoverInv, ShapeInv, TypeInv, TypeOK
<1>2. \A r, n : ~Ahead(stack, "entitlements", r, n)
  BY WholeType DEF Ahead, Op
<1>3. ~Doomed
  BY <1>1, <1>2 DEF Doomed, AllAhead, NamelessAhead
<1>4. \A kind, n : ~Coming(kind, n)
  BY <1>1 DEF Coming, Reaches
<1>5. \A kind, id : Here(kind, id) => IsStored(kind, id)
  BY <1>1 DEF Here
<1>6. WorkspaceComes /\ PagesCome /\ FunctionsCome
  BY <1>3 DEF ListInv
<1>7. IsStored("workspace", Workspace)
  BY <1>5, <1>6 DEF WorkspaceComes
<1>8. ASSUME NEW kind \in {"user", "group", "role", "source"}, Trusted(kind),
             NEW id \in Lasting(kind)
      PROVE  IsStored(kind, id)
  <2>1. PICK n \in DOMAIN Pages[kind] : id \in Pages[kind][n] \ Passing
    BY PagedIds DEF Lasting, Everything, PagedKind
  <2> QED BY <1>4, <1>5, <1>6, <1>8, <2>1 DEF PagesCome
<1>9. ASSUME \A type \in FunctionType : Trusted(type), NEW id \in Lasting("function")
      PROVE  IsStored("function", id)
  BY <1>4, <1>5, <1>6, <1>9 DEF FunctionsCome, Lasting
<1> QED BY <1>3, <1>7, <1>8, <1>9

\* A complete sync has the workspace, every user, group, role and source that is left, and
\* every function, but for the collections that Segment answered short; one whose workspace
\* came without an id never completes.
THEOREM EverythingIsListed ==
  ASSUME ~Cancels
  PROVE  Spec => []CompleteHasAll
<1>1. ListInv => CompleteHasAll
  <2> SUFFICES ASSUME ListInv, phase = "complete"
               PROVE  /\ Listed({"workspace"})
                      /\ Listed({kind \in {"user", "group", "role", "source"} : Trusted(kind)})
                      /\ (\A type \in FunctionType : Trusted(type)) => Listed({"function"})
    BY DEF CompleteHasAll
  <2>1. stack = <<>>
    BY DEF ListInv, CoverInv, ShapeInv, PhaseInv
  <2>2. \A a \in ToSet(stack) : a.op \in {"expansion", "grants"}
    BY <2>1 DEF ToSet
  <2> QED BY <2>2, AllIsStored DEF Listed, Lasting, Ever
<1> QED BY <1>1, ListIsInvariant, PTL

\* The principals and the entitlements of the grants are in the store, from the first one
\* on.
GrantResolves(g) ==
  /\ g.principal.id \in Newcomers \/ IsStored(g.principal.kind, g.principal.id)
  /\ g.entitlement.name = "member" =>
       g.entitlement.id \in Newcomers \/ g.entitlement \in entitlements

Resolved == Trusted("user") /\ Trusted("role") => \A g \in grants : GrantResolves(g)

\* The role of every access is one of the workspace, and stays there.
LEMMA RolesStay ==
  ASSUME TypeInv, NEW p \in DOMAIN Holds, NEW a \in World.held[p]
  PROVE  a.role \in Role /\ a.role # "member" /\ (a.role \in Newcomers \/ a.role \in Lasting("role"))
<1>1. a \in Holds[p] \/ \E c \in changed : a = c.access
  BY DEF World, Toggled
<1>2. changed \subseteq Changing /\ gone \subseteq Deletable
  BY DEF TypeInv, TypeOK
<1>3. a.role \in Role
  BY <1>1, <1>2, SyncAssumption
<1>4. Ever("role") = Role
  BY PagedIds DEF Role, PagedKind
<1> QED BY <1>2, <1>3, <1>4, SyncAssumption DEF Lasting, Passing

\* Grants are asked for when everything is listed, and has its entitlements.
LEMMA GrantsComeLast ==
  ASSUME ListInv, Calls("grants")
  PROVE  /\ \A kind \in {"user", "group", "role", "source"} : Trusted(kind) =>
              \A id \in Lasting(kind) : IsStored(kind, id)
         /\ \A kind \in {"workspace", "group", "role"} : \A id :
              IsStored(kind, id) => Entitlement(kind, id, "member") \in entitlements
<1>1. /\ TypeInv /\ Ordered(stack) /\ stack \in Seq(ActionSet) /\ resources \in Seq(ResourceSet)
      /\ MembershipAhead(stack)
  BY DEF ListInv, CoverInv, ShapeInv, Shape, TypeInv, TypeOK, AllAhead
<1>2. phase = "act" /\ stack # <<>> /\ Current.op = "grants"
  BY <1>1, CallOf
<1>3. \A a \in ToSet(stack) : a.op \in {"expansion", "grants"}
  <2>1. TAKE a \in ToSet(stack)
  <2>2. Rank[a.op] <= Rank["grants"] /\ a.op \in Op
    <3>1. a \in ActionSet
      BY <1>1, SeqElements
    <3> QED BY <1>1, <1>2, <3>1, TopRank DEF Current, ActionSet
  <2> QED BY <2>2 DEF Rank, Op
<1>4. \A r, n : ~Ahead(stack, "entitlements", r, n)
  BY <1>3, WholeType DEF Ahead, Op
<1>5. ASSUME NEW kind \in {"workspace", "group", "role"}, NEW id, IsStored(kind, id)
      PROVE  Entitlement(kind, id, "member") \in entitlements
  <2>1. PICK r \in ToSet(resources) : r.kind = kind /\ r.id = id
    BY <1>1, <1>5, StoredIs
  <2> QED BY <1>1, <1>4, <2>1 DEF MembershipAhead
<1> QED BY <1>2, <1>3, <1>5, AllIsStored

\* The grants of one page name principals and memberships that are stored already.
LEMMA PageResolves ==
  ASSUME ListInv, Calls("grants"), Trusted("user"), Trusted("role"), NEW g \in Call.items
  PROVE  GrantResolves(g)
<1>1. TypeInv /\ Grounded(stack) /\ stack \in Seq(ActionSet)
  BY DEF ListInv, CoverInv, ShapeInv, TypeInv, TypeOK
<1>2. /\ stack # <<>> /\ Current.op = "grants" /\ Current.kind \in Kind /\ Current.kind # None
      /\ Current.token \in Token /\ Current.id \in Ever(Current.kind)
      /\ Call = Grants(Current, Current.token, World)
  BY <1>1, CallOf
<1>3. IsStored(Current.kind, Current.id)
  BY <1>1, <1>2, CurrentType DEF Grounded
<1> DEFINE held == PermissionGrants(Current.kind, Current.id, World.held[Current.id])
<1>4. Call.items \subseteq
        CASE Current.kind = "user" -> held
          [] Current.kind = "group" ->
               held \cup MemberGrants(Current, Everything(MemberPages[Current.id]) \ Absent)
          [] Current.kind = "workspace" -> MemberGrants(Current, Ever("user") \ Absent)
          [] OTHER -> {}
  <2>1. World.gone = Absent
    BY DEF World
  <2> QED BY <1>2, <2>1, GrantsType
<1>5. ASSUME Current.kind \in {"user", "group"},
             g \in PermissionGrants(Current.kind, Current.id, World.held[Current.id])
      PROVE  GrantResolves(g)
  <2>1. PICK a \in World.held[Current.id] : g = NewGrant(EntitlementOf(a), Current.kind, Current.id)
    BY <1>5 DEF PermissionGrants
  <2>2. /\ g.principal.kind = Current.kind /\ g.principal.id = Current.id
        /\ g.entitlement = EntitlementOf(a)
    BY <2>1 DEF NewGrant
  <2>3. (a.role \in Newcomers \/ a.role \in Lasting("role")) /\ a.role # "member"
    BY <1>1, <1>2, <1>5, Principals, RolesStay
  <2>4. a.role \in Newcomers \/ Entitlement("role", a.role, "member") \in entitlements
    BY <2>3, GrantsComeLast
  <2>5. \/ EntitlementOf(a) = Entitlement("role", a.role, "member")
        \/ EntitlementOf(a) = Entitlement("function", a.id, a.role)
    BY DEF EntitlementOf
  <2>6. Entitlement("function", a.id, a.role).name = a.role
    BY DEF Entitlement
  <2>7. Entitlement("role", a.role, "member").id = a.role
    BY DEF Entitlement
  <2> QED BY <1>3, <2>2, <2>3, <2>4, <2>5, <2>6, <2>7 DEF GrantResolves
<1>6. ASSUME Current.kind \in {"group", "workspace"}, NEW users,
             users \subseteq Lasting("user") \cup Newcomers, g \in MemberGrants(Current, users)
      PROVE  GrantResolves(g)
  <2>1. PICK u \in users : g = NewGrant(Entitlement(Current.kind, Current.id, "member"), "user", u)
    BY <1>6 DEF MemberGrants
  <2>2. /\ g.principal.kind = "user" /\ g.principal.id = u
        /\ g.entitlement = Entitlement(Current.kind, Current.id, "member")
    BY <2>1 DEF NewGrant
  <2>3. u \in Newcomers \/ IsStored("user", u)
    BY <1>6, GrantsComeLast
  <2>4. Entitlement(Current.kind, Current.id, "member") \in entitlements
    BY <1>3, <1>6, GrantsComeLast
  <2> QED BY <2>2, <2>3, <2>4 DEF GrantResolves
<1>7. CASE Current.kind = "user"
  BY <1>4, <1>5, <1>7
<1>8. CASE Current.kind = "group"
  <2>1. Everything(MemberPages[Current.id]) \ Absent \subseteq Lasting("user") \cup Newcomers
    BY <1>2, <1>8, ConnectorAssumption, PagedIds DEF Lasting, Absent, Passing, PagedKind
  <2> QED BY <1>4, <1>5, <1>6, <1>8, <2>1
<1>9. CASE Current.kind = "workspace"
  <2>1. Ever("user") \ Absent \subseteq Lasting("user") \cup Newcomers
    BY DEF Lasting, Absent, Passing
  <2> QED BY <1>4, <1>6, <1>9, <2>1
<1>10. CASE Current.kind \notin {"user", "group", "workspace"}
  BY <1>4, <1>10
<1> QED BY <1>7, <1>8, <1>9, <1>10

\* In a complete sync the principal of each grant is a stored resource, and a grant of
\* membership is on a stored entitlement, but for users and roles that were created while
\* the sync went on: the steps of the stack keep their order, so that grants are asked for
\* only when all resources are listed and have their entitlements.
THEOREM GrantsAreResolved ==
  ASSUME ~Cancels
  PROVE  Spec => []GrantsResolve
<1> DEFINE Inv == ListInv /\ Resolved
<1>1. Init => Inv
  BY InitListInv DEF Init, Resolved
<1>2. Inv /\ [Next]_vars => Inv'
  <2> SUFFICES ASSUME Inv, [Next]_vars PROVE Resolved'
    BY ListStep
  <2>1. TypeInv
    BY DEF ListInv, CoverInv, ShapeInv
  <2> SUFFICES ASSUME Trusted("user")', Trusted("role")', NEW g \in grants'
               PROVE  GrantResolves(g)'
    BY DEF Resolved
  <2>2. Trusted("user") /\ Trusted("role")
    BY <2>1, TrustedBefore
  <2>3. GrantResolves(g)
    BY <2>2, GrantsStep, PageResolves DEF Resolved
  <2> QED BY <2>1, <2>3, StoredStays, Growing DEF GrantResolves
<1>3. Inv => GrantsResolve
  BY DEF Resolved, GrantResolves, GrantsResolve
<1> QED BY <1>1, <1>2, <1>3, PTL DEF Spec

=============================================================================
