-------------------------------- MODULE Sync --------------------------------
(***************************************************************************)
(* A full sync of baton-segment: the SDK's syncer works through a stack of *)
(* actions, one page of the connector at a time, and puts what it gets in  *)
(* the store.  Before each action it writes the stack to the store too, so *)
(* that a run that stops is resumed by the next one.                       *)
(***************************************************************************)
EXTENDS Connector, FiniteSets, SequencesExt

CONSTANTS Holds,       \* user or group -> its accesses [role, type, id] at first
          Changing,    \* [who, access] given or taken away once, at any time
          Ailments,    \* what may be wrong with Segment's answers
          MaxAilments, \* bound on how often something is
          MaxStops,    \* bound on the runs that fail or are cancelled
          Cancels,     \* runs are cancelled at any point, not only by failures
          Deletable,   \* principals that may be deleted while the sync goes on
          Newcomers    \* ids that are not there when it begins, but may come to be

Role == Everything(Pages["role"])

\* Every principal holds some set of accesses, each with a role of the workspace, which is
\* there from the start if the access is; no role has the name of a membership, or the id
\* of a principal.
ASSUME SyncAssumption ==
  /\ Ailments \subseteq Ailment /\ MaxAilments \in Nat
  /\ MaxStops \in Nat /\ Cancels \in BOOLEAN
  /\ \A c \in Changing : c.who \in DOMAIN Holds
  /\ Everything(Pages["user"]) \cup Everything(Pages["group"]) \subseteq DOMAIN Holds
  /\ "member" \notin Role
  /\ \A a \in (UNION {Holds[p] : p \in DOMAIN Holds}) \cup {c.access : c \in Changing} :
       a.role \in Role
  /\ \A p \in DOMAIN Holds : \A a \in Holds[p] : a.role \notin Newcomers
  /\ Deletable \cap Role = {}

VARIABLES
  phase,        \* "checkpoint", "act", "put", "stopped" or "complete"
  stack,        \* the syncer's actions, the current one last
  pending,      \* resources of the last page that are not in the store yet
  saved,        \* the stack in the store
  types,        \* resource types in the store
  resources,    \* resources in the store, in the order they were put there
  entitlements, \* entitlements in the store
  grants,       \* grants in the store
  gone,         \* principals deleted from Segment
  come,         \* newcomers that were created, with their groups and accesses
  changed,      \* accesses that were given or taken away since the sync began
  ill,          \* what is wrong with Segment's answers now, or None
  hadIll,       \* history: what has been wrong with them
  stops         \* the runs that stopped

stored == <<types, resources, entitlements, grants>>
segment == <<gone, come, changed, ill, hadIll>>
world == <<segment, stops>>
vars == <<phase, stack, pending, saved, stored, world>>

\* What p holds now, with the accesses of p in C the other way round.
Toggled(p, C) ==
  LET changes == {c.access : c \in {d \in C : d.who = p}}
  IN  (Holds[p] \ changes) \cup (changes \ Holds[p])

\* Those that are not in Segment now, and those that were not at some time since the
\* sync began.
Absent == gone \cup (Newcomers \ come)
Passing == gone \cup Newcomers

World == [gone |-> Absent, held |-> [p \in DOMAIN Holds |-> Toggled(p, changed)], ill |-> ill]

Action(op, kind, id, parent) ==
  [op |-> op, kind |-> kind, id |-> id, parent |-> parent, token |-> NoToken]
Whole(op) == Action(op, None, None, None)

\* ListResourceTypes yields the types in the order of a Go map: this is one of them.
\* Only the workspace is listed without a parent, so the order makes no difference.
TypeOrder == <<"user", "group", "workspace", "role", "source", "warehouse", "space",
               "function">>

\* The child types of the workspace, in the order of its annotations.
Children == <<"user", "group", "role", "function", "source", "warehouse", "space">>

-----------------------------------------------------------------------------
Init ==
  /\ phase = "checkpoint"
  /\ stack = <<Whole("init")>>
  /\ pending = {}
  /\ saved = <<Whole("init")>>
  /\ types = {}
  /\ resources = <<>>
  /\ entitlements = {}
  /\ grants = {}
  /\ gone = {}
  /\ come = {}
  /\ changed = {}
  /\ ill = None
  /\ hadIll = {}
  /\ stops = 0

Current == Last(stack)
Finished == Front(stack)
PushAll(actions) == Finished \o actions

\* Mutant: every page is taken for the last.
TurnFinishes(next) == stack' = Finished

\* FinishAction on the last page, NextPage before.
Turn(next) ==
  stack' = IF next = NoToken THEN Finished
           ELSE Append(Finished, [Current EXCEPT !.token = next])

Doing(op) == phase = "act" /\ Current.op = op
AllOf(op) == Doing(op) /\ Current.kind = None
OneOf(op) == Doing(op) /\ Current.kind # None

-----------------------------------------------------------------------------
Checkpoint ==
  /\ phase = "checkpoint"
  /\ stack # <<>>
  /\ saved' = stack
  /\ phase' = "act"
  /\ UNCHANGED <<stack, pending, stored, world>>

EndSync ==
  /\ phase = "checkpoint"
  /\ stack = <<>>
  /\ phase' = "complete"
  /\ UNCHANGED <<stack, pending, saved, stored, world>>

InitSync ==
  /\ Doing("init")
  /\ stack' = PushAll(<<Whole("expansion"), Whole("grants"), Whole("entitlements"),
                        Whole("resources"), Whole("types")>>)
  /\ saved' = stack'
  /\ phase' = "checkpoint"
  /\ UNCHANGED <<pending, stored, world>>

SyncResourceTypes ==
  /\ Doing("types")
  /\ types' = ToSet(TypeOrder)
  /\ stack' = Finished
  /\ phase' = "checkpoint"
  /\ UNCHANGED <<pending, saved, resources, entitlements, grants, world>>

SyncResources ==
  /\ AllOf("resources")
  /\ stack' = PushAll([i \in DOMAIN TypeOrder |->
                         Action("resources", TypeOrder[i], None, None)])
  /\ phase' = "checkpoint"
  /\ UNCHANGED <<pending, saved, stored, world>>

\* The call of the connector for the current action.
Call ==
  CASE Current.op = "resources" -> List(Current.kind, Current.parent, Current.token, World)
    [] Current.op = "entitlements" -> Entitlements(Current, Current.token, World)
    [] Current.op = "grants" -> Grants(Current, Current.token, World)

Hangs == Current.op = "resources" /\ Current.kind = "function" /\ Current.parent # None
           /\ FunctionListHangs(World)

\* A call that is made and returns without an error.
Calls(op) == OneOf(op) /\ ~Hangs /\ Call.ok

\* One page of one type: the action is finished or turned before the page is put.
SyncResourcesOfKind ==
  /\ Calls("resources")
  /\ pending' = Call.items
  /\ Turn(Call.next)
  /\ phase' = "put"
  /\ UNCHANGED <<saved, stored, world>>

IsStored(kind, id) == \E i \in DOMAIN resources : resources[i].kind = kind /\ resources[i].id = id

\* Mutant: one child type is missing from the workspace's annotations.
SubActionsNoUsers(r) ==
  IF r.kind # "workspace" THEN <<>>
  ELSE [i \in 1 .. Len(Children) - 1 |-> Action("resources", Children[i + 1], None, r.id)]

\* getSubResources: only the workspace has child types.
SubActions(r) ==
  IF r.kind # "workspace" THEN <<>>
  ELSE [i \in DOMAIN Children |-> Action("resources", Children[i], None, r.id)]

\* A resource that is in the store is skipped, and its children with it.
PutResource(r) ==
  /\ phase = "put"
  /\ r \in pending
  /\ pending' = pending \ {r}
  /\ IF IsStored(r.kind, r.id) THEN UNCHANGED <<stack, resources>>
     ELSE /\ resources' = Append(resources, r)
          /\ stack' = stack \o SubActions(r)
  /\ UNCHANGED <<phase, saved, types, entitlements, grants, world>>

PagePut ==
  /\ phase = "put"
  /\ pending = {}
  /\ phase' = "checkpoint"
  /\ UNCHANGED <<stack, pending, saved, stored, world>>

\* The whole of a step pushes one action for each resource in the store, which lists
\* them in the order of its rows.
PushForEachResource(op) ==
  /\ AllOf(op)
  /\ stack' = PushAll([i \in DOMAIN resources |->
                         Action(op, resources[i].kind, resources[i].id, None)])
  /\ phase' = "checkpoint"
  /\ UNCHANGED <<pending, saved, stored, world>>

SyncEntitlements == PushForEachResource("entitlements")
SyncGrants == PushForEachResource("grants")

SyncEntitlementsForResource ==
  /\ Calls("entitlements")
  /\ entitlements' = entitlements \cup Call.items
  /\ Turn(Call.next)
  /\ phase' = "checkpoint"
  /\ UNCHANGED <<pending, saved, types, resources, grants, world>>

SyncGrantsForResource ==
  /\ Calls("grants")
  /\ grants' = grants \cup Call.items
  /\ Turn(Call.next)
  /\ phase' = "checkpoint"
  /\ UNCHANGED <<pending, saved, types, resources, entitlements, world>>

\* No grant of this connector is expandable.
SyncGrantExpansion ==
  /\ Doing("expansion")
  /\ stack' = Finished
  /\ phase' = "checkpoint"
  /\ UNCHANGED <<pending, saved, stored, world>>

-----------------------------------------------------------------------------
Stop == /\ phase' = "stopped"
        /\ UNCHANGED <<stack, pending, saved, stored, segment>>

\* A call of the connector fails, whatever the reason; only an Unavailable is
\* retried, and the connector never returns one.
Fail ==
  /\ phase = "act"
  /\ Current.op \in {"resources", "entitlements", "grants"}
  /\ Current.kind # None
  /\ stops < MaxStops
  /\ stops' = stops + 1
  /\ Stop

\* The call for the current action is one that fails: its principal is gone, the
\* resource has no id, the cursor does not advance, the last page has errors.  The
\* next run makes it again.  This is not counted, and so not bounded.
FailForGood ==
  /\ phase = "act"
  /\ Current.kind # None
  /\ ~Hangs /\ ~Call.ok
  /\ stops' = stops
  /\ Stop

\* The run's context is cancelled: the store is closed and kept as it is.
Cancel ==
  /\ Cancels
  /\ phase \in {"checkpoint", "act", "put"}
  /\ stops < MaxStops
  /\ stops' = stops + 1
  /\ Stop

\* Mutants: the interrupted action is left out; the interrupted page is kept.
ResumeAfter ==
  /\ phase = "stopped"
  /\ stack' = IF saved = <<>> THEN <<>> ELSE Front(saved)
  /\ pending' = {}
  /\ phase' = "checkpoint"
  /\ UNCHANGED <<saved, stored, world>>

ResumeWithPage ==
  /\ phase = "stopped"
  /\ stack' = saved
  /\ phase' = "checkpoint"
  /\ UNCHANGED <<pending, saved, stored, world>>

\* The next run resumes the unfinished sync from the saved stack.
Resume ==
  /\ phase = "stopped"
  /\ stack' = saved
  /\ pending' = {}
  /\ phase' = "checkpoint"
  /\ UNCHANGED <<saved, stored, world>>

Delete(p) ==
  /\ p \in Deletable \ Absent
  /\ phase # "complete"
  /\ gone' = gone \cup {p}
  /\ UNCHANGED <<phase, stack, pending, saved, stored, come, changed, ill, hadIll, stops>>

Create(p) ==
  /\ p \in Newcomers \ (come \cup gone)
  /\ phase # "complete"
  /\ come' = come \cup {p}
  /\ UNCHANGED <<phase, stack, pending, saved, stored, gone, changed, ill, hadIll, stops>>

Change(c) ==
  /\ phase # "complete"
  /\ c \in Changing \ changed
  /\ c.who \notin Absent /\ c.access.role \notin Absent
  /\ changed' = changed \cup {c}
  /\ UNCHANGED <<phase, stack, pending, saved, stored, gone, come, ill, hadIll, stops>>

\* Segment, or a proxy on the way to it, falls ill and recovers.
FallIll(a) ==
  /\ phase # "complete"
  /\ ill = None
  /\ Cardinality(hadIll) < MaxAilments
  /\ ill' = a
  /\ hadIll' = hadIll \cup {a}
  /\ UNCHANGED <<phase, stack, pending, saved, stored, gone, come, changed, stops>>

Recover ==
  /\ ill # None
  /\ ill' = None
  /\ UNCHANGED <<phase, stack, pending, saved, stored, gone, come, changed, hadIll, stops>>

Done == phase = "complete" /\ UNCHANGED vars

SyncerStep ==
  \/ Checkpoint \/ EndSync \/ InitSync \/ SyncResourceTypes
  \/ SyncResources \/ SyncResourcesOfKind \/ (\E r \in pending : PutResource(r)) \/ PagePut
  \/ SyncEntitlements \/ SyncEntitlementsForResource
  \/ SyncGrants \/ SyncGrantsForResource \/ SyncGrantExpansion
  \/ Resume

Next == \/ SyncerStep \/ Fail \/ FailForGood \/ Cancel \/ Done
        \/ \E p \in Deletable : Delete(p)
        \/ \E p \in Newcomers : Create(p)
        \/ \E c \in Changing : Change(c)
        \/ \E a \in Ailments : FallIll(a)
        \/ Recover

Spec == Init /\ [][Next]_vars

\* A run goes on until it ends, an operator or a service starts the next one, and no
\* ailment lasts for ever.
FairSpec == Spec /\ WF_vars(SyncerStep \/ FailForGood) /\ WF_vars(Recover)
-----------------------------------------------------------------------------
(***************************************************************************)
(* Properties.                                                             *)
(***************************************************************************)
Phase == {"checkpoint", "act", "put", "stopped", "complete"}
Op == {"init", "types", "resources", "entitlements", "grants", "expansion"}

ActionSet ==
  {a \in [op : Op, kind : Kind \cup {None}, id : AnyId, parent : Parent,
          token : PageToken \cup {NoToken}] :
     IF a.kind = None THEN a = Whole(a.op)
                      ELSE a.op # "resources" => a.id \in ResourceId(a.kind)}
EntitlementSet ==
  [kind : Kind, id : UNION {Ever(kind) : kind \in Kind}, name : Role \cup {"member"}]

\* Every variable holds a value of its kind, and a page is put only by a run that
\* is putting one, or was when it stopped.
TypeOK ==
  /\ phase \in Phase
  /\ stack \in Seq(ActionSet) /\ saved \in Seq(ActionSet)
  /\ types \subseteq Kind
  /\ resources \in Seq(ResourceSet)
  /\ pending \subseteq ResourceSet
  /\ entitlements \subseteq EntitlementSet
  /\ gone \subseteq Deletable /\ come \subseteq Newcomers
  /\ pending # {} => phase \in {"put", "stopped"}
  /\ changed \subseteq Changing
  /\ ill \in Ailments \cup {None} /\ hadIll \subseteq Ailments
  /\ ill # None => ill \in hadIll
  /\ stops \in 0 .. MaxStops

\* The ids of a kind that were in Segment all the time since the sync began.
Lasting(kind) == Ever(kind) \ Passing

Listed(kinds) == \A kind \in kinds : \A id \in Lasting(kind) : IsStored(kind, id)

\* No answer of the endpoint was cut short while the sync went on.  One with a cursor
\* that does not advance is an error or a delay, and loses nothing.
Trusted(at) == \A a \in hadIll : a.at = at => a.how = "same"

\* A complete sync has every user, group, role, source and function that was there all
\* the time, however often it was resumed and whatever the page it stopped at, whoever
\* was deleted or created meanwhile, but for the collections that
\* Segment answered short.  A short answer for the workspace itself never makes a
\* complete sync.  No sync has a warehouse or a space: ListWarehouses and ListSpaces
\* never see one.
CompleteHasAll ==
  phase = "complete" =>
    /\ Listed({"workspace"})
    /\ Listed({kind \in {"user", "group", "role", "source"} : Trusted(kind)})
    /\ (\A type \in FunctionType : Trusted(type)) => Listed({"function"})

\* A stack that will still list page n of a kind.
Reaches(s, kind, n) ==
  \E a \in ToSet(s) :
    \/ a.op = "init"
    \/ a.op = "resources" /\ a.kind = None
    \/ a.op = "resources" /\ a.kind = "workspace" /\ ~IsStored("workspace", Workspace)
    \/ a.op = "resources" /\ a.kind = kind /\ a.parent = Workspace /\ From(a.token) <= n

\* Whenever a run stops, what is not in the store yet is still ahead of the one
\* that resumes it.
NothingForgotten ==
  phase = "stopped" /\ Trusted("workspace") =>
    /\ \A kind \in {"user", "group", "role", "source"} : Trusted(kind) =>
         \A n \in DOMAIN Pages[kind] : \A id \in Pages[kind][n] \ Passing :
           IsStored(kind, id) \/ Reaches(saved, kind, n)
    /\ (\A type \in FunctionType : Trusted(type)) =>
         \A id \in Lasting("function") : IsStored("function", id) \/ Reaches(saved, "function", 1)

Stored(kind) == {id \in Ever(kind) : IsStored(kind, id)}

\* The grants of the stored resources, if each principal p holds accesses[p]; those who
\* are out have none, and are members of nothing.
GrantsOf(accesses, out) ==
  UNION ({PermissionGrants("user", u, accesses[u]) : u \in Stored("user") \ out}
           \cup {PermissionGrants("group", g, accesses[g]) : g \in Stored("group") \ out}
           \cup {MemberGrants([kind |-> "group", id |-> g], Everything(MemberPages[g]) \ out) :
                   g \in Stored("group") \ out}
           \cup {MemberGrants([kind |-> "workspace", id |-> w], Ever("user") \ out) :
                   w \in Stored("workspace")})

\* What was held all the time, and what was held at some time, since the sync began.
ChangedOf(p) == {c.access : c \in {d \in changed : d.who = p}}
HeldThroughout == [p \in DOMAIN Holds |-> Holds[p] \ ChangedOf(p)]
HeldSometime == [p \in DOMAIN Holds |-> Holds[p] \cup ChangedOf(p)]

\* No grant is ever in the store that was not true of a stored resource at some time since
\* the sync began, however often it was resumed and whatever Segment answered.
NothingInvented == grants \subseteq GrantsOf(HeldSometime, {})

\* A complete sync lacks no grant of its users, groups and members that was true all the
\* time, wherever its runs stopped and whatever changed meanwhile.
CompleteHasGrants ==
  phase = "complete" /\ (\A at \in {"principal", "members", "user"} : Trusted(at)) =>
    GrantsOf(HeldThroughout, Passing) \subseteq grants

\* A complete sync has an entitlement for each role that speaks of the kind of a
\* source or a function, from whichever page of the roles it comes.
CompleteHasEntitlements ==
  phase = "complete" /\ Trusted("role") =>
    \A r \in ToSet(resources), x \in Lasting("role") :
      r.kind \in RoleKind /\ r.kind \in NamesKind[x]
        => Entitlement(r.kind, r.id, x) \in entitlements

\* In a complete sync the principal of each grant is a stored resource, and a grant
\* of membership is on a stored entitlement: but for users and roles that were created
\* while the sync went on.  The workspace's users and a group's members are read again
\* long after the users were listed, and nothing looks for what is missing then.
GrantsResolve ==
  phase = "complete" /\ Trusted("user") /\ Trusted("role") =>
    \A g \in grants :
      /\ g.principal.id \in Newcomers \/ IsStored(g.principal.kind, g.principal.id)
      /\ g.entitlement.name = "member" =>
           g.entitlement.id \in Newcomers \/ g.entitlement \in entitlements

\* users.go turns permissions into grants on resources; the entitlement each is on
\* is one that the resource has.
PermissionsResolve ==
  phase = "complete" => \A g \in grants : g.entitlement \in entitlements

\* A sync completes, after any number of failures and resumes.
SyncCompletes == <>(phase = "complete")
=============================================================================
