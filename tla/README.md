# baton-segment: specifications, model checking and proofs

baton-segment is a connector of the Baton SDK for the customer data platform
Segment. It *syncs* a Segment workspace (who there is, and who may do what)
into a file, and *provisions* it (grants and revokes roles and group
memberships). These modules specify both, with the parts of the SDK that drive
the connector (the process with its worker slots, task managers and heartbeats,
the syncer, the one-shot commands), and say what can go wrong when calls overlap,
fail, are repeated or are cut short.

## 1. Inventory

### Components

| component | code | state it keeps | operations |
|---|---|---|---|
| Segment client | `pkg/segment/client.go`, `models.go` | none | 9 listings with cursors (users, groups, members of a group, roles, sources, warehouses, spaces, functions by type, workspace), `GetUser`, `GetGroup`, `UpdatePermissions`, `AddGroupMembers`, `RemoveGroupMember`, all through `doRequest` |
| resource builders, reading side | `pkg/connector/{users,groups,roles,workspace,sources,warehouses,spaces,functions}.go` | none | `List`, `Entitlements`, `Grants`, page by page |
| provisioners | the same files except `users.go` and `workspace.go` | none | `Grant`, `Revoke` |
| permission helpers | `pkg/connector/helpers.go` | none | `grantPermissions`, `revokePermissions`, `getRoleIdAndResourceType`, `baseResource` |
| page tokens | `helpers.go`, SDK `pagination` | the page token itself | `parsePageToken`, `NextToken` |
| syncer | SDK `sync/syncer.go`, `sync/state.go` | the action stack, saved in the sync file before each action; the sync file (resource types, resources, entitlements, grants) | one step per action: init, resource types, resources, entitlements, grants, expansion |
| sync file | SDK `dotc1z/sync_runs.go`, `sql_helpers.go` | the syncs, finished and not | start or resume a sync, look up in the latest finished one |
| one-shot commands | SDK `tasks/local/*.go`, `provisioner/provisioner.go` | the one task, done or not | sync into the file; grant and revoke what the file names |
| connector wrapper | SDK `internal/connector/connector.go` | the client all tasks share, the pipe of the subprocess behind it, a lock | give the client; start the subprocess and dial it for the first that asks; reset when it quits |
| task runner | SDK `connectorrunner/runner.go`, `golang.org/x/sync/semaphore` | a semaphore of worker slots, the count of errors, the wait, the shared context | take a slot, fetch a task, process it in a goroutine or in the loop, back off, stop |
| service task manager | SDK `tasks/c1api/*.go` | the queue with the hello, a heartbeat goroutine for each full sync | fetch a task, process it by its type, heartbeat, upload, finish |
| dispatch | SDK `connectorbuilder/connectorbuilder.go` | the registered builders | find the builder of a resource type, turn a panic into an error |
| Segment | external | permissions of each user and group, members of each group, the workspace's resources | answers, and fails to answer |
| metadata, validation, command line | `connector.go`, `resource_types.go`, `cmd/baton-segment` | none | constants and wiring |

### How they interact

A **sync** is one process in one goroutine. The syncer pops an action, calls
`List`, `Entitlements` or `Grants` for one page, the builder asks the client
for that page, and the syncer turns the action over (finishes it, or gives it the
next page token) and stores what came. Before each action the stack goes to the
sync file. A run that fails keeps the file; the next one resumes the latest
unfinished sync from the stack in it.

The **process** is the runner's loop. In service mode it takes a worker slot, asks
the ConductorOne service for a task and processes it in a goroutine. The goroutine
first asks for a client of the connector, which serves from a subprocess; then its
handler does the work. A full sync
has a second goroutine for its heartbeats, through which the service may cancel
it. On the command line the loop has one local task (a sync, a grant or a revoke),
processes it itself and returns. An interrupt cancels the one context they share.
Each task is to be *finished*: the service is told of success or of an error.

A **one-shot grant or revoke** looks up the entitlement, the principal and the
grant in the file of an earlier sync, which may be outdated.

**Provisioning** is concurrent. The runner takes one of its worker slots,
fetches a task and processes it in a goroutine of its own. Segment has no call
that adds or removes one permission: a provisioner reads all permissions of the
principal (GET), computes the new list and replaces the old list with it (PUT).
Nothing orders the tasks of one principal. Group membership is edited in place
by one call.

### What is hard, and what makes each part correct

* *Two writers of one list.* Another task, or an administrator, writes between
  the GET and the PUT. Correct: a list that nobody outdated is the current one
  with exactly the requested change; no access appears or goes unless somebody
  asked; what was granted or revoked lasts until somebody undoes it.
* *Answers.* Lost, refused, late (the request outlives its client), or with
  neither data nor errors, since `doRequest` looks at no status. Correct: a
  success that is reported is backed by a change.
* *Crashes.* Between GET and PUT, between PUT and report. Correct: no half of a
  change, and all worker slots come back.
* *Worker slots.* Each way a task ends releases its slot, once.
* *Resumes.* A run stops at any call, or between storing two resources. Correct:
  no page is forgotten, none is put twice to a different effect, and a complete
  sync has everything.
* *References.* Grants name entitlements and principals by type and id; those of
  one builder must be the ones another builder lists.
* *Segment changes while it is read.* Users and groups are deleted between being
  listed and being asked about, users, groups and roles are created, and permissions
  are given and taken, between two calls. Correct: a complete sync has what was there
  and held throughout, and nothing that never was.
* *Answers to reads.* With nothing in them, with errors beside a cursor, with a
  cursor that does not advance. Correct: only what was cut short may be missing.
* *Reading and writing speak of the same permissions.* A grant that a sync found
  is given to a revoke later. Correct: the revoke takes away what was found.
* *The subprocess.* It does not start, or quits while it is dialed or used. Correct:
  a task gets a client or an error, and the service hears of the error.
* *Ends.* Interrupts, tasks the service cancels, lost heartbeats and reports.
  Correct: the process and its goroutines end, slots come back, success is reported
  only for what was done, and a task that is over has been finished.
* *Numbers.* The backoff squares an unbounded count into a wrapping duration.

`PROJECT.json` lists each hazard with its line and the properties about it.

## 2. Modules

| module | what it is |
|---|---|
| `Permissions` | what a grant and a revoke compute, on the *set* of accesses (role, resource) that a list of permissions amounts to |
| `PermissionLists` | the same on the *lists*, with duplicates and several resources in one permission |
| `AtomicProvisioning` | abstract: each task makes the change it asks for at once, at most once, and reports success only after it; one whose answer was blank, or that was overtaken on its principal, may do otherwise and is known by it |
| `Provisioning` | runner slots, dispatch, provisioners, writing client, Segment, crashes, an administrator |
| `Connector` | the reading side as operators: client pages, page tokens, `List`, `Entitlements`, `Grants` |
| `LocalProvisioning` | the one-shot commands: syncs, grants and revokes in turn, over `Connector` and `PermissionLists`; shows that both sides speak of the same permissions and that the set view is right |
| `Sync` | the syncer's action stack over `Connector`, with the store, failures, cancellations, resumes, and with Segment changing and answering ill |
| `WorkerPool` | abstract: an open pool starts each task at most once, and at most `MaxWorkers` at a time; once closed it stays closed |
| `Daemon` | the process: the runner's loop and semaphore, the connector's subprocess and its client, the service's task manager and its handlers, the heartbeat goroutine, interrupts, one-shot mode |
| `MCProvisioning`, `MCLocalProvisioning`, `MCSync`, `MCDaemon` | the small instances for TLC |
| `ProvisioningProofs`, `RefinementProofs` | the theorems on `Provisioning`, and that it implements `AtomicProvisioning` |
| `DaemonProofs` | those on `Daemon`, and that it implements `WorkerPool` |
| `ReadingProofs` | lemmas on `Connector`: what a call returns, and that no page is left out |
| `SyncProofs`, `CoverageProofs`, `ListingProofs` | the theorems on `Sync`, each module on the one before: types, the shape of the stack, nothing invented; nothing missing of what is stored; nothing missing in the store |
| `LocalProofs` | lemmas on `PermissionLists`, and the theorems on `LocalProvisioning` |

`Provisioning` and `PermissionLists` extend `Permissions`;
`AtomicProvisioning` is instantiated by `Provisioning`, with the tasks whose write
was applied for `effected`, those answered blank for `blank` and `stale` for
`outdated`; `Sync` extends `Connector`, and `LocalProvisioning` extends both
`Connector` and `PermissionLists`; `WorkerPool` is instantiated by `Daemon`, with
the place of each task's goroutine for `at`. `Daemon` knows of a task only what its
work came to: what happens inside one is in `Provisioning` (a grant, a revoke) and in
`Sync`.

### Provisioning

| model | code |
|---|---|
| `slots`, `Start`, `Finish` | `run()` of `runner.go`: `sem.Acquire`, `handler.Next`, the goroutine, `sem.Release` |
| `req` | the task: operation, principal (with the login in its profile), entitlement |
| `pc` | `waiting`, `dispatch` (the builder is chosen and the arguments are checked), `get` and `send` (before the GET, before the write), `sent` (waiting for the answer), `done`, `lost` (in a crash) |
| `Dispatch`, `Rejected`, `SkipsWrite` | `builderImpl.Grant`/`Revoke`, the early returns of the provisioners; a description without a role id panics and becomes an error; `groups.go` answers a user without a login with success and makes no call |
| `Get`, `GetBlank`, `GetError` | `GetUser`/`GetGroup`, then `grantPermissions` or `revokePermissions` |
| `payload` | the list that will be PUT |
| `Send`, `net`, `ServePut`, `ServeMember`, `ServeNothing` | the write, and what Segment does with it |
| `Reply`, `LoseAnswer`, `Reports` | what `doRequest` and the client return; the removal of a member is always reported as a failure, since `RemoveGroupMember` passes its result by value and compares an empty status |
| `Crash`, `AdminChange` | the process dies; somebody else edits permissions |
| `stale` | history, in no code: the tasks whose list was outdated before it was served |

A task between its GET and its PUT has nothing but its computed list, so GET
and computation are one action. Sending and serving are two: a request may be
served after its client has gone (`LateWrites`).

### Connector and Sync

`Connector` has one operator for each method of the client and for `List`,
`Entitlements` and `Grants` of each resource type, for one page. Their last
argument `w` is Segment at that moment: who is gone, who holds what, and the one
endpoint that is ill, if any. `ListWarehouses` and `ListSpaces` are as they are:
they ask for the *sources* and find nothing in the answer. `Checked` is the SDK's
check for a repeated page token, which the loop in the functions' `List` escapes
(`FunctionListHangs`). What the code does with a result is in `Sync`.

| model | code |
|---|---|
| `stack`, `saved`, `Checkpoint` | `state.go`'s actions and their JSON in the sync run |
| `Turn` | `FinishAction` / `NextPage`, done before the page's items are stored |
| `phase = "put"`, `pending`, `PutResource`, `PagePut` | the loop of `syncResources`: a resource that is in the store is skipped, *and with it its children* |
| `resources`, `IsStored` | the rows of the resources table, in the order of their row ids, in which `ListResources` returns them; the look-up by type and id |
| `PushForEachResource` | one action for each stored resource, in that order |
| `Fail`, `FailForGood`, `Cancel`, `Resume` | a call fails for reasons of its own; it fails for what Segment answers now (a principal that was deleted, a resource without an id, errors, a repeated cursor); the context is cancelled; the next run starts |
| `Delete`, `Create`, `Change`, `FallIll`, `Recover` | Segment: a user or a group is deleted; a user, a group or a role of `Newcomers` is created; an access is given or taken away; an endpoint answers ill and recovers |
| `hadIll`, `changed`, `come`, `gone` | history, in no code: what a property may hold Segment to |

`Newcomers` are created at some time after the sync began, or not at all, and are in
no answer before that (`Absent`). A user that is created is at once in the groups and
on the page it will have; that a user joins or leaves a group *later* is not
modelled, nor that a source, a warehouse, a space or a function comes or goes. Pages
are fixed sets without who is absent: a deletion never shifts what a cursor leads to,
which is up to Segment's cursors, opaque to this code.

A process that dies without closing the sync file leaves the old file: for the
model that run did not happen. Resource types come in the order of a Go map;
only the workspace is listed without a parent, so one order stands for all.

### LocalProvisioning

| model | code |
|---|---|
| `finished`, `unfinished`, `Nothing`, `View` | the latest finished and unfinished sync of the file, if any; `getConnectorObject` and `getResourceObject` take the finished one if there is one |
| `Sync`, `Begun` | the sync command, which goes on with the latest unfinished sync: resources and grants it has are not read again; what it finds is computed with `Connector`'s operators |
| `StopsInResources`, `StopsInEntitlements`, `StopsInGrants`, `Progress` | a sync that stops with some of the resources, of the entitlements or of the grants, in the order in which its actions come (`KindOrder`, then `Backwards`) |
| `StopsAtTop`, `scope` | one that is cancelled between storing the workspace and saving the stack: whoever resumes it skips the workspace (`syncer.go:384`), so that there is nothing else to find |
| `Grant`, `Revoke`, `Revocable` | `Provisioner.grant` and `revoke`: look up, then call the connector, which edits the list of the principal with `PermissionLists` |
| `Found`, `FoundEntitlements`, `FoundGrants` | what a sync finds: the answers of the connector to all tokens that lead to a page (`ListTokens`, `GrantTokens`) |
| `Place`, `Permission` | `segment.Resource` and `Permission`: a role on the workspace, on functions that Segment lists, or on anything else |
| `Provisioned` | the entitlement as it comes back from the file: the role id is in its description |
| `AdminEdit` | somebody else edits permissions: the file is outdated |

Each command is one step, since their inner steps are those of `Sync` and of
`Provisioning`. A sync stops between two of its actions, or at the one place where a
stop between two puts loses something; inside a page of resources a stop changes
nothing else, since what is stored is skipped and the page is listed again.
`StopTakesNothing` says of a `StopsAtTop` only that the *file* lost nothing by it: that
the sync it becomes has just the workspace is the run `cancelled`. Commands of one
file do not overlap: the file is loaded when a
command starts and saved when it ends.

### Daemon

| model | code |
|---|---|
| `loop`, `held`, `errCount`, `wait` | where `run()` is, the semaphore's count, the errors in a row, the wait of the backoff |
| `Claim`, `Block`, `AcquireFails`, `ReleaseUnheld` | `sem.Acquire`, which may succeed although the context is done; when it fails, `run()` releases a slot it has not got |
| `NextError`, `NextNone`, `NextTask`, `ProcessReturns` | the rest of the loop |
| `GoroutineEnds` | the deferred `Release` of a task's goroutine, which hands the slot to a loop that waits |
| `cancelled`, `Interrupt`, `ContextDone`, `Return`, `Exit` | the context of `Run`; the process ends with whatever runs in it |
| `stage`, `work` | where a task is, from asking for a client (`connect`, `dial`) through its handler to its end, and what its work came to |
| `server`, `HasClient`, `StartServer`, `Dialed`, `DialGivesUp`, `ConnectFails`, `ServerQuits` | `wrapper.C`, `runServer`, `Close`: the first task that asks starts the subprocess and dials it with the lock held (`dialing`); it may quit before it serves (`dead`); a start that failed keeps its pipe, and each later one fails for it (`broken`) |
| `Served`, `Unserved` | `processTask`: on to the handler, or back with an error before there is one |
| `CallConnector`, `HelloTask`, `TempFileFails`, `SyncDone`, `SyncFails`, `Upload`, `FinishTask` | the handlers of `tasks/c1api` |
| `FirstBeat`, `FirstBeatFails`, `Beat`, `BeatFails`, `HeartStops` | `HeartbeatTask` and its goroutine; `heart` is its count of attempts |
| `LocalWork` | `Process` of the local managers |
| `told`, `recalled`, `Recall` | the service: what it was told of a task, the tasks it cancelled |
| `unserved`, `unheard`, `unheld` | history, in no code |

The dial blocks, and is given the context of the task (`connector.go:283`), not the one
of five seconds: as long as that is live it returns only when the subprocess serves. A
client whose subprocess has quit is dropped (`ServerQuits`) or, if its `Close` fails or
it exited with status 0, is kept, and the calls on it fail, as any call may.

## 3. Runs

Each property is also checked against a mutant of the code that breaks it
(`PROJECT.json`, "mutants"; the operators marked "Mutant" in the modules).

| run | instance | states | what it shows |
|---|---|---|---|
| `local` | a user and a group, 2 roles on two pages, a source and a function, lists of up to 3 with duplicates and several resources, syncs that stop anywhere | 26 thousand | `TypeOK`, `CommandShows`, `ListsActAsSets`, `SeenIsRevocable`, `StopTakesNothing` |
| `meet` | 2 tasks, 2 workers, an administrator, blank answers, late writes, 6 requests, all initial permissions | 478 thousand | `FreshPayload`, `GrantSticks`, `RevokeSticks`, `ChangesAreAskedFor`, refinement of `AtomicProvisioning` |
| `tasks` | 2 tasks, 1 worker, 24 requests of every kind, late writes, blank answers, fairness | 559 thousand | `TypeOK`, `SlotsBalance`, `EveryTaskIsOver`, refinement of `AtomicProvisioning` |
| `resume` | a workspace with two pages of users, roles, members and functions; a user and a role may come late, a user and a group may go, a permission is given; up to 2 failures, 1 ailment of any endpoint | 3.6 million | `NothingForgotten`, `CompleteHasAll`, `GrantsResolve`, `CompleteHasGrants`, `CompleteHasEntitlements` |
| `cancels` | the same pages; up to 2 stops of any kind, 1 ailment, 2 permissions that change, fairness | 199 thousand | `TypeOK`, `NothingInvented`, `CompleteHasGrants`, `CompleteHasEntitlements`, `SyncCompletes` |
| `daemon` | the hello, a call and a full sync on 2 workers, or one local task; a subprocess that fails in each way, 3 heartbeat failures, up to 3 errors in a row, durations that wrap | 638 thousand | `TypeOK`, `SlotsAccounted`, `TaskAnswered`, `OneShotDoesIt`, `BackoffHolds`, refinement of `WorkerPool` |
| `ends` | the hello and a full sync, or a local sync; up to 2 errors in a row, fairness | 30 thousand | `InterruptEnds`, `RecalledEnds`, `HeartEnds`, `ClientOrError` |
| `lost_update` | 2 grants, 2 workers | violation | both succeed, one access is gone |
| `revoke_all` | 1 revoke | violation | the role goes from every resource |
| `permissions` | a role held on a source | violation | the grant is on an entitlement that no resource has |
| `cancelled` | 1 cancellation | violation | a complete sync with the workspace and nothing in it |
| `stuck` | 1 deleted user | violation | no later run of the sync ever completes |

**Bounds.** An update is lost by two tasks and seen by whoever looks: tasks meet on one
principal, and principals do not interact. In `meet` both run at once. In `tasks` they share the
one slot, so that the second waits for it and gets it only if it is given back; the write of the
first may still be served after the second was, which is all the overlap that a membership,
changed by one call, can have. Two roles and two resources are what tells "this access", "this
role elsewhere" and "another role" apart. Each task makes one request, so a longer history is
one of more tasks, which the theorems cover. For the sync, two pages are a first and a last one,
the second reached by a token; two stops let a resumed run stop again, and an ailment may last
from one run into the next. The newcomers are on the first page, so that the second has
something that was there throughout. A blank workspace is only in `resume`: a sync that has
stored one never completes, which `cancels` would report. For the process, three tasks on two
workers are the fewest for which the loop waits for a slot that another task frees, with a full
sync beside a call; the theorems take any number. `ends` has two tasks, one that dials and one
that waits for the lock. A heartbeat count of 3 is the first at which one failure is forgiven
and two are not; the code has 10. `Second`, `Minute` and `Half` are 1, 2 and 8, so that three
errors in a row reach the cap and a wrap-around. `MaxStops`, `MaxAilments`, `MaxErrors` and
`MaxLength` are the only bounds that are not the code's.

**Symmetry** permutes tasks, and is used only where all properties are safety
properties.

**Fairness.** `Provisioning!FairSpec`: the runner goes on fetching (`Start` of
some task), a goroutine that can run does, and Segment does something with a
request that reached it; nothing makes an administrator or a crash happen.
The HTTP client ends each request by an answer or an error, so a client step
comes. `Sync!FairSpec`: a run goes on to its next step, and an operator or a
service starts the next run after one that stopped; nothing makes calls fail.
That failures are bounded is what "the calls succeed in the end" means in
`cancels`; a call that can only fail (`FailForGood`) is not bounded. `WF(Recover)`:
no ailment of Segment lasts for ever. `Daemon!FairSpec`: the loop and each handler
go on, since every call they make has a deadline or a context, except that a
sync or a local task may last for ever as long as its context is live, and the dial as
long as its subprocess does not serve; the heartbeat's timer fires. A subprocess that is
dialed serves in the end, unless it quits.
`SF(ContextDone)`: when the context is done and a timer is due too, Go's `select`
takes either at random, so it does not pass over the context for ever. Nothing
makes the service recall a task, or an operator interrupt.

**Disagreements between code and documents** (details in `PROJECT.json`,
"findings"): the five violations above. `stuck` and `cancelled` concern syncs into a
kept file; a sync for the ConductorOne service starts with an empty one. More are in
the models, as the code has them, without a run:

* `ListWarehouses` and `ListSpaces` (`client.go:121`, `:176`) never return anything, though
  README.md lists both types.
* `RemoveGroupMember` (`client.go:404`) reports each removal that succeeded as a failure.
* `GetGroup` decodes the group from `data.group` (`client.go:291`), where the listing has
  `userGroups` (`:196`) and `AddGroupMembers` `userGroup` (`:344`). One of the names is wrong,
  or Segment uses both; the code alone cannot tell, and it is to be checked against the real
  service. If it is `GetGroup`'s, every GET of a group is blank, and a grant to a group replaces
  its list: that is `GetBlank`.
* `doRequest` (`client.go:447`) looks at no status: a PUT that is answered with neither data nor
  errors changed nothing and is reported as a success, though `client.go:361` "updates
  permissions". `AtomicProvisioning` has it (`AnswerBlank`), beside the user without a login (`NoChange`).
* `runner.go:78` returns before there is a handler when no client of the connector can be made:
  nobody finishes the task, which was claimed only to be dropped, against `runner.go:113` ("so
  we don't claim a task before we can actually process it"). `TaskAnswered` exempts it
  (`unserved`).
* `connector.go:276` "allows retrying connecting for 5 seconds", but the dial, which blocks, is
  given the task's context and not that of five seconds (`:283`): if the subprocess quits before
  it serves, the task holds the lock and every other one waits for it, until the process is
  interrupted. `ClientOrError` and `RecalledEnds` exempt it (`dead`), `InterruptEnds` does not.
* `runner.go:69` swallows the cause of an interrupt: a command that is interrupted before it did
  its task ends without an error (`OneShotDoesIt` exempts it).
* `connector.go:214` keeps the pipe of a subprocess that did not start, and `:173` takes it for
  a server that runs: no later task gets a client (`ConnectFails`, `broken`).
* `runner.go:117` releases a slot when `Acquire` fails, which "leaves the semaphore unchanged"
  (`semaphore.go:37`). `SlotsAccounted` says what follows: the count is one too low from then
  on, but the loop is over by then; when all running tasks have ended in the meantime, `Release`
  panics (`ReleaseUnheld`, `GoroutineEnds`).
* `manager.go:219` makes it "the responsibility of each handler to finish the task";
  `full_sync.go:90` returns without doing so when the first heartbeat fails or says that the
  task was cancelled. `TaskAnswered` has these as its exceptions.
* `task_helpers.go:92` logs a failure "after 10 attempts"; the count is taken before each
  attempt, so the ninth failure in a row is the last (`BeatFails`).

`SeenIsRevocable` and `CommandShows` speak of the accesses that are `Consistent`: on
the workspace, and on a function with a role whose name says "function". All other grants are on
entitlements that no sync has (run `permissions`), and cannot be revoked.

## 4. Proofs

The theorems on `Provisioning` hold for every set of principals, roles, resources
and tasks, every set of requests, and any number of workers, under
`RoleAssumption` and `ProvisioningAssumption`: requests are well formed, and there
is at least one worker. Those on `Daemon` hold for every *finite* set of tasks of any
kinds, and for any workers, heartbeat limit, durations and `MaxErrors`, under
`DaemonAssumption`: the hello is the one task of its kind, there is a worker, and a
second is no longer than a minute.

* **`TypeCorrect`.** `TypeOK` is not inductive by itself: `payload` is well typed only if the
  request was accepted. `StagesAgree` (what the stage of a task says of its request, its answer
  and its report) supplies that, and both are proved as one invariant, `TypeInv`, one step per
  action.
* **`FreshPayloads`, `NoUnaskedChange`.** `PayloadInv` = `TypeInv`, `FreshPayload` and
  `PayloadAsks`: a list that is not in `stale` equals `NewAccess` of the current permissions,
  since `ServePut` and `AdminChange` put every other pending list of that principal into
  `stale`. `NoUnaskedChange` is then a statement on one step.
* **`GrantsStick`, `RevokesStick`.** Each is inductive with `PayloadInv`: the next write either
  computed its list from the current one, and keeps what was done, or is in `stale`.
* **`SlotsBalanced`.** For finitely many tasks: the free slots and the tasks being processed add
  up to `taskConcurrency`; one lemma for a task that starts, one for one that finishes.
* **`ProvisioningIsAtomic`.** With everything the code allows: any number of workers, late
  writes, blank answers, administrators and crashes. Each step of `Provisioning` is one of
  `AtomicProvisioning` or a stutter: `ServePut` and `ServeMember` are the change, `ServeNothing`
  the blank answer, a blank GET the misreading, and every way to `Finish` the report. A list
  that is served and not in `stale` is the change of what Segment holds (`FreshPayload`). One in
  `stale` still has its own change in it (`ChangedTwice`, from `PayloadAsks`), which is what an
  outdated task is allowed: to overwrite its principal, and nobody else. Whoever is outdated by
  a step was a rival on the same principal (`PendingIsRival`). That success is reported only
  behind a change or a blank answer is `AnswerReports`; that no write is on its way behind a
  reported success, `SuccessIsAnswered`.
* **`DaemonTypes`.** The interesting part of `TypeOK` is `held \in Nat`: it needs `SlotInv` (the
  taken slots are those of the loop and of the goroutines), so both are proved together.
  **`SlotsAreAccounted`** adds `ClosingInv`: a slot is released too many only behind a failed
  `Acquire`, and the loop never goes on after it. The count of running goroutines changes by one
  lemma for a task that starts and one for a task that ends.
* **`TasksAreAnswered`.** `EndInv` is how a task of the service came to its end. The stages
  before the handler (`FirstStages`, `ClientKeeps`) leave it either with a client or in
  `unserved`, for which the property makes its exception: nobody finishes a task that no client
  could be made for.
* **`OneShotsDoIt`.** The local task has no such exception: its error is the command's. The loop
  goes on behind the task only if its work was done (`LocalInv`), and is cut short only by an
  interrupt or by its own return (`ClosingInv`).
* **`BackoffsHold`.** From `BackoffInv`: the wait is that of the present count of errors; below
  the overflow `Wrap` is the identity.
* **`RunnerIsPool`.** The refinement, one step per action: the loop's `NextTask` is the pool's
  `StartTask`, which needs the slot it holds from `SlotInv` to show that fewer than `MaxWorkers`
  run.

The theorems on `Sync` hold for every workspace with any number of pages, any
ailments, any changes and any number of stops, under `ConnectorAssumption` (ids are
not empty, each page of a collection is a set of its ids, the members of a group are users,
tokens are no ids) and `SyncAssumption` (accesses are of principals of the workspace and
with roles of it, nobody holds a newcoming role before the sync begins, no role is called
"member" or has an id that may be deleted). Any users, groups and roles may be `Newcomers`.

* **`SyncTypes`.** `TypeInv` is `TypeOK`, and that a run which acts has something on its stack.
  That a stored token is one the connector can have given, and an id one that its kind can have,
  is in the types.
* **`NothingIsInvented`.** No grant is stored but for a resource that is stored. That needs
  `ShapeInv`: the steps are on both stacks, the current and the saved one, in the order in which
  they are done (`Ordered`, by `Rank`), those still to come are whole below each action
  (`Continues`), and the actions that ask for entitlements and grants name stored resources
  (`Grounded`).
* **`EntitlementsAreComplete`, `GrantsAreComplete`.** Both hold with `Cancels`. In `CoverInv`,
  each entitlement and each grant that a stored resource should have is in the store, or `Ahead`
  on the current stack, and also there or `Ahead` on the saved one: an action for the resource
  at its page or an earlier one, or the whole step. `AheadStep` says that what is ahead stays so
  until the call for it has returned (`Got`). A change of Segment in the meantime only makes
  less of what was held throughout.
* **`NothingIsForgotten`, `EverythingIsListed`.** The same for the listing, with `ListInv`: a
  resource is stored, or on the page that is being stored (`Here`), or its page is still to be
  listed (`Coming`). A sync whose workspace came without an id is `Doomed` and never completes:
  its entitlements are refused, as `NamelessAhead` keeps. Both theorems assume `~Cancels`: a run
  that is cancelled between storing the workspace and saving the stack loses the children, as
  the run `cancelled` shows.
* **`GrantsAreResolved`.** `Resolved` is the property without the end of the sync. It is kept
  because grants are read when no listing and no entitlement is ahead any more, so that
  `ListInv` and `CoverInv` have all users, groups and roles in the store that were there
  throughout. A principal or a membership of a *newcomer* is exempt, and has to be: a user who
  is created after the users were listed comes up as a member of the workspace or of a group,
  and is not in the store. In `resume`, the property without the exemption fails.

The theorems on `LocalProvisioning` hold for every workspace with any number of pages, and for
lists of any length, under `ConnectorAssumption`, `RoleAssumption` and `LocalAssumption`: the
roles are those that Segment lists, what can be given out on its own is a resource, and an
administrator writes permissions on what there is.

* **Induction.** `RevokePermissions` is the loop of `revokePermissions`, written as a recursive
  function. The library's induction takes an operator as its parameter, so `AllNumbers` says it
  of a *set* of numbers: one that has 0 and all successors has all, since what it lacks would
  have a least element (`LeastNumber`, from `WFMin`). By it the loop has a value after each
  element (`LoopExists`), and what it has kept are the elements of another role (`RevokeKeeps`).
* **`ListsAreSets`.** `GrantActsAsSet` and `RevokeActsAsSet`: on lists, the two helpers do what
  `Granted` and `Revoked` do on the sets they amount to. This is what lets all other modules
  speak of sets.
* **`LocalTypes`.** A sync that stops is within the one it would have become, whichever of its
  actions it stopped before (`ScopeType`, `StopsType`, `SyncType`). That each grant in the file
  is of a principal that can be looked up needs every user and group to be found: the page each
  is on has a token that leads to it (`PageAnswered`, `ChildIsListed`).
* **`FileKeepsWhatItHas`.** What can be revoked from a file can be from one that has more; and a
  sync that finished has the workspace, so it is not taken for none.
* **`WhatIsReadCanBeRevoked`.** `ConsistentIsFound`: the entitlement that a consistent access is
  read as is listed, and stands for that access when it comes back from the file; and the sync
  that reads its principal has the grant (`PermissionIsGranted`).
* **`CommandsShow`.** The other way round: an entitlement of a file, when its access is
  consistent, is the one the access is read as (`EntitlementComesBack`); and what is read is of
  the role that its revoke takes away (`ReadAsItsRole`), so that no permission left can show it.

Checked by TLC only: liveness (`EveryTaskIsOver`, `SyncCompletes`, `InterruptEnds`,
`RecalledEnds`, `HeartEnds`, `ClientOrError`), which needs ENABLED. Every safety property of
every passing run is a theorem.

## 5. Not modelled

* Users who join or leave a group that is there already while a sync goes on; sources,
  warehouses, spaces and functions that come and go.
* Where a page begins after something on an earlier one was deleted: pages are fixed sets, so a
  run cannot show that a cursor skips an item. It is up to Segment's opaque cursors, and a
  hazard in `PROJECT.json` without a property.
* In the connector's wrapper: the credentials and the listener that the subprocess is given, and
  the rate limiter that starts with it. Each of their failures is one of `ConnectFails`.
* Role names that are not unique, or role ids with a colon in them: an id or a name is a value
  here, and the tools that make slugs and split descriptions are not.
* ETags, assets and grant expansion (this connector has none of them), the JSON of page tokens,
  accounts, credentials and event feeds (no builder). A task of one of these types is a call
  that fails.
* Old syncs that are cleaned up, compression and migrations of the sync file; files left in the
  temporary directory.
* A task that is retried by the service is a further task; the service itself is only what it
  hands out, cancels and is told.
* Metadata, `Validate` (one GET whose result is only an error), flags and wiring: no state.

## 6. Plan

Done: the concurrent core (`Permissions`, `AtomicProvisioning`, `Provisioning`), reading and
syncing (`Connector`, `Sync`), with changes, newcomers and ill answers, the process
(`WorkerPool`, `Daemon`) with the subprocess of the connector, and the one-shot commands
(`PermissionLists`, `LocalProvisioning`), with the proofs of all their safety properties. Next,
in this order: changes of an existing group's members during a sync; that `Provisioning` on
lists implements itself on sets, by `GrantActsAsSet` and `RevokeActsAsSet`; and what of
`Provisioning`'s theorems carries over to several processes on one workspace.
