------------------------------- MODULE Daemon -------------------------------
(***************************************************************************)
(* The process around the connector: the runner's loop, which claims a     *)
(* worker slot, asks a task manager for a task and processes it, and the   *)
(* task handlers of the service's manager with their heartbeats.           *)
(*                                                                         *)
(* In service mode tasks come from ConductorOne and are processed in       *)
(* goroutines; on the command line one local task is processed in the loop *)
(* itself, and the process ends.  The connector serves from a subprocess,  *)
(* started for the first task that asks for a client of it.  An interrupt  *)
(* cancels the context that the loop, the handlers and the heartbeats      *)
(* share.                                                                  *)
(***************************************************************************)
EXTENDS Integers, FiniteSets

CONSTANTS Task,
          Kind,        \* task -> "hello", "sync" or "call" (any other type)
          Hello,       \* the task the manager queues for itself
          NoTask,      \* no local task: service mode
          MaxWorkers,  \* taskConcurrency
          MaxFailures, \* taskMaximumHeartbeatFailures
          Second, Minute, \* durations, in the unit of time.Duration
          Half,        \* durations wrap at Half and -Half
          MaxErrors    \* bound on consecutive errors of Next

ASSUME DaemonAssumption ==
  /\ Kind \in [Task -> {"hello", "sync", "call"}]
  /\ Hello \in Task /\ NoTask \notin Task
  /\ \A t \in Task : Kind[t] = "hello" <=> t = Hello
  /\ MaxWorkers \in Nat \ {0}
  /\ MaxFailures \in Nat /\ MaxFailures > 1
  /\ Second \in Nat \ {0} /\ Minute \in Nat /\ Half \in Nat
  /\ Second <= Minute /\ Minute < Half
  /\ MaxErrors \in Nat

VARIABLES
  local,     \* the one task of the command line, or NoTask
  loop,      \* where run() is
  held,      \* the semaphore's count of slots taken
  cancelled, \* the shared context: "no", "signal" or "return"
  errCount,  \* consecutive errors of Next
  wait,      \* the loop's next wait after an error, 0 after anything else
  exit,      \* what run() returned
  stage,     \* where each task is: its goroutine's place in the handler
  work,      \* what a handler's work came to
  heart,     \* the heartbeat goroutine's count of attempts, 0 when there is none
  stopped,   \* tasks whose own context was cancelled by their heartbeat
  told,      \* the service: what each task was finished with
  recalled,  \* the service: tasks it cancelled
  server,    \* the wrapper's client: "none", "dialing", "dead" (dialing a subprocess
             \* that has quit), "ready" or "broken" (none, and none can be had)
  unheard,   \* history: tasks with a failed heartbeat or report
  unserved,  \* history: tasks that got no client of the connector
  unheld     \* history: slots released that were not taken

loopVars == <<local, loop, held, cancelled, errCount, wait, exit, unheld>>
taskVars == <<stage, work, heart, stopped, server, unserved>>
serviceVars == <<told, recalled, unheard>>
vars == <<loopVars, taskVars, serviceVars>>

-----------------------------------------------------------------------------
Cancelled == cancelled # "no"
Alive == loop \notin {"exited", "panicked"}
Running(t) == stage[t] \notin {"queued", "over"}

\* Mutant: the work is done with a context of its own.
LiveAnyway(t) == t \notin stopped

\* The context of a task's work.
Live(t) == ~Cancelled /\ t \notin stopped

Wrap(d) == ((d + Half) % (2 * Half)) - Half

\* Mutant: the wait is not capped.
BackoffNoCap(n) == Wrap(n * n * Second)

\* The square of the number of errors, in seconds, at most a minute.
Backoff(n) == LET d == Wrap(n * n * Second) IN IF d > Minute THEN Minute ELSE d

Init ==
  /\ local \in {NoTask} \cup {t \in Task : Kind[t] \in {"sync", "call"}}
  /\ loop = "select"
  /\ held = 0
  /\ cancelled = "no"
  /\ errCount = 0
  /\ wait = 0
  /\ exit = "none"
  /\ stage = [t \in Task |-> "queued"]
  /\ work = [t \in Task |-> "none"]
  /\ heart = [t \in Task |-> 0]
  /\ stopped = {}
  /\ told = [t \in Task |-> "none"]
  /\ recalled = {}
  /\ server = "none"
  /\ unserved = {}
  /\ unheard = {}
  /\ unheld = 0

-----------------------------------------------------------------------------
(***************************************************************************)
(* The loop.                                                               *)
(***************************************************************************)

\* run() returns, and Run cancels the context behind it.
Return(code) ==
  /\ loop' = "returned"
  /\ exit' = code
  /\ cancelled' = IF Cancelled THEN cancelled ELSE "return"

\* An operator interrupts the process.
Interrupt ==
  /\ Alive
  /\ ~Cancelled
  /\ cancelled' = "signal"
  /\ UNCHANGED <<local, loop, held, errCount, wait, exit, unheld, taskVars, serviceVars>>

\* The cause is ErrSigTerm, and swallowed.
ContextDone ==
  /\ loop = "select"
  /\ Cancelled
  /\ Return("ok")
  /\ UNCHANGED <<local, held, errCount, wait, unheld, taskVars, serviceVars>>

\* Mutant: there is always a slot.
ClaimAnyway ==
  /\ loop = "select"
  /\ errCount < MaxErrors
  /\ held' = held + 1
  /\ loop' = "next"
  /\ UNCHANGED <<local, cancelled, errCount, wait, exit, unheld, taskVars, serviceVars>>

\* The wait is over; Acquire takes a free slot, even when the context is done.
Claim ==
  /\ loop = "select"
  /\ errCount < MaxErrors
  /\ held < MaxWorkers
  /\ held' = held + 1
  /\ loop' = "next"
  /\ UNCHANGED <<local, cancelled, errCount, wait, exit, unheld, taskVars, serviceVars>>

\* Acquire waits for a slot.
Block ==
  /\ loop = "select"
  /\ errCount < MaxErrors
  /\ held = MaxWorkers
  /\ loop' = "blocked"
  /\ UNCHANGED <<local, held, cancelled, errCount, wait, exit, unheld, taskVars, serviceVars>>

\* Acquire gives up, with no slot taken.
AcquireFails ==
  /\ loop = "blocked"
  /\ Cancelled
  /\ loop' = "failed"
  /\ UNCHANGED <<local, held, cancelled, errCount, wait, exit, unheld, taskVars, serviceVars>>

\* Mutant: Release does not look at the count.
ReleaseUnchecked ==
  /\ loop = "failed"
  /\ held' = held - 1
  /\ unheld' = unheld + 1
  /\ Return("ok")
  /\ UNCHANGED <<local, errCount, wait, taskVars, serviceVars>>

\* run() releases a slot all the same, which panics when none is taken.
ReleaseUnheld ==
  /\ loop = "failed"
  /\ IF held = 0
       THEN /\ loop' = "panicked"
            /\ UNCHANGED <<held, unheld, exit, cancelled>>
       ELSE /\ held' = held - 1
            /\ unheld' = unheld + 1
            /\ Return("ok")
  /\ UNCHANGED <<local, errCount, wait, taskVars, serviceVars>>

\* The manager has to ask the service for the next task.
AsksService == local = NoTask /\ stage[Hello] # "queued"

\* Mutant: the slot is kept.
NextErrorKeepsSlot ==
  /\ loop = "next"
  /\ AsksService
  /\ errCount' = errCount + 1
  /\ wait' = Backoff(errCount')
  /\ loop' = "select"
  /\ UNCHANGED <<local, held, cancelled, exit, unheld, taskVars, serviceVars>>

\* GetTask fails, as it always does when the context is done.
NextError ==
  /\ loop = "next"
  /\ AsksService
  /\ errCount' = errCount + 1
  /\ wait' = Backoff(errCount')
  /\ held' = held - 1
  /\ loop' = "select"
  /\ UNCHANGED <<local, cancelled, exit, unheld, taskVars, serviceVars>>

\* There is no task.  A one-shot run has done its own then.
NextNone ==
  /\ loop = "next"
  /\ errCount' = 0
  /\ wait' = 0
  /\ held' = held - 1
  /\ \/ /\ AsksService
        /\ ~Cancelled
        /\ loop' = "select"
        /\ UNCHANGED <<exit, cancelled>>
     \/ /\ local # NoTask
        /\ stage[local] # "queued"
        /\ Return("ok")
  /\ UNCHANGED <<local, unheld, taskVars, serviceVars>>

\* The manager's next task: the local one; the hello; one from the service.
Offered(t) ==
  /\ stage[t] = "queued"
  /\ \/ t = local
     \/ local = NoTask /\ t = Hello
     \/ AsksService /\ ~Cancelled

\* There is a task: it is processed in the loop or in a goroutine.
NextTask(t) ==
  /\ loop = "next"
  /\ Offered(t)
  /\ errCount' = 0
  /\ wait' = 0
  /\ loop' = IF local # NoTask THEN "process" ELSE "select"
  /\ stage' = [stage EXCEPT ![t] = "connect"]
  /\ UNCHANGED <<local, held, cancelled, exit, unheld, work, heart, stopped, server,
                 unserved, serviceVars>>

\* Mutant: the error of a one-shot task is logged only.
ProcessReturnsOk ==
  /\ loop = "process"
  /\ stage[local] = "ending"
  /\ stage' = [stage EXCEPT ![local] = "over"]
  /\ held' = held - 1
  /\ loop' = "select"
  /\ UNCHANGED <<local, cancelled, errCount, wait, exit, unheld, work, heart, stopped,
                 server, unserved, serviceVars>>

\* processTask returned to the loop: an error ends run().
ProcessReturns ==
  /\ loop = "process"
  /\ stage[local] = "ending"
  /\ stage' = [stage EXCEPT ![local] = "over"]
  /\ held' = held - 1
  /\ IF work[local] = "ok" THEN loop' = "select" /\ UNCHANGED <<exit, cancelled>>
                           ELSE Return("error")
  /\ UNCHANGED <<local, errCount, wait, unheld, work, heart, stopped, server, unserved,
                 serviceVars>>

\* A goroutine's deferred Release: the slot goes to the waiting loop, if it waits.
GoroutineEnds(t) ==
  /\ Alive
  /\ local = NoTask
  /\ stage[t] = "ending"
  /\ IF held = 0
       THEN loop' = "panicked" /\ UNCHANGED <<held, stage>>
       ELSE /\ stage' = [stage EXCEPT ![t] = "over"]
            /\ IF loop = "blocked" THEN loop' = "next" /\ UNCHANGED held
                                   ELSE held' = held - 1 /\ UNCHANGED loop
  /\ UNCHANGED <<local, cancelled, errCount, wait, exit, unheld, work, heart, stopped,
                 server, unserved, serviceVars>>

\* The command returns, and whatever runs is gone.
Exit ==
  /\ loop = "returned"
  /\ loop' = "exited"
  /\ UNCHANGED <<local, held, cancelled, errCount, wait, exit, unheld, taskVars, serviceVars>>

-----------------------------------------------------------------------------
(***************************************************************************)
(* The client of the connector.  The task that starts the subprocess holds *)
(* the wrapper's lock until its dial returns: the others wait for it, and  *)
(* so does the Close that follows the subprocess's end.                    *)
(***************************************************************************)
FirstStage(t) == IF local # NoTask THEN "local"
                 ELSE IF Kind[t] = "sync" THEN "heartbeat" ELSE Kind[t]

\* A task goes on to its handler.
Served(t) == /\ stage' = [stage EXCEPT ![t] = FirstStage(t)]
             /\ UNCHANGED <<work, heart, stopped, unserved, loopVars, serviceVars>>

\* processTask returns before there is a handler: an error that is logged, or ends a
\* one-shot run.
Unserved(t) == /\ stage' = [stage EXCEPT ![t] = "ending"]
               /\ work' = [work EXCEPT ![t] = "retry"]
               /\ unserved' = unserved \cup {t}
               /\ UNCHANGED <<heart, stopped, loopVars, serviceVars>>

HasClient(t) ==
  /\ Alive
  /\ stage[t] = "connect"
  /\ server = "ready"
  /\ UNCHANGED server
  /\ Served(t)

StartServer(t) ==
  /\ Alive
  /\ stage[t] = "connect"
  /\ server = "none"
  /\ server' = "dialing"
  /\ stage' = [stage EXCEPT ![t] = "dial"]
  /\ UNCHANGED <<work, heart, stopped, unserved, loopVars, serviceVars>>

\* No credentials, listener or subprocess; after a failed start the pipe that was made
\* for it is kept, and counts as a server that is running.
ConnectFails(t) ==
  /\ Alive
  /\ stage[t] = "connect"
  /\ \/ server = "none" /\ server' \in {"none", "broken"}
     \/ server = "broken" /\ UNCHANGED server
  /\ Unserved(t)

\* Mutant: the lock is kept by who got the client.
DialedKeepsLock(t) ==
  /\ Alive
  /\ stage[t] = "dial"
  /\ server = "dialing"
  /\ UNCHANGED server
  /\ Served(t)

Dialed(t) ==
  /\ Alive
  /\ stage[t] = "dial"
  /\ server = "dialing"
  /\ server' = "ready"
  /\ Served(t)

\* The dial, which blocks, is given the task's context and not the one of five seconds.
\* Close then fails if Wait closed the pipe before it.
DialGivesUp(t) ==
  /\ Alive
  /\ stage[t] = "dial"
  /\ Cancelled
  /\ server' \in {"none", "broken"}
  /\ Unserved(t)

\* The subprocess quits.  Close drops the client, unless a dial holds the lock.
ServerQuits ==
  /\ Alive
  /\ \/ server = "dialing" /\ server' = "dead"
     \/ server = "ready" /\ server' = "none"
  /\ UNCHANGED <<stage, work, heart, stopped, unserved, loopVars, serviceVars>>

-----------------------------------------------------------------------------
(***************************************************************************)
(* The work of a task.                                                     *)
(***************************************************************************)
Goes(t, s, w) ==
  /\ stage' = [stage EXCEPT ![t] = s]
  /\ work' = [work EXCEPT ![t] = w]
  /\ UNCHANGED <<heart, stopped, server, unserved, loopVars, told, recalled>>

\* A grant, a revoke or a sync of the command line.
LocalWork(t) ==
  /\ Alive
  /\ stage[t] = "local"
  /\ \/ Live(t) /\ Goes(t, "ending", "ok")
     \/ Goes(t, "ending", "retry")
  /\ UNCHANGED unheard

\* The hello is answered or not: nobody asks.
HelloTask(t) ==
  /\ Alive
  /\ stage[t] = "hello"
  /\ Goes(t, "ending", "none")
  /\ UNCHANGED unheard

\* One call of the connector, whose failure is not to be retried; or none, for a
\* task of a type that has no handler.
CallConnector(t) ==
  /\ Alive
  /\ stage[t] = "call"
  /\ \/ Live(t) /\ Goes(t, "finish", "ok")
     \/ Goes(t, "finish", "final")
     \/ Goes(t, "finish", "retry")
  /\ UNCHANGED unheard

\* The temporary file of a sync cannot be made.
TempFileFails(t) ==
  /\ Alive
  /\ stage[t] = "heartbeat"
  /\ Goes(t, "finish", "retry")
  /\ UNCHANGED unheard

\* The first heartbeat starts the goroutine of the others.
FirstBeat(t) ==
  /\ Alive
  /\ stage[t] = "heartbeat"
  /\ Live(t)
  /\ t \notin recalled
  /\ stage' = [stage EXCEPT ![t] = "sync"]
  /\ heart' = [heart EXCEPT ![t] = 1]
  /\ UNCHANGED <<work, stopped, server, unserved, loopVars, serviceVars>>

\* No first heartbeat, no task: the handler returns without finishing it.
FirstBeatFails(t) ==
  /\ Alive
  /\ stage[t] = "heartbeat"
  /\ unheard' = IF t \in recalled THEN unheard ELSE unheard \cup {t}
  /\ Goes(t, "ending", "none")

SyncDone(t) ==
  /\ Alive
  /\ stage[t] = "sync"
  /\ Live(t)
  /\ Goes(t, "upload", "none")
  /\ UNCHANGED unheard

SyncFails(t) ==
  /\ Alive
  /\ stage[t] = "sync"
  /\ Goes(t, "finish", "retry")
  /\ UNCHANGED unheard

\* Mutant: the handler returns without finishing the task.
UploadUnfinished(t) ==
  /\ Alive
  /\ stage[t] = "upload"
  /\ \/ Live(t) /\ Goes(t, "finish", "ok")
     \/ Goes(t, "ending", "retry")
  /\ UNCHANGED unheard

Upload(t) ==
  /\ Alive
  /\ stage[t] = "upload"
  /\ \/ Live(t) /\ Goes(t, "finish", "ok")
     \/ Goes(t, "finish", "retry")
  /\ UNCHANGED unheard

\* Mutant: the error of the work is forgotten.
ReportNoError(t) == "success"

Report(t) == IF work[t] = "ok" THEN "success"
             ELSE IF work[t] = "retry" THEN "error" ELSE "final"

\* FinishTask has a context of its own, so that an interrupt does not keep the
\* service from being told; but the report or its answer may be lost.
FinishTask(t) ==
  /\ Alive
  /\ stage[t] = "finish"
  /\ \/ told' = [told EXCEPT ![t] = Report(t)] /\ unheard' \in {unheard, unheard \cup {t}}
     \/ told' = told /\ unheard' = unheard \cup {t}
  /\ stage' = [stage EXCEPT ![t] = "ending"]
  /\ UNCHANGED <<work, heart, stopped, server, unserved, recalled, loopVars>>

-----------------------------------------------------------------------------
(***************************************************************************)
(* The heartbeat goroutine.                                                *)
(***************************************************************************)
HandlerOver(t) == stage[t] \in {"ending", "over"}
Beating(t) == Alive /\ heart[t] > 0
BeatChanges == UNCHANGED <<stage, work, server, unserved, loopVars, serviceVars>>

\* Mutant: the answer's Cancelled is not looked at.
BeatUnheeded(t) ==
  /\ Beating(t)
  /\ ~Cancelled /\ ~HandlerOver(t)
  /\ heart' = [heart EXCEPT ![t] = 1]
  /\ UNCHANGED stopped
  /\ BeatChanges

\* An answer: the count starts again, or the task is cancelled.
Beat(t) ==
  /\ Beating(t)
  /\ ~Cancelled /\ ~HandlerOver(t)
  /\ IF t \in recalled
       THEN heart' = [heart EXCEPT ![t] = 0] /\ stopped' = stopped \cup {t}
       ELSE heart' = [heart EXCEPT ![t] = 1] /\ UNCHANGED stopped
  /\ BeatChanges

\* No answer: the count goes on, and at the maximum the task is cancelled.
BeatFails(t) ==
  /\ Beating(t)
  /\ ~Cancelled /\ ~HandlerOver(t)
  /\ IF heart[t] + 1 >= MaxFailures
       THEN heart' = [heart EXCEPT ![t] = 0] /\ stopped' = stopped \cup {t}
       ELSE heart' = [heart EXCEPT ![t] = @ + 1] /\ UNCHANGED stopped
  /\ BeatChanges

\* Mutant: the handler's return does not cancel the heartbeat's context.
HeartStopsOnSignal(t) ==
  /\ Beating(t)
  /\ Cancelled
  /\ heart' = [heart EXCEPT ![t] = 0]
  /\ stopped' = stopped \cup {t}
  /\ BeatChanges

\* The process was interrupted or the handler has returned.
HeartStops(t) ==
  /\ Beating(t)
  /\ Cancelled \/ HandlerOver(t)
  /\ heart' = [heart EXCEPT ![t] = 0]
  /\ stopped' = stopped \cup {t}
  /\ BeatChanges

\* The service cancels a task it has handed out.
Recall(t) ==
  /\ Alive
  /\ Kind[t] = "sync" /\ local = NoTask
  /\ stage[t] # "queued" /\ told[t] = "none"
  /\ recalled' = recalled \cup {t}
  /\ UNCHANGED <<loopVars, taskVars, told, unheard>>

-----------------------------------------------------------------------------
Finished == ~Alive /\ UNCHANGED vars

LoopStep == \/ ContextDone \/ Claim \/ Block \/ AcquireFails \/ ReleaseUnheld \/ Exit
            \/ NextError \/ NextNone \/ ProcessReturns
            \/ \E t \in Task : NextTask(t)
ClientStep(t) == \/ HasClient(t) \/ StartServer(t) \/ ConnectFails(t)
                 \/ Dialed(t) \/ DialGivesUp(t)
HandlerStep(t) == \/ LocalWork(t) \/ HelloTask(t) \/ CallConnector(t)
                  \/ TempFileFails(t) \/ FirstBeat(t) \/ FirstBeatFails(t)
                  \/ SyncDone(t) \/ SyncFails(t) \/ Upload(t) \/ FinishTask(t)
                  \/ GoroutineEnds(t)
HeartStep(t) == Beat(t) \/ BeatFails(t) \/ HeartStops(t)

Next == \/ LoopStep \/ Interrupt \/ ServerQuits \/ Finished
        \/ \E t \in Task : ClientStep(t) \/ HandlerStep(t) \/ HeartStep(t) \/ Recall(t)

Spec == Init /\ [][Next]_vars

\* A subprocess that is dialed serves or quits.  A handler goes on, except that a sync
\* may last for ever while its context is live: it is done, or fails of itself, only
\* when it does.
Moves(t) == \/ ClientStep(t)
            \/ stage[t] \notin {"sync", "local"} /\ HandlerStep(t)
            \/ ~Live(t) /\ (SyncFails(t) \/ LocalWork(t))

\* Goroutines are scheduled, timers fire and calls return.  Of a select with both
\* cases ready each is taken again and again.
Fairness == /\ WF_vars(LoopStep) /\ SF_vars(ContextDone)
            /\ \A t \in Task : WF_vars(Moves(t)) /\ WF_vars(HeartStep(t))
FairSpec == Spec /\ Fairness
-----------------------------------------------------------------------------
(***************************************************************************)
(* Properties.                                                             *)
(***************************************************************************)
Stage == {"queued", "connect", "dial", "local", "hello", "call", "heartbeat", "sync", "upload",
          "finish", "ending", "over"}

\* Every variable holds a value of its kind.
TypeOK ==
  /\ local \in Task \cup {NoTask}
  /\ loop \in {"select", "blocked", "failed", "next", "process", "returned", "exited",
               "panicked"}
  /\ held \in Nat /\ errCount \in Nat /\ wait \in Int /\ unheld \in Nat
  /\ cancelled \in {"no", "signal", "return"}
  /\ exit \in {"none", "ok", "error"}
  /\ stage \in [Task -> Stage]
  /\ work \in [Task -> {"none", "ok", "retry", "final"}]
  /\ heart \in [Task -> Nat]
  /\ told \in [Task -> {"none", "success", "error", "final"}]
  /\ stopped \subseteq Task /\ recalled \subseteq Task
  /\ server \in {"none", "dialing", "dead", "ready", "broken"}
  /\ unheard \subseteq Task /\ unserved \subseteq Task

\* Each running task holds one slot and so does the loop between Acquire and the
\* task it starts: no early return or error keeps one.  The Release behind a failed
\* Acquire is the only one too many, and it is the last thing the loop does.
LoopHolds == IF loop \in {"next", "process"} THEN 1 ELSE 0
GoroutinesHold == IF local = NoTask THEN Cardinality({t \in Task : Running(t)}) ELSE 0

SlotsAccounted ==
  /\ held + unheld = LoopHolds + GoroutinesHold
  /\ unheld > 0 => ~Alive \/ loop = "returned"

\* A task of the service that is over has been finished, with success or an error:
\* unless it never got a client of the connector, a heartbeat or the report itself
\* failed, or the service had cancelled it.
TaskAnswered ==
  \A t \in Task \ {Hello} :
    local = NoTask /\ stage[t] = "over" =>
      told[t] # "none" \/ t \in unserved \/ t \in unheard \/ t \in recalled

\* A command that ends well, and was not interrupted, did what it was for: its
\* handler was reached and came to a good end.
OneShotDoesIt ==
  exit = "ok" /\ local # NoTask /\ cancelled = "return" => work[local] = "ok"

\* As long as the square does not overflow, a failing service is asked again after a
\* second at least and a minute at most, however often it has failed.
BackoffHolds ==
  errCount > 0 /\ errCount * errCount * Second < Half => wait \in Second .. Minute

\* The runner implements the pool.
Pool == INSTANCE WorkerPool WITH
          at <- [t \in Task |-> IF Running(t) THEN "running"
                               ELSE IF stage[t] = "queued" THEN "waiting" ELSE "over"],
          open <- loop \notin {"failed", "returned", "exited", "panicked"},
          alive <- Alive
PoolSpec == Pool!PSpec

\* The tasks that beat.
Syncs == {t \in Task : Kind[t] = "sync"}

\* An interrupt ends the process, whatever it is doing.
InterruptEnds == Cancelled ~> ~Alive

\* A sync that the service has cancelled ends, however long it would take: unless it
\* waits for a client, and the subprocess has quit while it was dialed.
RecalledEnds ==
  \A t \in Syncs : t \in recalled ~> ~Alive \/ stage[t] = "over" \/ server = "dead"

\* A task that asks for a client of the connector gets one, or an error, whoever holds the
\* lock and whatever fails: unless the subprocess quits while it is dialed.
ClientOrError ==
  \A t \in Task : stage[t] \in {"connect", "dial"} ~>
                   ~Alive \/ stage[t] \notin {"connect", "dial"} \/ server = "dead"

\* The heartbeats of a task end with it.
HeartEnds == \A t \in Syncs : stage[t] = "over" ~> ~Alive \/ heart[t] = 0
=============================================================================
