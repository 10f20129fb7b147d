---------------------------- MODULE DaemonProofs ----------------------------
(***************************************************************************)
(* Proofs about Daemon, for any number of tasks and workers, any service   *)
(* and any interrupt: its slots, its answers, and the pool it implements.  *)
(***************************************************************************)
EXTENDS Daemon, FiniteSetTheorems, TLAPS

\* What a release, a backoff and a report are.
LEMMA BackoffType ==
  ASSUME NEW n \in Nat
  PROVE  Backoff(n) \in Int
<1> DEFINE d == n * n * Second
<1>1. Half \in Nat \ {0} /\ Second \in Nat /\ Minute \in Nat
  BY DaemonAssumption
<1>2. d \in Nat
  BY <1>1
<1>3. Wrap(d) \in Int
  <2> HIDE DEF d
  <2>1. d + Half \in Int /\ 2 * Half \in Nat \ {0}
    BY <1>1, <1>2
  <2>2. (d + Half) % (2 * Half) \in Int
    BY <2>1
  <2> QED BY <1>1, <2>2 DEF Wrap
<1> QED BY <1>1, <1>3 DEF Backoff

\* Report is one of three.
LEMMA ReportType ==
  ASSUME NEW t \in Task
  PROVE  Report(t) \in {"success", "error", "final"}
BY DEF Report

(***************************************************************************)
(* The modes keep apart: where a task of the command line, or of the       *)
(* service, may be.                                                        *)
(***************************************************************************)
LocalInv ==
  local # NoTask =>
    /\ \A t \in Task \ {local} : stage[t] = "queued"
    /\ stage[local] \in {"queued", "connect", "dial", "local", "ending", "over"}
    /\ loop = "process" <=> stage[local] \in {"connect", "dial", "local", "ending"}
    /\ stage[local] = "over" /\ loop \in {"select", "blocked", "next", "failed"}
         => work[local] = "ok"

ServiceInv ==
  local = NoTask =>
    /\ loop # "process"
    /\ \A t \in Task : stage[t] # "local"
    /\ \A t \in Task : stage[t] = "hello" => t = Hello

\* The context is cancelled by Run's return only when it has returned.
ReturnInv == cancelled = "return" => loop \in {"returned", "exited", "panicked"}

\* A handler ends only with its task answered, if it was reached.
EndInv ==
  \A t \in Task \ {Hello} :
    local = NoTask /\ stage[t] \in {"ending", "over"} =>
      told[t] # "none" \/ t \in unserved \/ t \in unheard \/ t \in recalled

\* The slots, none of them beyond the semaphore's size.
SlotInv == SlotsAccounted /\ held <= MaxWorkers

\* After an error the wait is the one of the present count.
BackoffInv == errCount > 0 => wait = Backoff(errCount)

\* The types hold with the modes kept apart.
TypeInv == TypeOK /\ LocalInv /\ ServiceInv

\* The slots the goroutines hold, before and after a step that moves one task.
Goroutines == {t \in Task : Running(t)}

\* A task that goes on keeps its slot.
LEMMA GoroutinesKept ==
  ASSUME stage' = stage \/ \E t \in Task : \E s : /\ stage' = [stage EXCEPT ![t] = s]
                                                  /\ Running(t) /\ s \notin {"queued", "over"},
         stage \in [Task -> Stage]
  PROVE  Goroutines' = Goroutines
BY DEF Goroutines, Running

\* What a task goes on to with its client.
LEMMA FirstStages ==
  ASSUME NEW t \in Task
  PROVE  IF local # NoTask
           THEN FirstStage(t) = "local"
           ELSE FirstStage(t) \in {"heartbeat", "call", "hello"}
                /\ (FirstStage(t) = "hello" => t = Hello)
BY DaemonAssumption DEF FirstStage

\* A task that asks for its client leaves the loop and the service alone.
LEMMA ClientKeeps ==
  ASSUME NEW t \in Task, ClientStep(t)
  PROVE  /\ UNCHANGED <<loopVars, serviceVars>>
         /\ Alive /\ stage[t] \in {"connect", "dial"}
         /\ \/ stage' \in {[stage EXCEPT ![t] = "dial"], [stage EXCEPT ![t] = FirstStage(t)]}
               /\ UNCHANGED <<work, unserved>>
            \/ /\ stage' = [stage EXCEPT ![t] = "ending"]
               /\ work' = [work EXCEPT ![t] = "retry"]
               /\ unserved' = unserved \cup {t}
BY DEF ClientStep, HasClient, StartServer, ConnectFails, Dialed, DialGivesUp, Served, Unserved

\* A step of a handler, its goroutine's end apart, leaves the loop alone, and keeps its
\* task running.
LEMMA HandlerKeeps ==
  ASSUME TypeInv, NEW t \in Task,
         \/ LocalWork(t) \/ HelloTask(t) \/ CallConnector(t) \/ TempFileFails(t)
         \/ FirstBeat(t) \/ FirstBeatFails(t) \/ SyncDone(t) \/ SyncFails(t)
         \/ Upload(t) \/ FinishTask(t)
  PROVE  /\ UNCHANGED loopVars
         /\ Alive /\ Running(t)
         /\ \E s \in Stage \ {"queued", "over", "local", "hello"} :
              stage' = [stage EXCEPT ![t] = s]
BY DEF LocalWork, HelloTask, CallConnector, TempFileFails, FirstBeat, FirstBeatFails,
       SyncDone, SyncFails, Upload, FinishTask, Goes, loopVars, Running, Stage

\* A task on its way, whether it has its client or not, keeps its slot.
LEMMA TaskKeeps ==
  ASSUME TypeInv, NEW t \in Task, ClientStep(t) \/ HandlerStep(t), ~GoroutineEnds(t)
  PROVE  /\ UNCHANGED loopVars
         /\ Alive /\ Running(t)
         /\ \E s \in Stage \ {"queued", "over"} : stage' = [stage EXCEPT ![t] = s]
<1>1. CASE ClientStep(t)
  <2>1. FirstStage(t) \in Stage \ {"queued", "over"}
    BY FirstStages DEF Stage
  <2>2. Running(t)
    BY <1>1, ClientKeeps DEF Running
  <2> QED BY <1>1, <2>1, <2>2, ClientKeeps DEF Stage
<1>2. CASE HandlerStep(t)
  BY <1>2, HandlerKeeps DEF HandlerStep
<1> QED BY <1>1, <1>2

(***************************************************************************)
(* Types, and the two modes.                                               *)
(***************************************************************************)

\* The loop has a slot of its own between Acquire and the task it starts.
LEMMA LoopHasSlot ==
  ASSUME IsFiniteSet(Task), TypeInv, SlotInv, loop \in {"next", "process"}
  PROVE  held > 0 /\ unheld = 0
<1>1. GoroutinesHold \in Nat
  <2>1. IsFiniteSet({t \in Task : Running(t)})
    BY FS_Subset
  <2> QED BY <2>1, FS_CardinalityType DEF GoroutinesHold
<1>2. LoopHolds = 1
  BY DEF LoopHolds
<1>3. unheld = 0
  BY DEF SlotInv, SlotsAccounted, TypeInv, TypeOK, Alive
<1> QED BY <1>1, <1>2, <1>3 DEF SlotInv, SlotsAccounted, TypeInv, TypeOK

\* At first nothing runs and nothing is held.
LEMMA InitTypes == Init => TypeInv
<1> SUFFICES ASSUME Init PROVE TypeInv
  OBVIOUS
<1>1. TypeOK
  BY DaemonAssumption DEF Init, TypeOK, Stage
<1>2. LocalInv /\ ServiceInv
  BY DEF Init, LocalInv, ServiceInv
<1> QED BY <1>1, <1>2 DEF TypeInv

\* Each step keeps the types: no release brings the count of slots below zero.
LEMMA TypeStep ==
  ASSUME IsFiniteSet(Task), TypeInv, SlotInv, [Next]_vars
  PROVE  TypeOK'
<1> USE DEF TypeInv, TypeOK, vars, loopVars, taskVars, serviceVars
<1>1. ASSUME ContextDone \/ Claim \/ Block \/ AcquireFails \/ Exit PROVE TypeOK'
  BY <1>1 DEF ContextDone, Claim, Block, AcquireFails, Exit, Return
<1>2. CASE ReleaseUnheld
  BY <1>2 DEF ReleaseUnheld, Return
<1>3. CASE NextError
  <2>1. errCount' \in Nat /\ wait' \in Int
    BY <1>3, BackoffType DEF NextError
  <2>2. held' \in Nat
    BY <1>3, LoopHasSlot DEF NextError
  <2> QED BY <1>3, <2>1, <2>2 DEF NextError
<1>4. CASE NextNone
  <2>1. held' \in Nat
    BY <1>4, LoopHasSlot DEF NextNone
  <2> QED BY <1>4, <2>1 DEF NextNone, Return
<1>5. CASE ProcessReturns
  <2>1. held' \in Nat
    BY <1>5, LoopHasSlot DEF ProcessReturns
  <2> QED BY <1>5, <2>1 DEF ProcessReturns, Return, Stage
<1>6. ASSUME NEW t \in Task, NextTask(t) PROVE TypeOK'
  BY <1>6 DEF NextTask, Stage
<1>7. CASE Interrupt \/ ServerQuits
  BY <1>7 DEF Interrupt, ServerQuits
<1>8. ASSUME NEW t \in Task, GoroutineEnds(t) PROVE TypeOK'
  BY <1>8 DEF GoroutineEnds, Stage
<1>9. ASSUME NEW t \in Task,
             \/ LocalWork(t) \/ HelloTask(t) \/ CallConnector(t) \/ TempFileFails(t)
             \/ FirstBeat(t) \/ FirstBeatFails(t)
      PROVE  TypeOK'
  BY <1>9 DEF LocalWork, HelloTask, CallConnector, TempFileFails, FirstBeat, FirstBeatFails,
              Goes, Stage
<1>10. ASSUME NEW t \in Task, SyncDone(t) \/ SyncFails(t) \/ Upload(t) \/ FinishTask(t)
       PROVE  TypeOK'
  BY <1>10, ReportType DEF SyncDone, SyncFails, Upload, FinishTask, Goes, Stage
<1>11. ASSUME NEW t \in Task, HeartStep(t) \/ Recall(t) PROVE TypeOK'
  BY <1>11 DEF HeartStep, Beat, BeatFails, HeartStops, BeatChanges, Recall
<1>12. ASSUME NEW t \in Task, ClientStep(t) PROVE TypeOK'
  <2>1. FirstStage(t) \in Stage
    BY FirstStages DEF Stage
  <2>2. server' \in {"none", "dialing", "dead", "ready", "broken"}
    BY <1>12 DEF ClientStep, HasClient, StartServer, ConnectFails, Dialed, DialGivesUp
  <2>3. UNCHANGED <<heart, stopped>>
    BY <1>12 DEF ClientStep, HasClient, StartServer, ConnectFails, Dialed, DialGivesUp,
                 Served, Unserved
  <2> QED BY <1>12, <2>1, <2>2, <2>3, ClientKeeps DEF Stage
<1>13. CASE Finished \/ UNCHANGED vars
  BY <1>13 DEF Finished
<1> QED
  BY <1>1, <1>2, <1>3, <1>4, <1>5, <1>6, <1>7, <1>8, <1>9, <1>10, <1>11, <1>12, <1>13
  DEF Next, LoopStep, HandlerStep

\* No step mixes the task of the command line with those of the service.
LEMMA ModesStep ==
  ASSUME TypeInv, [Next]_vars
  PROVE  LocalInv' /\ ServiceInv'
<1> USE DEF TypeInv, TypeOK, LocalInv, ServiceInv, vars, loopVars, taskVars, serviceVars
<1> DEFINE Modes == LocalInv /\ ServiceInv
<1>1. ASSUME \/ ContextDone \/ Claim \/ Block \/ AcquireFails \/ Exit \/ Interrupt
             \/ ServerQuits
      PROVE  Modes'
  BY <1>1 DEF ContextDone, Claim, Block, AcquireFails, Exit, Return, Interrupt, ServerQuits
<1>2. CASE ReleaseUnheld
  BY <1>2 DEF ReleaseUnheld, Return
<1>3. CASE NextError \/ NextNone
  BY <1>3 DEF NextError, NextNone, Return
<1>5. CASE ProcessReturns
  BY <1>5 DEF ProcessReturns, Return
<1>6. ASSUME NEW t \in Task, NextTask(t) PROVE Modes'
  <2>1. CASE local = NoTask
    BY <1>6, <2>1 DEF NextTask
  <2>2. CASE local # NoTask
    <3>1. t = local
      BY <1>6, <2>2 DEF NextTask, Offered, AsksService
    <3> QED BY <1>6, <2>2, <3>1 DEF NextTask
  <2> QED BY <2>1, <2>2
<1>8. ASSUME NEW t \in Task, GoroutineEnds(t) PROVE Modes'
  BY <1>8 DEF GoroutineEnds
<1>9. ASSUME NEW t \in Task, LocalWork(t) PROVE Modes'
  BY <1>9 DEF LocalWork, Goes
<1>10. ASSUME NEW t \in Task,
             \/ HelloTask(t) \/ CallConnector(t) \/ TempFileFails(t)
             \/ FirstBeat(t) \/ FirstBeatFails(t) \/ SyncDone(t) \/ SyncFails(t)
             \/ Upload(t) \/ FinishTask(t)
      PROVE  Modes'
  <2>1. stage[t] \notin {"queued", "connect", "dial", "local", "ending", "over"}
    BY <1>10 DEF HelloTask, CallConnector, TempFileFails, FirstBeat, FirstBeatFails, SyncDone,
                 SyncFails, Upload, FinishTask
  <2>2. local = NoTask
    BY <2>1
  <2> QED BY <1>10, <2>2, HandlerKeeps DEF Stage
<1>11. ASSUME NEW t \in Task, HeartStep(t) \/ Recall(t) PROVE Modes'
  BY <1>11 DEF HeartStep, Beat, BeatFails, HeartStops, BeatChanges, Recall
<1>12. ASSUME NEW t \in Task, ClientStep(t) PROVE Modes'
  <2>1. CASE local = NoTask
    BY <1>12, <2>1, ClientKeeps, FirstStages
  <2>2. CASE local # NoTask
    <3>1. t = local
      BY <1>12, <2>2, ClientKeeps
    <3>2. /\ local \in Task /\ loop = "process" /\ loop' = loop /\ local' = local
          /\ \E s \in {"dial", "local", "ending"} : stage' = [stage EXCEPT ![local] = s]
      BY <1>12, <2>2, <3>1, ClientKeeps, FirstStages
    <3> QED BY <2>2, <3>2
  <2> QED BY <2>1, <2>2
<1>13. CASE Finished \/ UNCHANGED vars
  BY <1>13 DEF Finished
<1> QED
  BY <1>1, <1>2, <1>3, <1>5, <1>6, <1>8, <1>9, <1>10, <1>11, <1>12, <1>13
  DEF Next, LoopStep, HandlerStep

(***************************************************************************)
(* The slots.                                                              *)
(***************************************************************************)

\* The running tasks, one more or one less.
LEMMA CountStep ==
  ASSUME IsFiniteSet(Task), stage \in [Task -> Stage], NEW t \in Task, NEW s \in Stage,
         stage' = [stage EXCEPT ![t] = s]
  PROVE  /\ Cardinality(Goroutines) \in Nat
         /\ Running(t) /\ s \notin {"queued", "over"} => Goroutines' = Goroutines
         /\ stage[t] = "queued" /\ s \notin {"queued", "over"}
              => Cardinality(Goroutines') = Cardinality(Goroutines) + 1
         /\ Running(t) /\ s = "over"
              => /\ Cardinality(Goroutines') = Cardinality(Goroutines) - 1
                 /\ Cardinality(Goroutines) > 0
<1>1. IsFiniteSet(Goroutines)
  BY FS_Subset DEF Goroutines
<1>2. Cardinality(Goroutines) \in Nat
  BY <1>1, FS_CardinalityType
<1>3. ASSUME Running(t), s \notin {"queued", "over"} PROVE Goroutines' = Goroutines
  BY <1>3, GoroutinesKept
<1>4. ASSUME stage[t] = "queued", s \notin {"queued", "over"}
      PROVE  Cardinality(Goroutines') = Cardinality(Goroutines) + 1
  <2>1. Goroutines' = Goroutines \cup {t} /\ t \notin Goroutines
    BY <1>4 DEF Goroutines, Running
  <2> QED BY <1>1, <2>1, FS_AddElement
<1>5. ASSUME Running(t), s = "over"
      PROVE  /\ Cardinality(Goroutines') = Cardinality(Goroutines) - 1
             /\ Cardinality(Goroutines) > 0
  <2>1. Goroutines' = Goroutines \ {t} /\ t \in Goroutines
    BY <1>5 DEF Goroutines, Running
  <2>2. Cardinality(Goroutines') = Cardinality(Goroutines) - 1
    BY <1>1, <2>1, FS_RemoveElement
  <2>3. Cardinality(Goroutines') \in Nat
    BY <1>1, <2>1, FS_RemoveElement, FS_CardinalityType
  <2> QED BY <1>2, <2>2, <2>3
<1> QED BY <1>2, <1>3, <1>4, <1>5

\* Each step keeps the account of the slots.
LEMMA SlotStep ==
  ASSUME IsFiniteSet(Task), TypeInv, SlotInv, [Next]_vars
  PROVE  SlotInv'
<1> DEFINE N == Cardinality(Goroutines)
<1>a. N \in Nat
  BY FS_Subset, FS_CardinalityType DEF Goroutines
<1>b. /\ GoroutinesHold = IF local = NoTask THEN N ELSE 0
      /\ GoroutinesHold' = IF local' = NoTask THEN N' ELSE 0
  BY DEF GoroutinesHold, Goroutines
<1>c. held + unheld = LoopHolds + GoroutinesHold /\ held <= MaxWorkers /\ MaxWorkers \in Nat
  BY DaemonAssumption DEF SlotInv, SlotsAccounted
<1>d. unheld > 0 => ~Alive \/ loop = "returned"
  BY DEF SlotInv, SlotsAccounted
<1>e. held \in Nat /\ unheld \in Nat /\ stage \in [Task -> Stage]
  BY DEF TypeInv, TypeOK
<1> DEFINE Goal == /\ held' + unheld' = LoopHolds' + GoroutinesHold'
                   /\ unheld' > 0 => ~Alive' \/ loop' = "returned"
                   /\ held' <= MaxWorkers
<1> SUFFICES Goal
  BY DEF SlotInv, SlotsAccounted
<1>k. ASSUME UNCHANGED stage PROVE N' = N
  BY <1>k DEF Goroutines, Running
<1> HIDE DEF N
<1> USE <1>a, <1>b, <1>c, <1>d, <1>e DEF LoopHolds, Alive
<1>1. ASSUME \/ ContextDone \/ Claim \/ Block \/ AcquireFails \/ Exit \/ Interrupt
             \/ ServerQuits
      PROVE  Goal
  BY <1>1, <1>k DEF ContextDone, Claim, Block, AcquireFails, Exit, Return, Interrupt, ServerQuits,
                    loopVars, taskVars
<1>2. CASE ReleaseUnheld
  BY <1>2, <1>k DEF ReleaseUnheld, Return, taskVars
<1>3. CASE NextError \/ NextNone
  BY <1>3, <1>k, LoopHasSlot DEF NextError, NextNone, Return, taskVars
<1>4. CASE ProcessReturns
  <2>1. local # NoTask
    BY <1>4 DEF ProcessReturns, TypeInv, ServiceInv
  <2> QED BY <1>4, <2>1, LoopHasSlot DEF ProcessReturns, Return
<1>5. ASSUME NEW t \in Task, NextTask(t) PROVE Goal
  <2>1. CASE local # NoTask
    BY <1>5, <2>1 DEF NextTask
  <2>2. CASE local = NoTask
    <3>2. stage[t] = "queued" /\ stage' = [stage EXCEPT ![t] = "connect"]
      BY <1>5, <2>2 DEF NextTask, Offered
    <3>3. N' = N + 1
      BY <3>2, CountStep DEF N, Stage
    <3> QED BY <1>5, <2>2, <3>3 DEF NextTask
  <2> QED BY <2>1, <2>2
<1>6. ASSUME NEW t \in Task, GoroutineEnds(t) PROVE Goal
  <2>1. CASE held = 0
    BY <1>6, <2>1, <1>k DEF GoroutineEnds
  <2>2. CASE held # 0
    <3>1. stage[t] = "ending" /\ stage' = [stage EXCEPT ![t] = "over"] /\ local = NoTask
      BY <1>6, <2>2 DEF GoroutineEnds
    <3>2. N' = N - 1
      BY <3>1, CountStep DEF Running, Stage, N
    <3> QED BY <1>6, <2>2, <3>1, <3>2 DEF GoroutineEnds
  <2> QED BY <2>1, <2>2
<1>7. ASSUME NEW t \in Task, ClientStep(t) \/ HandlerStep(t), ~GoroutineEnds(t) PROVE Goal
  <2>1. UNCHANGED loopVars
    BY <1>7, TaskKeeps
  <2>2. PICK s \in Stage \ {"queued", "over"} : stage' = [stage EXCEPT ![t] = s]
    BY <1>7, TaskKeeps
  <2>3. Running(t)
    BY <1>7, TaskKeeps
  <2>4. N' = N
    BY <2>2, <2>3, CountStep DEF N
  <2> QED BY <2>1, <2>4 DEF loopVars
<1>8. ASSUME NEW t \in Task, HeartStep(t) \/ Recall(t) PROVE Goal
  BY <1>8, <1>k DEF HeartStep, Beat, BeatFails, HeartStops, BeatChanges, Recall, loopVars, taskVars
<1>9. CASE Finished \/ UNCHANGED vars
  BY <1>9, <1>k DEF Finished, vars, loopVars, taskVars
<1> QED
  BY <1>1, <1>2, <1>3, <1>4, <1>5, <1>6, <1>7, <1>8, <1>9 DEF Next, LoopStep

\* At first no slot is taken.
LEMMA InitSlots == Init => SlotInv
<1> SUFFICES ASSUME Init PROVE SlotInv
  OBVIOUS
<1>1. {t \in Task : Running(t)} = {}
  BY DEF Init, Running
<1>2. GoroutinesHold = 0
  BY <1>1, FS_EmptySet DEF GoroutinesHold
<1> QED BY <1>2, DaemonAssumption DEF Init, SlotInv, SlotsAccounted, LoopHolds

\* Types, modes and slots hold together.
LEMMA Invariant ==
  ASSUME IsFiniteSet(Task)
  PROVE  Spec => [](TypeInv /\ SlotInv)
<1>1. Init => TypeInv /\ SlotInv
  BY InitTypes, InitSlots
<1>2. TypeInv /\ SlotInv /\ [Next]_vars => TypeInv'
  BY TypeStep, ModesStep DEF TypeInv
<1>3. TypeInv /\ SlotInv /\ [Next]_vars => SlotInv'
  BY SlotStep
<1> QED BY <1>1, <1>2, <1>3, PTL DEF Spec

\* Every reachable state is well typed: in particular the count of slots never goes
\* below none, for Release is not called more often than Acquire but for the last time.
THEOREM DaemonTypes ==
  ASSUME IsFiniteSet(Task)
  PROVE  Spec => []TypeOK
<1>1. TypeInv => TypeOK
  BY DEF TypeInv
<1> QED BY <1>1, Invariant, PTL

\* Whatever the loop's early returns, errors and modes, each slot taken is held by the
\* loop or by one running task, and only a closing loop releases one that is not its own.
THEOREM SlotsAreAccounted ==
  ASSUME IsFiniteSet(Task)
  PROVE  Spec => []SlotsAccounted
<1>1. SlotInv => SlotsAccounted
  BY DEF SlotInv
<1> QED BY <1>1, Invariant, PTL

(***************************************************************************)
(* Answers.                                                                *)
(***************************************************************************)

\* The service is told by FinishTask alone.
LEMMA ToldStep ==
  ASSUME TypeInv, [Next]_vars
  PROVE  \/ told' = told
         \/ \E t \in Task : FinishTask(t) /\ told' = [told EXCEPT ![t] = Report(t)]
<1> USE DEF vars, loopVars, taskVars, serviceVars
<1>1. CASE LoopStep \/ Interrupt \/ ServerQuits
  BY <1>1 DEF LoopStep, Interrupt, ContextDone, Claim, Block, AcquireFails, ReleaseUnheld,
              Exit, NextError, NextNone, ProcessReturns, NextTask, ServerQuits
<1>2. ASSUME NEW t \in Task, HandlerStep(t), ~FinishTask(t) PROVE told' = told
  BY <1>2 DEF HandlerStep, LocalWork, HelloTask, CallConnector, TempFileFails, FirstBeat,
              FirstBeatFails, SyncDone, SyncFails, Upload, GoroutineEnds, Goes
<1>3. ASSUME NEW t \in Task, FinishTask(t)
      PROVE  told' = told \/ told' = [told EXCEPT ![t] = Report(t)]
  BY <1>3 DEF FinishTask
<1>4. ASSUME NEW t \in Task, HeartStep(t) \/ Recall(t) PROVE told' = told
  BY <1>4 DEF HeartStep, Beat, BeatFails, HeartStops, BeatChanges, Recall
<1>5. ASSUME NEW t \in Task, ClientStep(t) PROVE told' = told
  BY <1>5, ClientKeeps
<1>6. CASE Finished \/ UNCHANGED vars
  BY <1>6 DEF Finished
<1> QED BY <1>1, <1>2, <1>3, <1>4, <1>5, <1>6 DEF Next

\* Each way out of a handler goes through FinishTask, but for the hello's and that of a
\* sync without its first heartbeat.  A task that never gets there is unserved.
LEMMA EndStep ==
  ASSUME TypeInv, EndInv, [Next]_vars
  PROVE  EndInv'
<1> SUFFICES ASSUME NEW u \in Task \ {Hello}, local' = NoTask, stage'[u] \in {"ending", "over"}
             PROVE  told'[u] # "none" \/ u \in unserved' \/ u \in unheard' \/ u \in recalled'
  BY DEF EndInv
<1> DEFINE Goal == \/ told'[u] # "none" \/ u \in unserved' \/ u \in unheard'
                   \/ u \in recalled'
<1>l. local = NoTask
  BY ClientKeeps DEF Next, LoopStep, Interrupt, ContextDone, Claim, Block, AcquireFails, ReleaseUnheld,
         Exit, NextError, NextNone, ProcessReturns, NextTask, HandlerStep, LocalWork, HelloTask,
         CallConnector, TempFileFails, FirstBeat, FirstBeatFails, SyncDone, SyncFails, Upload,
         FinishTask, GoroutineEnds, Goes, HeartStep, Beat, BeatFails, HeartStops, BeatChanges,
         Recall, ServerQuits, Finished, vars, loopVars
<1>a. stage[u] \in {"ending", "over"} =>
        told[u] # "none" \/ u \in unserved \/ u \in unheard \/ u \in recalled
  BY <1>l DEF EndInv
<1>b. told[u] # "none" => told'[u] # "none"
  BY ToldStep, ReportType DEF TypeInv, TypeOK
<1> USE DEF TypeInv, TypeOK, loopVars, taskVars, serviceVars
<1>1. CASE LoopStep \/ Interrupt \/ ServerQuits
  <2>1. UNCHANGED <<told, unserved, unheard, recalled>>
    BY <1>1 DEF LoopStep, Interrupt, ContextDone, Claim, Block, AcquireFails, ReleaseUnheld,
                Exit, NextError, NextNone, ProcessReturns, NextTask, ServerQuits
  <2>2. stage[u] \in {"ending", "over"}
    <3>1. CASE UNCHANGED stage
      BY <3>1
    <3>2. ASSUME NEW t \in Task, NextTask(t) PROVE stage[u] \in {"ending", "over"}
      BY <3>2 DEF NextTask
    <3>3. CASE ProcessReturns
      BY <1>l, <3>3 DEF ProcessReturns, ServiceInv
    <3> QED BY <1>1, <3>1, <3>2, <3>3
            DEF LoopStep, Interrupt, ContextDone, Claim, Block, AcquireFails, ReleaseUnheld,
                Exit, NextError, NextNone, ServerQuits
  <2> QED BY <1>a, <2>1, <2>2
<1>2. ASSUME NEW t \in Task, LocalWork(t) \/ HelloTask(t) PROVE Goal
  <2>1. t # u
    BY <1>2, <1>l DEF LocalWork, HelloTask, ServiceInv
  <2> QED BY <1>2, <1>a, <2>1 DEF LocalWork, HelloTask, Goes
<1>3. ASSUME NEW t \in Task, \/ CallConnector(t) \/ TempFileFails(t) \/ FirstBeat(t)
                             \/ SyncDone(t) \/ SyncFails(t) \/ Upload(t)
      PROVE  Goal
  BY <1>3, <1>a DEF CallConnector, TempFileFails, FirstBeat, SyncDone, SyncFails, Upload, Goes
<1>4. ASSUME NEW t \in Task, FirstBeatFails(t) PROVE Goal
  BY <1>4, <1>a DEF FirstBeatFails, Goes
<1>5. ASSUME NEW t \in Task, FinishTask(t) PROVE Goal
  BY <1>5, <1>a, <1>b, ReportType DEF FinishTask
<1>6. ASSUME NEW t \in Task, GoroutineEnds(t) PROVE Goal
  BY <1>6, <1>a DEF GoroutineEnds
<1>7. ASSUME NEW t \in Task, HeartStep(t) \/ Recall(t) PROVE Goal
  BY <1>7, <1>a DEF HeartStep, Beat, BeatFails, HeartStops, BeatChanges, Recall
<1>8. ASSUME NEW t \in Task, ClientStep(t) PROVE Goal
  <2>1. CASE t = u
    <3>1. FirstStage(t) \notin {"ending", "over"}
      BY FirstStages
    <3> QED BY <1>8, <2>1, <3>1, ClientKeeps
  <2>2. CASE t # u
    BY <1>8, <1>a, <2>2, ClientKeeps
  <2> QED BY <2>1, <2>2
<1>9. CASE Finished \/ UNCHANGED vars
  BY <1>9, <1>a DEF Finished, vars
<1> QED BY <1>1, <1>2, <1>3, <1>4, <1>5, <1>6, <1>7, <1>8, <1>9 DEF Next, HandlerStep

\* A task of the service that is over has been answered, unless it got no client of the
\* connector, the line to the service failed for it, or the service had cancelled it.
THEOREM TasksAreAnswered ==
  ASSUME IsFiniteSet(Task)
  PROVE  Spec => []TaskAnswered
<1>1. Init => EndInv
  BY DEF Init, EndInv
<1>2. TypeInv /\ EndInv /\ [Next]_vars => EndInv'
  BY EndStep
<1>3. EndInv => TaskAnswered
  BY DEF EndInv, TaskAnswered
<1> QED BY <1>1, <1>2, <1>3, Invariant, PTL DEF Spec

(***************************************************************************)
(* One-shot mode.                                                          *)
(***************************************************************************)
ClosingInv == ReturnInv /\ (loop = "failed" => Cancelled)

\* A failed Acquire, and a return, are behind a cancelled context.
LEMMA ClosingStep ==
  ASSUME ClosingInv, [Next]_vars
  PROVE  ClosingInv'
<1> USE DEF ClosingInv, ReturnInv, Cancelled, loopVars
<1>1. CASE LoopStep \/ Interrupt \/ ServerQuits
  BY <1>1 DEF LoopStep, Interrupt, ContextDone, Claim, Block, AcquireFails, ReleaseUnheld, Exit,
              NextError, NextNone, ProcessReturns, NextTask, Return, Alive, ServerQuits
<1>2. ASSUME NEW t \in Task, HandlerStep(t) PROVE ClosingInv'
  BY <1>2 DEF HandlerStep, LocalWork, HelloTask, CallConnector, TempFileFails, FirstBeat,
              FirstBeatFails, SyncDone, SyncFails, Upload, FinishTask, GoroutineEnds, Goes
<1>3. ASSUME NEW t \in Task, HeartStep(t) \/ Recall(t) PROVE ClosingInv'
  BY <1>3 DEF HeartStep, Beat, BeatFails, HeartStops, BeatChanges, Recall
<1>4. ASSUME NEW t \in Task, ClientStep(t) PROVE ClosingInv'
  BY <1>4, ClientKeeps
<1>5. CASE Finished \/ UNCHANGED vars
  BY <1>5 DEF Finished, vars
<1> QED BY <1>1, <1>2, <1>3, <1>4, <1>5 DEF Next

\* The loop ends well only after its task did, or after an interrupt.
LEMMA OneShotStep ==
  ASSUME TypeInv, ClosingInv, OneShotDoesIt, [Next]_vars
  PROVE  OneShotDoesIt'
<1>1. ASSUME UNCHANGED <<exit, local, cancelled, work>> PROVE OneShotDoesIt'
  BY <1>1 DEF OneShotDoesIt
<1>2. ASSUME NEW t \in Task, ClientStep(t) \/ HandlerStep(t), UNCHANGED <<exit, local, cancelled>>,
             stage[t] \notin {"queued", "over"}
      PROVE  OneShotDoesIt'
  <2>1. cancelled = "return" => loop \in {"returned", "exited", "panicked"}
    BY DEF ClosingInv, ReturnInv
  <2>2. local = NoTask \/ loop = "process"
    BY <1>2 DEF TypeInv, TypeOK, LocalInv
  <2> QED BY <1>2, <2>1, <2>2 DEF OneShotDoesIt
<1>3. CASE ContextDone \/ ReleaseUnheld \/ Interrupt
  <2>1. cancelled' # "return" \/ UNCHANGED <<exit, local, cancelled, work>>
    BY <1>3 DEF ContextDone, ReleaseUnheld, Interrupt, Return, ClosingInv, ReturnInv, Cancelled,
                TypeInv, TypeOK, taskVars
  <2> QED BY <1>1, <2>1 DEF OneShotDoesIt
<1>4. CASE NextNone
  <2>1. CASE UNCHANGED <<exit, cancelled>>
    BY <1>1, <1>4, <2>1 DEF NextNone, taskVars
  <2>2. CASE local # NoTask /\ stage[local] # "queued"
    <3>1. stage[local] = "over"
      BY <1>4, <2>2 DEF NextNone, TypeInv, LocalInv
    <3>2. work[local] = "ok"
      BY <1>4, <2>2, <3>1 DEF NextNone, TypeInv, TypeOK, LocalInv
    <3> QED BY <1>4, <3>2 DEF NextNone, OneShotDoesIt, taskVars
  <2> QED BY <1>4, <2>1, <2>2 DEF NextNone
<1>5. CASE ProcessReturns
  BY <1>1, <1>5 DEF ProcessReturns, Return, OneShotDoesIt
<1>6. CASE \/ Claim \/ Block \/ AcquireFails \/ Exit \/ NextError \/ ServerQuits
           \/ \E t \in Task : NextTask(t)
  BY <1>1, <1>6 DEF Claim, Block, AcquireFails, Exit, NextError, NextTask, ServerQuits, loopVars,
                    taskVars
<1>7. ASSUME NEW t \in Task, HandlerStep(t), ~GoroutineEnds(t) PROVE OneShotDoesIt'
  <2>1. UNCHANGED <<exit, local, cancelled>> /\ stage[t] \notin {"queued", "over"}
    BY <1>7, TaskKeeps DEF loopVars, Running
  <2> QED BY <1>2, <1>7, <2>1
<1>8. ASSUME NEW t \in Task, GoroutineEnds(t) PROVE OneShotDoesIt'
  BY <1>1, <1>8 DEF GoroutineEnds
<1>9. ASSUME NEW t \in Task, ClientStep(t) PROVE OneShotDoesIt'
  <2>1. UNCHANGED <<exit, local, cancelled>> /\ stage[t] \notin {"queued", "over"}
    BY <1>9, ClientKeeps DEF loopVars
  <2> QED BY <1>2, <1>9, <2>1
<1>10. ASSUME NEW t \in Task, HeartStep(t) \/ Recall(t) PROVE OneShotDoesIt'
  BY <1>1, <1>10 DEF HeartStep, Beat, BeatFails, HeartStops, BeatChanges, Recall, loopVars, taskVars
<1>11. CASE Finished \/ UNCHANGED vars
  BY <1>1, <1>11 DEF Finished, vars, loopVars, taskVars
<1> QED BY <1>3, <1>4, <1>5, <1>6, <1>7, <1>8, <1>9, <1>10, <1>11 DEF Next, LoopStep

\* A command that returns without an error, and was not interrupted, did its task.
THEOREM OneShotsDoIt ==
  ASSUME IsFiniteSet(Task)
  PROVE  Spec => []OneShotDoesIt
<1>1. Init => ClosingInv /\ OneShotDoesIt
  BY DEF Init, ClosingInv, ReturnInv, OneShotDoesIt
<1>2. ClosingInv /\ [Next]_vars => ClosingInv'
  BY ClosingStep
<1>3. TypeInv /\ ClosingInv /\ OneShotDoesIt /\ [Next]_vars => OneShotDoesIt'
  BY OneShotStep
<1> QED BY <1>1, <1>2, <1>3, Invariant, PTL DEF Spec

(***************************************************************************)
(* The wait after an error.                                                *)
(***************************************************************************)

\* A value that fits does not wrap.
LEMMA NoWrap ==
  ASSUME NEW d \in Nat, d < Half
  PROVE  Wrap(d) = d
<1>1. Half \in Nat /\ d + Half \in 0 .. (2 * Half - 1) /\ 2 * Half \in Nat \ {0}
  BY DaemonAssumption
<1>2. (d + Half) % (2 * Half) = d + Half
  <2> DEFINE m == 2 * Half
  <2> DEFINE x == d + Half
  <2>1. m \in Nat \ {0} /\ x \in Nat /\ x < m
    BY <1>1
  <2> HIDE DEF m, x
  <2>2. x % m = x
    BY <2>1
  <2> QED BY <2>2 DEF m, x
<1> QED BY <1>1, <1>2 DEF Wrap

\* The square of a positive number of errors is a second at least.
LEMMA SquareGrows ==
  ASSUME NEW n \in Nat \ {0}, NEW s \in Nat
  PROVE  n * n * s \in Nat /\ s <= n * n * s
<1>1. n * n \in Nat \ {0}
  OBVIOUS
<1> DEFINE q == n * n
<1> HIDE DEF q
<1>2. q \in Nat \ {0}
  BY <1>1 DEF q
<1>3. q * s \in Nat /\ s <= q * s
  BY <1>2
<1> QED BY <1>3 DEF q

\* Only an error sets the wait, with its count.
LEMMA BackoffStep ==
  ASSUME TypeInv, BackoffInv, [Next]_vars
  PROVE  BackoffInv'
<1> USE DEF BackoffInv, loopVars
<1>1. CASE LoopStep \/ Interrupt \/ ServerQuits
  BY <1>1 DEF LoopStep, Interrupt, ContextDone, Claim, Block, AcquireFails, ReleaseUnheld, Exit,
              NextError, NextNone, ProcessReturns, NextTask, Return, ServerQuits
<1>2. ASSUME NEW t \in Task, HandlerStep(t) PROVE BackoffInv'
  BY <1>2 DEF HandlerStep, LocalWork, HelloTask, CallConnector, TempFileFails, FirstBeat,
              FirstBeatFails, SyncDone, SyncFails, Upload, FinishTask, GoroutineEnds, Goes
<1>3. ASSUME NEW t \in Task, HeartStep(t) \/ Recall(t) PROVE BackoffInv'
  BY <1>3 DEF HeartStep, Beat, BeatFails, HeartStops, BeatChanges, Recall
<1>4. ASSUME NEW t \in Task, ClientStep(t) PROVE BackoffInv'
  BY <1>4, ClientKeeps
<1>5. CASE Finished \/ UNCHANGED vars
  BY <1>5 DEF Finished, vars
<1> QED BY <1>1, <1>2, <1>3, <1>4, <1>5 DEF Next

\* Below the overflow the wait is between a second and a minute.
LEMMA BackoffBounds ==
  ASSUME TypeInv, BackoffInv
  PROVE  BackoffHolds
<1> SUFFICES ASSUME errCount > 0, errCount * errCount * Second < Half
             PROVE  wait \in Second .. Minute
  BY DEF BackoffHolds
<1> DEFINE d == errCount * errCount * Second
<1>1. Second \in Nat \ {0} /\ Minute \in Nat /\ Second <= Minute
  BY DaemonAssumption
<1>2. d \in Nat /\ Second <= d
  BY <1>1, SquareGrows DEF TypeInv, TypeOK
<1>3. Wrap(d) = d
  BY <1>2, NoWrap
<1>4. wait = IF d > Minute THEN Minute ELSE d
  BY <1>3 DEF BackoffInv, Backoff
<1> HIDE DEF d
<1> QED BY <1>1, <1>2, <1>4

\* However often the service fails, it is asked again after a second at least and a
\* minute at most, as long as the square of the failures does not overflow.
THEOREM BackoffsHold ==
  ASSUME IsFiniteSet(Task)
  PROVE  Spec => []BackoffHolds
<1>1. Init => BackoffInv
  BY DEF Init, BackoffInv
<1>2. TypeInv /\ BackoffInv /\ [Next]_vars => BackoffInv'
  BY BackoffStep
<1>3. TypeInv /\ BackoffInv => BackoffHolds
  BY BackoffBounds
<1> QED BY <1>1, <1>2, <1>3, Invariant, PTL DEF Spec

(***************************************************************************)
(* The refinement: what the pool sees of a task is its stage, and of the   *)
(* loop whether it still takes tasks.                                      *)
(***************************************************************************)
At(t) == IF Running(t) THEN "running" ELSE IF stage[t] = "queued" THEN "waiting" ELSE "over"
Open == loop \notin {"failed", "returned", "exited", "panicked"}

\* The runner starts as the pool does.
LEMMA PoolInit == Init => Pool!PInit
BY DEF Init, Pool!PInit, Running, Alive

\* The pool counts as the runner does.
LEMMA PoolCounts ==
  ASSUME NEW S
  PROVE  Pool!Cardinality(S) = Cardinality(S)
BY DEF Pool!Cardinality, Cardinality

\* Each step is one of the pool, or none.
LEMMA PoolStep ==
  ASSUME IsFiniteSet(Task), TypeInv, SlotInv, [Next]_vars
  PROVE  [Pool!PNext]_(Pool!pvars)
<1> DEFINE at == [t \in Task |-> At(t)]
<1> DEFINE Goal == Pool!PNext \/ UNCHANGED Pool!pvars
<1> SUFFICES Goal
  OBVIOUS
<1>s. ASSUME at' = at, Open' = Open, Alive' = Alive PROVE Goal
  BY <1>s DEF Pool!pvars, At, Open
<1>c. ASSUME at' = at, Open, ~Open' , Alive' = Alive PROVE Goal
  <2>1. Pool!Close
    BY <1>c DEF Pool!Close, At, Open
  <2> QED BY <2>1 DEF Pool!PNext
<1>d. ASSUME at' = at, ~Open, ~Open', Alive, ~Alive' PROVE Goal
  <2>1. Pool!Die
    BY <1>d DEF Pool!Die, At, Open
  <2> QED BY <2>1 DEF Pool!PNext
<1>e. ASSUME NEW t \in Task, Alive, Alive', Running(t), stage' = [stage EXCEPT ![t] = "over"],
             Open' => Open
      PROVE  Goal
  <2>1. at' = [at EXCEPT ![t] = "over"] /\ at[t] = "running"
    BY <1>e DEF At, Running, TypeInv, TypeOK
  <2>2. Pool!EndTask(t)
    BY <1>e, <2>1 DEF Pool!EndTask, At, Open
  <2> QED BY <2>2 DEF Pool!PNext
<1>k. stage' = stage => at' = at
  BY DEF At, Running
<1> USE DEF Open, Alive
<1>1. CASE ContextDone
  BY <1>1, <1>c, <1>k DEF ContextDone, Return, taskVars
<1>2. CASE Claim \/ Block \/ NextError \/ Interrupt \/ ServerQuits
  BY <1>2, <1>s, <1>k DEF Claim, Block, NextError, Interrupt, ServerQuits, loopVars, taskVars
<1>3. CASE AcquireFails
  BY <1>3, <1>c, <1>k DEF AcquireFails, taskVars
<1>4. CASE ReleaseUnheld
  BY <1>4, <1>s, <1>d, <1>k DEF ReleaseUnheld, Return, taskVars
<1>5. CASE Exit
  BY <1>5, <1>d, <1>k DEF Exit, taskVars
<1>6. CASE NextNone
  BY <1>6, <1>s, <1>c, <1>k DEF NextNone, Return, taskVars
<1>7. CASE ProcessReturns
  <2>1. local \in Task /\ Running(local)
    BY <1>7 DEF ProcessReturns, TypeInv, TypeOK, ServiceInv, Running
  <2>2. stage' = [stage EXCEPT ![local] = "over"] /\ Alive' /\ (Open' => Open)
    BY <1>7 DEF ProcessReturns, Return
  <2> QED BY <1>7, <1>e, <2>1, <2>2 DEF ProcessReturns
<1>8. ASSUME NEW t \in Task, NextTask(t) PROVE Goal
  <2>1. stage[t] = "queued" /\ Open /\ Alive /\ Open' /\ Alive'
    BY <1>8 DEF NextTask, Offered
  <2>2. stage' = [stage EXCEPT ![t] = "connect"]
    BY <1>8 DEF NextTask
  <2>3. at' = [at EXCEPT ![t] = "running"] /\ at[t] = "waiting"
    BY <2>1, <2>2 DEF At, Running, TypeInv, TypeOK
  <2>4. Pool!Working = Goroutines
    BY DEF Pool!Working, Goroutines, Running
  <2>5. Cardinality(Goroutines) < MaxWorkers
    <3>1. CASE local = NoTask
      <4>1. Cardinality(Goroutines) \in Nat
        BY FS_Subset, FS_CardinalityType DEF Goroutines
      <4>2. GoroutinesHold = Cardinality(Goroutines)
        BY <3>1 DEF GoroutinesHold, Goroutines
      <4>3. held + unheld = 1 + Cardinality(Goroutines) /\ unheld = 0 /\ held <= MaxWorkers
        BY <1>8, <4>2, LoopHasSlot DEF NextTask, LoopHolds, SlotInv, SlotsAccounted
      <4> QED BY <4>1, <4>3, DaemonAssumption DEF TypeInv, TypeOK
    <3>2. CASE local # NoTask
      <4>1. t = local
        BY <1>8, <3>2 DEF NextTask, Offered, AsksService
      <4>2. Goroutines = {}
        BY <2>1, <3>2, <4>1 DEF Goroutines, Running, TypeInv, LocalInv
      <4> QED BY <4>2, FS_EmptySet, DaemonAssumption
    <3> QED BY <3>1, <3>2
  <2>6. Pool!StartTask(t)
    BY <2>1, <2>3, <2>4, <2>5, PoolCounts DEF Pool!StartTask, At
  <2> QED BY <2>6 DEF Pool!PNext
<1>9. ASSUME NEW t \in Task, GoroutineEnds(t) PROVE Goal
  <2>1. CASE held = 0
    <3>1. unheld > 0
      <4>1. t \in Goroutines /\ GoroutinesHold = Cardinality(Goroutines)
        BY <1>9 DEF GoroutineEnds, Goroutines, Running, GoroutinesHold
      <4>2. Cardinality(Goroutines) \in Nat /\ Cardinality(Goroutines) # 0
        BY <4>1, FS_Subset, FS_CardinalityType, FS_EmptySet DEF Goroutines
      <4> QED BY <2>1, <4>1, <4>2
              DEF SlotInv, SlotsAccounted, LoopHolds, TypeInv, TypeOK
    <3>2. loop = "returned"
      BY <1>9, <3>1 DEF GoroutineEnds, SlotInv, SlotsAccounted
    <3> QED BY <1>9, <1>d, <1>k, <2>1, <3>2 DEF GoroutineEnds
  <2>2. CASE held # 0
    BY <1>9, <1>e, <2>2 DEF GoroutineEnds, Running
  <2> QED BY <2>1, <2>2
<1>10. ASSUME NEW t \in Task, ClientStep(t) \/ HandlerStep(t), ~GoroutineEnds(t) PROVE Goal
  <2>1. UNCHANGED loopVars /\ Running(t)
    BY <1>10, TaskKeeps
  <2>2. PICK s \in Stage \ {"queued", "over"} : stage' = [stage EXCEPT ![t] = s]
    BY <1>10, TaskKeeps
  <2>3. at' = at
    BY <2>1, <2>2 DEF At, Running, TypeInv, TypeOK
  <2> QED BY <1>s, <2>1, <2>3 DEF loopVars
<1>11. ASSUME NEW t \in Task, HeartStep(t) \/ Recall(t) PROVE Goal
  BY <1>11, <1>s, <1>k
  DEF HeartStep, Beat, BeatFails, HeartStops, BeatChanges, Recall, loopVars, taskVars
<1>12. CASE Finished \/ UNCHANGED vars
  BY <1>12, <1>s, <1>k DEF Finished, vars, loopVars, taskVars
<1> QED
  BY <1>1, <1>2, <1>3, <1>4, <1>5, <1>6, <1>7, <1>8, <1>9, <1>10, <1>11, <1>12
  DEF Next, LoopStep

\* The runner, with its slots, its early returns and its waiting loop, keeps the promise of
\* WorkerPool: no more than MaxWorkers tasks at a time, each started once, none after the
\* loop has closed, and no panic of the semaphore as long as it is open.
THEOREM RunnerIsPool ==
  ASSUME IsFiniteSet(Task)
  PROVE  Spec => PoolSpec
<1>1. Init => Pool!PInit
  BY PoolInit
<1>2. TypeInv /\ SlotInv /\ [Next]_vars => [Pool!PNext]_(Pool!pvars)
  BY PoolStep
<1> QED BY <1>1, <1>2, Invariant, PTL DEF Spec, PoolSpec, Pool!PSpec
=============================================================================
