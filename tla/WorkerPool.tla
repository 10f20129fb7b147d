----------------------------- MODULE WorkerPool -----------------------------
(***************************************************************************)
(* What the runner promises to whoever hands it tasks.  A task is started  *)
(* at most once and by an open pool only; never more than MaxWorkers run   *)
(* at a time; the pool does not open again once it is closed, and it does  *)
(* not die before it is closed.                                            *)
(***************************************************************************)
EXTENDS Integers, FiniteSets

CONSTANTS Task, MaxWorkers

VARIABLES at,     \* each task: "waiting", "running" or "over"
          open,   \* tasks are taken
          alive   \* the process runs

pvars == <<at, open, alive>>

Working == {t \in Task : at[t] = "running"}

PInit ==
  /\ at = [t \in Task |-> "waiting"]
  /\ open = TRUE
  /\ alive = TRUE

StartTask(t) ==
  /\ open /\ alive
  /\ at[t] = "waiting"
  /\ Cardinality(Working) < MaxWorkers
  /\ at' = [at EXCEPT ![t] = "running"]
  /\ UNCHANGED <<open, alive>>

\* The way a task ends may close the pool.
EndTask(t) ==
  /\ alive
  /\ at[t] = "running"
  /\ at' = [at EXCEPT ![t] = "over"]
  /\ open' \in {open, FALSE}
  /\ UNCHANGED alive

Close ==
  /\ open
  /\ open' = FALSE
  /\ UNCHANGED <<at, alive>>

\* Whatever is running then is never over.
Die ==
  /\ alive
  /\ ~open
  /\ alive' = FALSE
  /\ UNCHANGED <<at, open>>

PNext == (\E t \in Task : StartTask(t) \/ EndTask(t)) \/ Close \/ Die

PSpec == PInit /\ [][PNext]_pvars
=============================================================================
