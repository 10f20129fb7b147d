------------------------------ MODULE MCDaemon ------------------------------
(* The hello, two tasks of one call and of a full sync; two workers, so that the *)
(* loop has to wait for one.  Durations are in seconds and wrap at 16.           *)
EXTENDS Daemon

CONSTANTS hello, grant, sync

TaskKind == [t \in Task |-> CASE t = hello -> "hello" [] t = grant -> "call"
                              [] t = sync -> "sync"]
=============================================================================
