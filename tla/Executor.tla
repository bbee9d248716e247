------------------------------ MODULE Executor ------------------------------
(***************************************************************************)
(* What a caller of vSynchronize relies on, whatever threads and pools do: *)
(* tasks are started in the order of the queue, each at most once and at   *)
(* most Width at a time, and the call is over only when nothing it started *)
(* is still alive.  Dispatcher implements this specification.              *)
(***************************************************************************)
EXTENDS Naturals, FiniteSets

CONSTANTS Width, NumTasks

VARIABLES
  status,   (* Of every task: pending, active or done.                     *)
  closed    (* The call has returned.                                      *)

execVars == <<status, closed>>

Jobs == 1..NumTasks
Running == {t \in Jobs : status[t] = "active"}

ExecInit ==
  /\ status = [t \in Jobs |-> "pending"]
  /\ closed = FALSE

StartTask(t) ==
  /\ ~closed
  /\ status[t] = "pending"
  /\ \A u \in Jobs : u < t => status[u] # "pending"
  /\ Cardinality(Running) < Width
  /\ status' = [status EXCEPT ![t] = "active"]
  /\ UNCHANGED closed

FinishTask(t) ==
  /\ status[t] = "active"
  /\ status' = [status EXCEPT ![t] = "done"]
  /\ UNCHANGED closed

CloseCall ==
  /\ ~closed
  /\ Running = {}
  /\ closed' = TRUE
  /\ UNCHANGED status

ExecNext ==
  \/ \E t \in Jobs : StartTask(t) \/ FinishTask(t)
  \/ CloseCall

ExecSpec == ExecInit /\ [][ExecNext]_execVars
=============================================================================
