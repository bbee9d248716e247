------------------------------ MODULE Semaphore ------------------------------
(***************************************************************************)
(* The counting semaphore ps::lib::cSemaphore of lib/cSemaphore.cpp, used  *)
(* through INSTANCE by the services that lend database connections.  Each  *)
(* operation holds mutex_ throughout, and a wait releases it, so each is   *)
(* one step; a sleeper is taken out of the condition variable by one       *)
(* notification and then tests the count again, in competition with every  *)
(* thread that has just arrived.                                           *)
(***************************************************************************)
EXTENDS Naturals

VARIABLES
  count_,     (* The permits nobody holds.                                 *)
  sleeping    (* The threads blocked in condition_.wait.                   *)

semVars == <<count_, sleeping>>

SemInit(count) ==
  /\ count_ = count
  /\ sleeping = {}

(* Fault: a waiting thread goes through without taking the permit.         *)
vWaitKeepsCount(thread) ==
  /\ thread \notin sleeping
  /\ count_ > 0
  /\ UNCHANGED semVars

(* vWait when the count is positive.                                       *)
vWait(thread) ==
  /\ thread \notin sleeping
  /\ count_ > 0
  /\ count_' = count_ - 1
  /\ UNCHANGED sleeping

(* vWait when the count is zero.                                           *)
vWaitBlocks(thread) ==
  /\ thread \notin sleeping
  /\ count_ = 0
  /\ sleeping' = sleeping \cup {thread}
  /\ UNCHANGED count_

(* Fault: only the first permit that comes back is announced.              *)
vNotifyFirst ==
  /\ count_' = count_ + 1
  /\ \/ (sleeping = {} \/ count_ > 0) /\ UNCHANGED sleeping
     \/ count_ = 0 /\ \E thread \in sleeping : sleeping' = sleeping \ {thread}

(* vNotify: one more permit, and notify_one.                               *)
vNotify ==
  /\ count_' = count_ + 1
  /\ \/ sleeping = {} /\ UNCHANGED sleeping
     \/ \E thread \in sleeping : sleeping' = sleeping \ {thread}
=============================================================================
