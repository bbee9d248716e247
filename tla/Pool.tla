-------------------------------- MODULE Pool --------------------------------
(***************************************************************************)
(* The resource pool ps::lib::cPool<T> of inc/cPool.h: a stack of idle     *)
(* items guarded by a mutex, and a condition variable on which poppers and *)
(* the synchronising thread block.  The module is used through INSTANCE by *)
(* the components that own a pool: the dispatcher (std::thread objects)    *)
(* and the dedicated service (database connections).                       *)
(*                                                                         *)
(* An operation holds mtx_ from its first to its last statement, and a wait*)
(* releases it.  vPush comes whole, for a pool whose users all take the    *)
(* mutex, and in its two halves, Stack and NotifyAll, for one whose size is*)
(* read, and which is destroyed, while a pusher may still be between them. *)
(* The condition variable is modelled as such: a thread whose predicate is *)
(* false joins waiting and does nothing until a notification takes it out; *)
(* it then tests the predicate again.                                      *)
(***************************************************************************)
EXTENDS Naturals, Sequences

VARIABLES
  cont_,    (* The idle items, the top of the stack is the last element.   *)
  waiting   (* The threads blocked in evt_.wait.                           *)

poolVars == <<cont_, waiting>>

(* The constructor pushes every item; nobody waits yet.                    *)
PoolInit(items) ==
  /\ cont_ = items
  /\ waiting = {}

Top == cont_[Len(cont_)]

(* A thread blocks because its predicate does not hold.                    *)
Wait(thread) ==
  /\ thread \notin waiting
  /\ waiting' = waiting \cup {thread}
  /\ UNCHANGED cont_

(* Fault: the top is read and never popped.                                *)
oPopPeeks(thread) ==
  /\ thread \notin waiting
  /\ cont_ # <<>>
  /\ UNCHANGED poolVars

(* oPop when the stack has an item: the caller gets Top.                   *)
oPop(thread) ==
  /\ thread \notin waiting
  /\ cont_ # <<>>
  /\ cont_' = SubSeq(cont_, 1, Len(cont_) - 1)
  /\ UNCHANGED waiting

(* oPop on an empty stack.                                                 *)
oPopBlocks(thread) ==
  /\ cont_ = <<>>
  /\ Wait(thread)

(* vPush, first half: the mutex is taken and the item is stacked ...       *)
Stack(item) ==
  /\ cont_' = Append(cont_, item)
  /\ UNCHANGED waiting

(* Fault: nobody is notified.                                              *)
NotifyNobody == UNCHANGED poolVars

(* ... second half: every waiting thread is notified, the mutex is free.   *)
NotifyAll ==
  /\ waiting' = {}
  /\ UNCHANGED cont_

(* vPush, both halves in one.                                              *)
vPush(item) ==
  /\ cont_' = Append(cont_, item)
  /\ waiting' = {}

(* vSynchronize tests the size before it takes the mutex.  The test is of  *)
(* no use while somebody writes the stack: it may come out either way.     *)
SizeReadsFull(size, written) == Len(cont_) >= size \/ written
SizeReadsShort(size, written) == Len(cont_) < size \/ written

(* With the mutex, it returns once every one of the size items is back ... *)
vSynchronizeReturns(thread, size) ==
  /\ thread \notin waiting
  /\ Len(cont_) = size
  /\ UNCHANGED poolVars

(* ... and blocks before that.                                             *)
vSynchronizeBlocks(thread, size) ==
  /\ Len(cont_) < size
  /\ Wait(thread)
=============================================================================
