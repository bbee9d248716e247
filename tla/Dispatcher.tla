----------------------------- MODULE Dispatcher -----------------------------
(***************************************************************************)
(* ps::lib::vSynchronize and ps::lib::cDispatcher of inc/cDispatcher.h:    *)
(* the main thread takes the tasks of a queue one by one and runs each on  *)
(* a std::thread object taken from a pool of iConcurrency of them; the     *)
(* thread destroys its task, detaches its own thread object and pushes it  *)
(* back.  The process-wide return code cRtn is part of the state, because  *)
(* the loop reads and writes it and the signal thread cancels through it;  *)
(* so is the end of main, which turns the outcome into an exit code.       *)
(*                                                                         *)
(* Two threads meet without a lock in the hand-over of a thread object:    *)
(* *oThr = std::thread(...) starts the thread before it moves the handle   *)
(* into *oThr, and the started thread asks oThr->joinable().  Spawn and    *)
(* Assign are therefore two steps.  They meet again at the end: the main   *)
(* thread reads the size of the pool without its mutex, and destroys the   *)
(* pool next, while a thread may still be in vPush, which is two steps.    *)
(***************************************************************************)
EXTENDS Naturals, Sequences, FiniteSets

CONSTANTS
  iConcurrency,   (* The number of std::thread objects in thrp_.           *)
  NumTasks        (* The number of tasks in oTasks.                        *)

ASSUME ConcurrencyAssumption == iConcurrency \in Nat \ {0}
ASSUME TasksAssumption == NumTasks \in Nat

Slots == 1..iConcurrency
Tasks == 1..NumTasks
None  == 0
main  == "main"

(* The exception of a thread that could not be made.                       *)
Refused == NumTasks + 1

VARIABLES
  pc,           (* Where the main thread is.                               *)
  head,         (* The task at the head of oTasks; NumTasks + 1: empty.    *)
  oThr,         (* The thread object the main thread took from the pool.   *)
  cont_,        (* thrp_: the idle thread objects ...                      *)
  waiting,      (* ... and who waits on its condition variable.            *)
  deleted,      (* The thread objects that ~cPool has deleted.             *)
  joinable,     (* oThr->joinable() of every thread object.                *)
  task,         (* The progress of every task.                             *)
  thr,          (* The thread object a started task was given.             *)
  ep,           (* The exception_ptr of vSynchronize: a task or None.      *)
  thrown,       (* The exception vSynchronize leaves with.                 *)
  rtn_,         (* cRtn: the return code of the process ...                *)
  mayContinue,  (* ... and its flag cont_, read by iCotinue.               *)
  raised,       (* History: the tasks that raised an exception.            *)
  lateStarts    (* History: tasks started after a cancellation or a raise. *)

poolVars == <<cont_, waiting, deleted>>
rtnVars  == <<rtn_, mayContinue>>
histVars == <<raised, lateStarts>>
vars == <<pc, head, oThr, poolVars, joinable, task, thr, ep, thrown, rtnVars,
          histVars>>

thrp_ == INSTANCE Pool

(* The exception_ptr and its mutex are destroyed before the scope exit of  *)
(* vSynchronize waits for the running tasks.                               *)
EpAlive == pc \in {"test", "pop", "spawn", "assign", "check", "leave"}

(* A task whose entity still exists, one that has its thread object, one   *)
(* whose thread refers to the frame of vSynchronize or to its pool.        *)
Active == {t \in Tasks : task[t] \in {"running", "destroy"}}
Owners == {t \in Tasks : task[t] \in {"running", "destroy", "detach", "push"}}
Busy   == {t \in Tasks : task[t] \in {"running", "destroy", "detach", "push",
                                      "notify"}}

(* thrp_.mtx_: a pusher has it from the stacking to the end of vPush.      *)
Unlocked == \A t \in Tasks : task[t] # "notify"

(* A pusher that has the mutex may be writing the stack.                   *)
Written == Unlocked /\ \E t \in Tasks : task[t] = "push"

Stopped == pc \in {"exit", "terminated"}

-----------------------------------------------------------------------------
Init ==
  /\ pc = "test"
  /\ head = 1
  /\ oThr = None
  /\ thrp_!PoolInit([i \in Slots |-> i])
  /\ deleted = {}
  /\ joinable = [s \in Slots |-> FALSE]
  /\ task = [t \in Tasks |-> "queued"]
  /\ thr = [t \in Tasks |-> None]
  /\ ep = None
  /\ thrown = None
  /\ rtn_ = 0
  /\ mayContinue = TRUE
  /\ raised = {}
  /\ lateStarts = 0

-----------------------------------------------------------------------------
(* The main thread.                                                        *)

(* The condition of the loop, tested before oPop may block.                *)
TestContinues ==
  /\ pc = "test"
  /\ head \in Tasks
  /\ mayContinue
  /\ pc' = "pop"
  /\ UNCHANGED <<head, oThr, poolVars, joinable, task, thr, ep, thrown,
                 rtnVars, histVars>>

TestLeaves ==
  /\ pc = "test"
  /\ head \notin Tasks \/ ~mayContinue
  /\ pc' = "leave"
  /\ UNCHANGED <<head, oThr, poolVars, joinable, task, thr, ep, thrown,
                 rtnVars, histVars>>

PopThread ==
  /\ pc = "pop"
  /\ Unlocked
  /\ thrp_!oPop(main)
  /\ oThr' = thrp_!Top
  /\ pc' = "spawn"
  /\ UNCHANGED <<head, deleted, joinable, task, thr, ep, thrown, rtnVars, histVars>>

PopBlocks ==
  /\ pc = "pop"
  /\ Unlocked
  /\ thrp_!oPopBlocks(main)
  /\ UNCHANGED <<pc, head, oThr, deleted, joinable, task, thr, ep, thrown, rtnVars,
                 histVars>>

(* Fault: the task stays in the queue.                                     *)
SpawnKeepsHead ==
  /\ pc = "spawn"
  /\ task' = [task EXCEPT ![head] = "running"]
  /\ thr' = [thr EXCEPT ![head] = oThr]
  /\ lateStarts' = IF ~mayContinue \/ ep # None THEN lateStarts + 1
                                                ELSE lateStarts
  /\ pc' = "assign"
  /\ UNCHANGED <<head, oThr, poolVars, joinable, ep, thrown, rtnVars, raised>>

(* std::thread(vRun, new cDispatcher(oTasks.pop_front()), ...): the task   *)
(* leaves the queue and its thread runs.                                   *)
Spawn ==
  /\ pc = "spawn"
  /\ head' = head + 1
  /\ task' = [task EXCEPT ![head] = "running"]
  /\ thr' = [thr EXCEPT ![head] = oThr]
  /\ lateStarts' = IF ~mayContinue \/ ep # None THEN lateStarts + 1
                                                ELSE lateStarts
  /\ pc' = "assign"
  /\ UNCHANGED <<oThr, poolVars, joinable, ep, thrown, rtnVars, raised>>

(* No thread can be made, or no cDispatcher: the exception leaves the loop,*)
(* and with it the thread object that was popped and the task that was     *)
(* taken from the queue, which nobody destroys.                            *)
SpawnRaises ==
  /\ pc = "spawn"
  /\ head' = head + 1
  /\ task' = [task EXCEPT ![head] = "leaked"]
  /\ thrown' = Refused
  /\ pc' = "sync"
  /\ UNCHANGED <<oThr, poolVars, joinable, thr, ep, rtnVars, histVars>>

(* The move assignment to *oThr; on a joinable std::thread it terminates   *)
(* the process.                                                            *)
Assign ==
  /\ pc = "assign"
  /\ IF joinable[oThr]
       THEN /\ pc' = "terminated"
            /\ UNCHANGED joinable
       ELSE /\ pc' = "check"
            /\ joinable' = [joinable EXCEPT ![oThr] = TRUE]
  /\ UNCHANGED <<head, oThr, poolVars, task, thr, ep, thrown, rtnVars,
                 histVars>>

(* Fault: a raised exception does not cancel the loop.                     *)
CheckEpIgnores ==
  /\ pc = "check"
  /\ pc' = "test"
  /\ UNCHANGED <<head, oThr, poolVars, joinable, task, thr, ep, thrown,
                 rtnVars, histVars>>

(* The locked block at the end of the loop body: rtn_.vOrValue.            *)
CheckEp ==
  /\ pc = "check"
  /\ rtn_' = IF ep # None THEN 1 ELSE rtn_
  /\ mayContinue' = (mayContinue /\ rtn_' = 0)
  /\ pc' = "test"
  /\ UNCHANGED <<head, oThr, poolVars, joinable, task, thr, ep, thrown,
                 histVars>>

(* if (ep) rethrow: the locals are destroyed, the scope exit comes next.   *)
Leave ==
  /\ pc = "leave"
  /\ thrown' = ep
  /\ pc' = "sync"
  /\ UNCHANGED <<head, oThr, poolVars, joinable, task, thr, ep, rtnVars,
                 histVars>>

(* The scope exit calls thrp_.vSynchronize, which reads the size ...       *)
SynchronizeTests ==
  /\ pc = "sync"
  /\ \/ thrp_!SizeReadsFull(iConcurrency, Written) /\ pc' = "destruct"
     \/ thrp_!SizeReadsShort(iConcurrency, Written) /\ pc' = "wait"
  /\ UNCHANGED <<head, oThr, poolVars, joinable, task, thr, ep, thrown,
                 rtnVars, histVars>>

(* ... and may have to wait, with the mutex, for all the thread objects.   *)
Synchronize ==
  /\ pc = "wait"
  /\ Unlocked
  /\ thrp_!vSynchronizeReturns(main, iConcurrency)
  /\ pc' = "destruct"
  /\ UNCHANGED <<head, oThr, deleted, joinable, task, thr, ep, thrown, rtnVars,
                 histVars>>

SynchronizeBlocks ==
  /\ pc = "wait"
  /\ Unlocked
  /\ thrp_!vSynchronizeBlocks(main, iConcurrency)
  /\ UNCHANGED <<pc, head, oThr, deleted, joinable, task, thr, ep, thrown,
                 rtnVars, histVars>>

(* Fault: what happens to be in the pool is deleted, and no more.          *)
DestructDrains ==
  /\ pc = "destruct"
  /\ Unlocked
  /\ thrp_!oPop(main)
  /\ deleted' = deleted \cup {thrp_!Top}
  /\ pc' = CASE joinable[thrp_!Top] -> "terminated"
             [] ~joinable[thrp_!Top] /\ cont_' = <<>> -> "returned"
             [] OTHER -> "destruct"
  /\ UNCHANGED <<head, oThr, joinable, task, thr, ep, thrown, rtnVars,
                 histVars>>

(* ~cPool pops iConcurrency thread objects, one by one, and deletes each;  *)
(* deleting a joinable one terminates the process.                         *)
Destruct ==
  /\ pc = "destruct"
  /\ Unlocked
  /\ thrp_!oPop(main)
  /\ deleted' = deleted \cup {thrp_!Top}
  /\ pc' = CASE joinable[thrp_!Top] -> "terminated"
             [] /\ ~joinable[thrp_!Top]
                /\ Cardinality(deleted') = iConcurrency -> "returned"
             [] OTHER -> "destruct"
  /\ UNCHANGED <<head, oThr, joinable, task, thr, ep, thrown, rtnVars,
                 histVars>>

DestructBlocks ==
  /\ pc = "destruct"
  /\ Unlocked
  /\ thrp_!oPopBlocks(main)
  /\ UNCHANGED <<pc, head, oThr, deleted, joinable, task, thr, ep, thrown,
                 rtnVars, histVars>>

(* The end of main: the catch clause of xtru.cpp, and return rc.           *)
Exit ==
  /\ pc = "returned"
  /\ rtn_' = IF thrown # None THEN 1 ELSE rtn_
  /\ mayContinue' = (mayContinue /\ rtn_' = 0)
  /\ pc' = "exit"
  /\ UNCHANGED <<head, oThr, poolVars, joinable, task, thr, ep, thrown,
                 histVars>>

-----------------------------------------------------------------------------
(* The thread of task t: cDispatcher::vRun.                                *)

Move(t, from, to) ==
  /\ ~Stopped
  /\ task[t] = from
  /\ task' = [task EXCEPT ![t] = to]
  /\ UNCHANGED <<head, oThr, thr, thrown, lateStarts>>

(* The member function of the task returns ...                             *)
Return(t) ==
  /\ Move(t, "running", "destroy")
  /\ UNCHANGED <<pc, poolVars, joinable, ep, rtnVars, raised>>

(* Fault: a later exception replaces the earliest.                         *)
RaiseReplaces(t) ==
  /\ Move(t, "running", "destroy")
  /\ ep' = IF EpAlive THEN t ELSE ep
  /\ raised' = raised \cup {t}
  /\ UNCHANGED <<pc, poolVars, joinable, rtnVars>>

(* ... or raises, and the first exception is kept under the lock; nothing  *)
(* is left to keep it in once ep is dead.                                  *)
Raise(t) ==
  /\ Move(t, "running", "destroy")
  /\ ep' = IF EpAlive /\ ep = None THEN t ELSE ep
  /\ raised' = raised \cup {t}
  /\ UNCHANGED <<pc, poolVars, joinable, rtnVars>>

(* Fault: the thread object is recycled while the task is destroyed.       *)
DeleteAndPush(t) ==
  /\ Move(t, "destroy", "detach")
  /\ Unlocked
  /\ thrp_!vPush(thr[t])
  /\ UNCHANGED <<pc, deleted, joinable, ep, rtnVars, raised>>

(* delete this: the entity of the task is destroyed.                       *)
Delete(t) ==
  /\ Move(t, "destroy", "detach")
  /\ UNCHANGED <<pc, poolVars, joinable, ep, rtnVars, raised>>

(* if (oThr->joinable()) oThr->detach().                                   *)
Detach(t) ==
  /\ Move(t, "detach", "push")
  /\ joinable' = [joinable EXCEPT ![thr[t]] = FALSE]
  /\ UNCHANGED <<pc, poolVars, ep, rtnVars, raised>>

(* thrp.vPush(oThr): the thread object is stacked, then whoever waits for  *)
(* one is notified and the mutex released.                                 *)
PushThread(t) ==
  /\ Move(t, "push", "notify")
  /\ Unlocked
  /\ thrp_!Stack(thr[t])
  /\ UNCHANGED <<pc, deleted, joinable, ep, rtnVars, raised>>

PushEnds(t) ==
  /\ Move(t, "notify", "ended")
  /\ thrp_!NotifyAll
  /\ UNCHANGED <<pc, deleted, joinable, ep, rtnVars, raised>>

Worker(t) ==
  \/ Return(t) \/ Raise(t) \/ Delete(t) \/ Detach(t)
  \/ PushThread(t) \/ PushEnds(t)

-----------------------------------------------------------------------------
(* cRtn::vBreak, called by the signal thread on SIGINT or SIGTERM, by a    *)
(* fetch that meets ORA-01013 and by a failed child process of mpx.        *)
vBreak ==
  /\ ~Stopped
  /\ mayContinue
  /\ mayContinue' = FALSE
  /\ UNCHANGED <<pc, head, oThr, poolVars, joinable, task, thr, ep, thrown,
                 rtn_, histVars>>

Main ==
  \/ TestContinues \/ TestLeaves
  \/ PopThread \/ PopBlocks
  \/ Spawn \/ SpawnRaises \/ Assign \/ CheckEp \/ Leave
  \/ SynchronizeTests \/ Synchronize \/ SynchronizeBlocks
  \/ Destruct \/ DestructBlocks \/ Exit

(* The scope exit waits for a thread object that nobody has: nothing is    *)
(* left that could end the call.                                           *)
Hangs == thrown = Refused /\ Busy = {}

(* The process is over, or hangs: nothing happens any more.                *)
Over == (Stopped \/ (Hangs /\ waiting = {main})) /\ UNCHANGED vars

Next ==
  \/ Main
  \/ \E t \in Tasks : Worker(t)
  \/ vBreak
  \/ Over

(* The operating system runs every runnable thread, whoever asks for a free*)
(* mutex gets it, and every call of a task's member function ends; signals *)
(* need not arrive.                                                        *)
Fairness ==
  /\ WF_vars(Main)
  /\ \A t \in Tasks : WF_vars(Worker(t))

Spec == Init /\ [][Next]_vars
FairSpec == Spec /\ Fairness

-----------------------------------------------------------------------------
(* Properties.                                                             *)

(* The states the dispatcher's variables range over.                       *)
TypeOK ==
  /\ pc \in {"test", "pop", "spawn", "assign", "check", "leave", "sync",
             "wait", "destruct", "returned", "exit", "terminated"}
  /\ head \in Nat
  /\ oThr \in Slots \cup {None}
  /\ pc \in {"spawn", "assign"} => oThr # None
  /\ cont_ \in Seq(Slots)
  /\ waiting \in SUBSET {main}
  /\ deleted \in SUBSET Slots
  /\ joinable \in [Slots -> BOOLEAN]
  /\ task \in [Tasks -> {"queued", "leaked", "running", "destroy", "detach",
                         "push", "notify", "ended"}]
  /\ thr \in [Tasks -> Slots \cup {None}]
  /\ \A t \in Busy : thr[t] # None
  /\ ep \in Tasks \cup {None}
  /\ thrown \in Tasks \cup {None, Refused}
  /\ rtn_ \in {0, 1}
  /\ mayContinue \in BOOLEAN
  /\ raised \in SUBSET Tasks
  /\ lateStarts \in Nat

(* "The parallel degree not exceeding the instructed iConcurrency is kept":*)
(* no interleaving of recycling threads and spawning new ones lets more    *)
(* than iConcurrency tasks occupy a thread at the same time.               *)
BoundedConcurrency == Cardinality(Busy) <= iConcurrency

(* A thread object belongs to one task at a time: until its task has been  *)
(* destroyed and it has been pushed back it is neither in the pool nor in  *)
(* the hands of another task or of the main thread about to spawn.         *)
ExclusiveThreads ==
  /\ \A t, u \in Busy : thr[t] = thr[u] => t = u
  /\ \A t \in Owners : \A i \in DOMAIN cont_ : cont_[i] # thr[t]
  /\ pc = "spawn" => \A t \in Busy : thr[t] # oThr

(* When vSynchronize has returned, by its end or by an exception, no task  *)
(* it started still runs, exists, holds a thread or is in vPush, though the*)
(* size of the pool was read without its mutex: ~cPool waits for every     *)
(* thread object, and for the mutex after the last of them was stacked.    *)
NothingOutlivesTheCall == pc \in {"returned", "exit"} => Busy = {}

(* A cancellation or an exception lets at most one further task start: the *)
(* one whose loop condition was tested before oPop blocked.                *)
AtMostOneLateStart == lateStarts <= 1

(* A call that is neither cancelled nor failed has run the whole queue.    *)
CompleteUnlessCancelled ==
  pc = "returned" /\ mayContinue /\ thrown = None
    => \A t \in Tasks : task[t] = "ended"

(* The exception the caller gets is one a task raised, and it is the       *)
(* earliest: once set, the pointer is never replaced.                      *)
EarliestExceptionWins ==
  [][/\ ep # None => ep' = ep
     /\ ep' # ep => raised = {} /\ raised' = {ep'}]_vars

(* The call returns, or the process is terminated by the thread hand-over: *)
(* no lost wake-up, from a task that ends between a test and the wait or   *)
(* between the two halves of vPush, makes it wait for ever.  It does wait  *)
(* for ever once a thread could not be made, against the documentation of  *)
(* oTasks ("blocks until the number of elements is zero"): the thread      *)
(* object it was to have never comes back.  Every task it started comes to *)
(* its end then, too.                                                      *)
CallReturns == <>(Stopped \/ Hangs)

(* Dispatcher implements the executor its callers rely on: a task is       *)
(* active while its entity exists, and the call is over once it returned.  *)
StatusOf(progress) ==
  CASE progress \in {"queued", "leaked"} -> "pending"
    [] progress \in {"running", "destroy"} -> "active"
    [] OTHER -> "done"

execStatus == [t \in Tasks |-> StatusOf(task[t])]
execClosed == pc \in {"returned", "exit"}

Exec == INSTANCE Executor WITH
  Width <- iConcurrency, status <- execStatus, closed <- execClosed

ExecutorSpec == Exec!ExecSpec

(* The documentation of vRun says of oThr: "When entering this function is *)
(* joinable state.  The state is reversed when the task is completed" - a  *)
(* thread object in the pool is never joinable.  The code breaks it.       *)
PooledThreadsAreDetached ==
  \A i \in DOMAIN cont_ : ~joinable[cont_[i]]

-----------------------------------------------------------------------------
(* The inductive invariant behind the safety properties.                   *)

(* Every thread object is in one place only, and nobody has a deleted one; *)
(* the mutex of the pool has one holder.                                   *)
ThreadsInOnePlace ==
  /\ \A i, j \in DOMAIN cont_ : cont_[i] = cont_[j] => i = j
  /\ pc = "spawn" => \A i \in DOMAIN cont_ : cont_[i] # oThr
  /\ ExclusiveThreads
  /\ \A i \in DOMAIN cont_ : cont_[i] \notin deleted
  /\ \A t \in Owners : thr[t] \notin deleted
  /\ deleted # {} => pc \in {"destruct", "returned", "exit", "terminated"}
  /\ \A t, u \in Tasks : task[t] = "notify" /\ task[u] = "notify" => t = u

(* The tasks are taken from the queue in order, and none is leaked but in a*)
(* call that could not make a thread.                                      *)
QueueInOrder ==
  /\ head \in 1..(NumTasks + 1)
  /\ \A t \in Tasks : task[t] = "queued" <=> head <= t
  /\ \A t \in Tasks : task[t] = "leaked" => thrown = Refused
  /\ thrown = Refused => ~EpAlive
  /\ pc \in {"pop", "spawn"} => head \in Tasks
  /\ pc \in {"leave", "sync", "wait", "destruct", "returned"}
       => head = NumTasks + 1 \/ ~mayContinue \/ thrown = Refused

(* A late start is followed by the end of the loop.                        *)
LateStartEndsTheLoop ==
  \/ lateStarts = 0
  \/ /\ lateStarts = 1
     /\ pc \notin {"pop", "spawn"}
     /\ (pc \in {"assign", "check", "terminated"} /\ ep # None) \/ ~mayContinue

(* While ep lives it holds an exception as soon as a task has raised one.  *)
EpHoldsTheFirst == EpAlive /\ ep = None => raised = {}

DispatcherInv ==
  /\ ThreadsInOnePlace
  /\ QueueInOrder
  /\ LateStartEndsTheLoop
  /\ EpHoldsTheFirst
  /\ NothingOutlivesTheCall
=============================================================================
