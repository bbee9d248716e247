----------------------------- MODULE PooledTasks -----------------------------
(***************************************************************************)
(* Dispatcher and ConnPool together: xtru runs its tasks on iConcurrency   *)
(* threads, and a task borrows connections from a dedicated pool that has  *)
(* iConcurrency of them (cBootstrap passes the same number to both).  Here *)
(* a task takes one connection, the life of its client in ConnPool: that   *)
(* is so of the tasks that read a dictionary view or a table through one   *)
(* statement; a task that unloads a table with several of them (Unloader)  *)
(* takes several connections.  The member function returns, or raises,     *)
(* only when the client is through.                                        *)
(***************************************************************************)
EXTENDS Dispatcher

VARIABLES
  count_, sleeping, pool_, client, conn     (* Those of ConnPool.          *)

(* Fault: the pool has one connection less than there are threads.         *)
OneConnectionShort == iConcurrency - 1

iNumConn == iConcurrency

oSvc_ == INSTANCE ConnPool WITH Clients <- Tasks, cont_ <- pool_

svcVars == <<count_, sleeping, pool_, client, conn>>
allVars == <<vars, svcVars>>

-----------------------------------------------------------------------------
PooledInit == Init /\ oSvc_!Init

PooledMain == Main /\ UNCHANGED svcVars

(* oGetCon and vRelCon, called by the running task.                        *)
UseConnection(t) ==
  /\ ~Stopped
  /\ task[t] = "running"
  /\ oSvc_!Client(t)
  /\ UNCHANGED vars

(* The statement has been executed, fetched and closed.                    *)
TaskReturns(t) ==
  /\ client[t] = "done"
  /\ Return(t)
  /\ UNCHANGED svcVars

(* vCheckout raised, or the statement did and gave its connection back.    *)
TaskRaises(t) ==
  /\ client[t] \in {"done", "failed"}
  /\ Raise(t)
  /\ UNCHANGED svcVars

(* The rest of vRun needs no connection.                                   *)
Recycle(t) ==
  /\ Delete(t) \/ Detach(t) \/ PushThread(t) \/ PushEnds(t)
  /\ UNCHANGED svcVars

PooledWorker(t) ==
  UseConnection(t) \/ TaskReturns(t) \/ TaskRaises(t) \/ Recycle(t)

PooledBreak == vBreak /\ UNCHANGED svcVars

PooledNext == PooledMain \/ (\E t \in Tasks : PooledWorker(t)) \/ PooledBreak

(* As for the two components: threads run, calls of the database end.      *)
PooledFairness ==
  /\ WF_allVars(PooledMain)
  /\ \A t \in Tasks : WF_allVars(PooledWorker(t))

PooledSpec == PooledInit /\ [][PooledNext]_allVars
PooledFairSpec == PooledSpec /\ PooledFairness

-----------------------------------------------------------------------------
(* Properties.                                                             *)

(* As many connections as threads: a task waits for a connection only when *)
(* the failed checkout of another has cost the pool one.                   *)
WaitsOnlyForTheLost == sleeping # {} => oSvc_!In("failed") # {}

(* A connection is only taken for a task that occupies a thread.           *)
ConnectionsBelongToThreads ==
  \A t \in Tasks : conn[t] # oSvc_!Nobody /\ client[t] # "failed"
                     => t \in Busy

(* vSynchronize returns unless every connection has been lost, or a thread *)
(* could not be made; and then too every task it started comes to its end. *)
CallReturnsOrPoolIsLost ==
  <>(Stopped \/ Hangs \/ Cardinality(oSvc_!In("failed")) = iNumConn)

-----------------------------------------------------------------------------
(* The inductive invariant behind WaitsOnlyForTheLost.                     *)

LoanTypes ==
  /\ count_ \in Nat
  /\ client \in [Tasks -> {"idle", "permitted", "checkout", "using",
                           "pushed", "done", "failed"}]
  /\ \A t \in sleeping : t \in Tasks /\ client[t] = "idle"

(* The tasks that a permit has been given to; a failure keeps it.          *)
Holders == {t \in Tasks : client[t] \notin {"idle", "done"}}

(* The running tasks that are about to test the count.                     *)
Awake == {t \in Tasks : task[t] = "running" /\ client[t] = "idle"} \ sleeping

PermitsAreCounted == count_ + Cardinality(Holders) = iConcurrency

(* Who sleeps, or has a permit and is not through with it, is running.     *)
LoansAreOfRunningTasks ==
  \A t \in Tasks :
    t \in sleeping \/ client[t] \notin {"idle", "done", "failed"}
      => task[t] = "running"

(* Somebody who runs will come for each free permit.                       *)
PermitsAreAskedFor == sleeping # {} => count_ <= Cardinality(Awake)

PooledInv ==
  /\ LoanTypes
  /\ PermitsAreCounted
  /\ LoansAreOfRunningTasks
  /\ PermitsAreAskedFor
=============================================================================
