------------------------- MODULE PooledTasksProofs -------------------------
(***************************************************************************)
(* The proofs about Dispatcher, for every iConcurrency and every NumTasks, *)
(* and about PooledTasks: why a task that waits for a connection waits for *)
(* one that was lost.                                                      *)
(***************************************************************************)
EXTENDS PooledTasks, FiniteSetTheorems, TLAPS

(* --- Dispatcher -------------------------------------------------------- *)

(* Starting a task keeps the state well typed.                             *)
LEMMA SpawnType == TypeOK /\ Spawn => TypeOK'
<1> SUFFICES ASSUME TypeOK, Spawn PROVE TypeOK'
  OBVIOUS
<1>1. head' \in Nat
  BY DEF TypeOK, Spawn
<1>2. lateStarts' \in Nat
  BY DEF TypeOK, Spawn
<1>3. task' \in [Tasks -> {"queued", "leaked", "running", "destroy", "detach",
                           "push", "notify", "ended"}]
  BY DEF TypeOK, Spawn
<1>4. thr' \in [Tasks -> Slots \cup {None}]
  BY DEF TypeOK, Spawn
<1>5. ASSUME NEW t \in Busy' PROVE thr'[t] # None
  BY DEF TypeOK, Spawn, Busy
<1> QED
  BY <1>1, <1>2, <1>3, <1>4, <1>5
     DEF TypeOK, Spawn, poolVars, rtnVars

(* So does failing to start one.                                           *)
LEMMA SpawnRaisesType == TypeOK /\ SpawnRaises => TypeOK'
<1> SUFFICES ASSUME TypeOK, SpawnRaises PROVE TypeOK'
  OBVIOUS
<1>1. head' \in Nat
  BY DEF TypeOK, SpawnRaises
<1>2. task' \in [Tasks -> {"queued", "leaked", "running", "destroy", "detach",
                           "push", "notify", "ended"}]
  BY DEF TypeOK, SpawnRaises
<1>3. Busy' \subseteq Busy
  BY DEF TypeOK, SpawnRaises, Busy
<1>4. /\ UNCHANGED <<oThr, cont_, waiting, deleted, joinable, thr, ep, rtn_,
                     mayContinue, raised, lateStarts>>
      /\ thrown' = Refused /\ pc' = "sync"
  BY DEF SpawnRaises, poolVars, rtnVars, histVars
<1>5. \A t \in Busy' : thr'[t] # None
  BY <1>3, <1>4 DEF TypeOK
<1> QED
  BY <1>1, <1>2, <1>4, <1>5 DEF TypeOK

(* A step of a worker keeps the state well typed.                          *)
LEMMA WorkerType == ASSUME NEW t \in Tasks, TypeOK, Worker(t)
                    PROVE  TypeOK'
<1> USE DEF TypeOK, Busy, poolVars, rtnVars, Move
<1>1. CASE Return(t)
  BY <1>1 DEF Return
<1>2. CASE Raise(t)
  BY <1>2 DEF Raise
<1>3. CASE Delete(t)
  BY <1>3 DEF Delete
<1>4. CASE Detach(t)
  BY <1>4 DEF Detach
<1>5. CASE PushThread(t)
  <2>1. thr[t] \in Slots
    BY <1>5 DEF PushThread
  <2> QED
    BY <1>5, <2>1 DEF PushThread, thrp_!Stack
<1>6. CASE PushEnds(t)
  BY <1>6 DEF PushEnds, thrp_!NotifyAll
<1> QED
  BY <1>1, <1>2, <1>3, <1>4, <1>5, <1>6 DEF Worker

(* Type correctness of the dispatcher's state.                             *)
THEOREM TypeCorrect == Spec => []TypeOK
<1>1. Init => TypeOK
  BY ConcurrencyAssumption, TasksAssumption
     DEF Init, TypeOK, Busy, thrp_!PoolInit, Slots, Tasks, None
<1>2. TypeOK /\ [Next]_vars => TypeOK'
  <2> SUFFICES ASSUME TypeOK, [Next]_vars PROVE TypeOK'
    OBVIOUS
  <2> USE DEF TypeOK, Busy, poolVars, rtnVars, histVars
  <2>1. CASE TestContinues \/ TestLeaves
    BY <2>1 DEF TestContinues, TestLeaves
  <2>2. CASE Leave
    BY <2>2 DEF Leave
  <2>3. CASE CheckEp \/ Exit
    BY <2>3 DEF CheckEp, Exit
  <2>4. CASE vBreak
    BY <2>4 DEF vBreak
  <2>5. CASE PopThread
    <3>1. Len(cont_) \in Nat \ {0} /\ thrp_!Top \in Slots
      BY <2>5 DEF PopThread, thrp_!oPop, thrp_!Top
    <3>2. SubSeq(cont_, 1, Len(cont_) - 1) \in Seq(Slots)
      BY <3>1
    <3>3. None \notin Slots
      BY DEF None, Slots
    <3> QED
      BY <2>5, <3>1, <3>2, <3>3 DEF PopThread, thrp_!oPop, thrp_!Top
  <2>6. CASE PopBlocks \/ SynchronizeBlocks \/ DestructBlocks
    BY <2>6 DEF PopBlocks, SynchronizeBlocks, DestructBlocks, thrp_!oPopBlocks,
                thrp_!vSynchronizeBlocks, thrp_!Wait
  <2>7. CASE Spawn
    BY <2>7, SpawnType
  <2>8. CASE Assign
    BY <2>8 DEF Assign
  <2>9. CASE SynchronizeTests \/ Synchronize
    BY <2>9 DEF SynchronizeTests, Synchronize, thrp_!vSynchronizeReturns,
                thrp_!poolVars
  <2>10. CASE Destruct
    <3>1. Len(cont_) \in Nat \ {0} /\ thrp_!Top \in Slots
      BY <2>10 DEF Destruct, thrp_!oPop, thrp_!Top
    <3>2. SubSeq(cont_, 1, Len(cont_) - 1) \in Seq(Slots)
      BY <3>1
    <3>3. pc' \in {"terminated", "returned", "destruct"}
      BY <2>10 DEF Destruct
    <3> QED
      BY <2>10, <3>1, <3>2, <3>3 DEF Destruct, thrp_!oPop
  <2>11. ASSUME NEW t \in Tasks, Worker(t) PROVE TypeOK'
    BY <2>11, WorkerType
  <2>12. CASE UNCHANGED vars
    BY <2>12 DEF vars
  <2>13. CASE SpawnRaises
    BY <2>13, SpawnRaisesType
  <2> QED
    BY <2>1, <2>2, <2>3, <2>4, <2>5, <2>6, <2>7, <2>8, <2>9, <2>10, <2>11,
       <2>12, <2>13 DEF Next, Main, Over
<1> QED
  BY <1>1, <1>2, PTL DEF Spec

-----------------------------------------------------------------------------
(* Once iConcurrency different thread objects are deleted, all of them are.*)
LEMMA AllDeleted ==
  ASSUME NEW S \in SUBSET Slots, Cardinality(S) = iConcurrency
  PROVE  S = Slots
<1>1. IsFiniteSet(Slots) /\ Cardinality(Slots) = iConcurrency
  BY FS_Interval, ConcurrencyAssumption DEF Slots
<1> QED
  BY <1>1, FS_Subset

(* Taking the top of the pool leaves the others, and nobody has the top.   *)
LEMMA TopIsTaken ==
  ASSUME TypeOK, ThreadsInOnePlace, Unlocked, thrp_!oPop(main)
  PROVE  /\ cont_' \in Seq(Slots)
         /\ thrp_!Top \in Slots
         /\ \A i \in DOMAIN cont_' : i \in DOMAIN cont_ /\ cont_'[i] = cont_[i]
         /\ \A i \in DOMAIN cont_' : cont_'[i] # thrp_!Top
         /\ \A t \in Busy : thr[t] # thrp_!Top
         /\ thrp_!Top \notin deleted
<1> DEFINE n == Len(cont_)
<1>1. n \in Nat \ {0} /\ cont_ \in Seq(Slots) /\ DOMAIN cont_ = 1..n
  BY DEF TypeOK, thrp_!oPop
<1>2. DOMAIN cont_' = 1..(n - 1) /\ \A i \in 1..(n - 1) : cont_'[i] = cont_[i]
  BY <1>1 DEF thrp_!oPop
<1>3. cont_' \in Seq(Slots) /\ thrp_!Top = cont_[n] /\ thrp_!Top \in Slots
  BY <1>1 DEF thrp_!oPop, thrp_!Top
<1>4. \A i \in DOMAIN cont_' : cont_'[i] # cont_[n]
  BY <1>1, <1>2 DEF ThreadsInOnePlace
<1>5. Busy = Owners
  BY DEF Busy, Owners, Unlocked
<1>6. n \in DOMAIN cont_
  BY <1>1
<1>7. (\A t \in Busy : thr[t] # cont_[n]) /\ cont_[n] \notin deleted
  BY <1>5, <1>6 DEF ThreadsInOnePlace, ExclusiveThreads
<1> QED
  BY <1>1, <1>2, <1>3, <1>4, <1>7

(* The main thread takes the top of the pool, to run a task ...            *)
LEMMA PopOnePlace ==
  TypeOK /\ ThreadsInOnePlace /\ PopThread => ThreadsInOnePlace'
<1> SUFFICES ASSUME TypeOK, ThreadsInOnePlace, PopThread
             PROVE  ThreadsInOnePlace'
  OBVIOUS
<1>1. Unlocked /\ thrp_!oPop(main)
  BY DEF PopThread
<1>2. /\ UNCHANGED <<task, thr, deleted>> /\ oThr' = thrp_!Top
      /\ pc = "pop" /\ pc' = "spawn"
  BY DEF PopThread
<1>3. Busy' = Busy /\ Owners' = Owners
  BY <1>2 DEF Busy, Owners
<1>4. deleted = {}
  BY <1>2 DEF ThreadsInOnePlace
<1> QED
  BY <1>1, <1>2, <1>3, <1>4, TopIsTaken DEF ThreadsInOnePlace, ExclusiveThreads

(* ... and to delete it.                                                   *)
LEMMA DestructOnePlace ==
  TypeOK /\ ThreadsInOnePlace /\ Destruct => ThreadsInOnePlace'
<1> SUFFICES ASSUME TypeOK, ThreadsInOnePlace, Destruct
             PROVE  ThreadsInOnePlace'
  OBVIOUS
<1>1. Unlocked /\ thrp_!oPop(main)
  BY DEF Destruct
<1>2. /\ UNCHANGED <<task, thr, oThr>>
      /\ deleted' = deleted \cup {thrp_!Top}
      /\ pc' \in {"terminated", "returned", "destruct"}
  BY DEF Destruct
<1>3. Busy' = Busy /\ Owners' = Owners /\ Owners \subseteq Busy
  BY <1>2 DEF Busy, Owners
<1>4. pc' # "spawn"
  BY <1>2
<1> QED
  BY <1>1, <1>2, <1>3, <1>4, TopIsTaken DEF ThreadsInOnePlace, ExclusiveThreads

(* The thread the main thread holds goes to the task it starts.            *)
LEMMA SpawnOnePlace ==
  TypeOK /\ ThreadsInOnePlace /\ QueueInOrder /\ Spawn => ThreadsInOnePlace'
<1> SUFFICES ASSUME TypeOK, ThreadsInOnePlace, QueueInOrder, Spawn
             PROVE  ThreadsInOnePlace'
  OBVIOUS
<1>1. /\ head \in Tasks /\ pc = "spawn" /\ pc' = "assign"
      /\ UNCHANGED <<cont_, deleted>>
  BY DEF QueueInOrder, Spawn, poolVars
<1>2. /\ Busy' = Busy \cup {head} /\ Owners' = Owners \cup {head}
      /\ thr'[head] = oThr
      /\ \A t \in Tasks \ {head} : thr'[t] = thr[t]
      /\ \A t \in Tasks : task'[t] = "notify" => task[t] = "notify"
  BY <1>1 DEF TypeOK, Spawn, Busy, Owners
<1>3. Busy \subseteq Tasks /\ Owners \subseteq Busy
  BY DEF Busy, Owners
<1>4. head \notin Busy
  BY <1>1 DEF TypeOK, QueueInOrder, Busy
<1>5. deleted = {}
  BY <1>1 DEF ThreadsInOnePlace
<1> QED
  BY <1>1, <1>2, <1>3, <1>4, <1>5 DEF ThreadsInOnePlace, ExclusiveThreads

(* A worker gives its thread back, or keeps it.                            *)
LEMMA WorkerOnePlace ==
  ASSUME NEW t \in Tasks, TypeOK, ThreadsInOnePlace, Worker(t)
  PROVE  ThreadsInOnePlace'
<1>0. Owners \subseteq Busy
  BY DEF Busy, Owners
<1>1. CASE PushThread(t)
  <2> DEFINE n == Len(cont_)
  <2>1. n \in Nat /\ DOMAIN cont_ = 1..n /\ t \in Owners /\ t \in Busy
    BY <1>1 DEF TypeOK, PushThread, Move, Busy, Owners
  <2>2. /\ DOMAIN cont_' = 1..(n + 1)
        /\ \A i \in 1..n : cont_'[i] = cont_[i]
        /\ cont_'[n + 1] = thr[t]
    BY <1>1 DEF PushThread, thrp_!Stack, TypeOK
  <2>3. /\ Busy' = Busy /\ Owners' = Owners \ {t}
        /\ UNCHANGED <<thr, oThr, pc, deleted>>
        /\ \A u \in Tasks : task'[u] = "notify" => u = t
    BY <1>1 DEF TypeOK, PushThread, Move, Busy, Owners, Unlocked
  <2>4. \A i \in 1..n : cont_[i] # thr[t]
    BY <2>1 DEF ThreadsInOnePlace, ExclusiveThreads
  <2>5. \A i, j \in DOMAIN cont_' : cont_'[i] = cont_'[j] => i = j
    BY <2>1, <2>2, <2>4 DEF ThreadsInOnePlace
  <2>6. pc = "spawn" => \A i \in DOMAIN cont_' : cont_'[i] # oThr
    BY <2>1, <2>2 DEF ThreadsInOnePlace, ExclusiveThreads
  <2>7. \A u \in Owners' : \A i \in DOMAIN cont_' : cont_'[i] # thr[u]
    BY <1>0, <2>1, <2>2, <2>3 DEF ThreadsInOnePlace, ExclusiveThreads
  <2>8. \A i \in DOMAIN cont_' : cont_'[i] \notin deleted
    BY <2>1, <2>2 DEF ThreadsInOnePlace
  <2> QED
    BY <2>3, <2>5, <2>6, <2>7, <2>8 DEF ThreadsInOnePlace, ExclusiveThreads
<1>2. CASE PushEnds(t)
  <2>1. /\ Busy' = Busy \ {t} /\ Owners' = Owners
        /\ UNCHANGED <<thr, oThr, pc, cont_, deleted>>
        /\ \A u \in Tasks : task'[u] = "notify" => task[u] = "notify"
    BY <1>2 DEF TypeOK, PushEnds, Move, Busy, Owners, thrp_!NotifyAll
  <2> QED
    BY <2>1 DEF ThreadsInOnePlace, ExclusiveThreads
<1>3. CASE ~PushThread(t) /\ ~PushEnds(t)
  <2>1. /\ Busy' = Busy /\ Owners' = Owners
        /\ UNCHANGED <<thr, oThr, pc, cont_, deleted>>
        /\ \A u \in Tasks : task'[u] = "notify" => task[u] = "notify"
    BY <1>3 DEF Worker, Return, Raise, Delete, Detach, Move, TypeOK, Busy,
                Owners, poolVars
  <2> QED
    BY <2>1 DEF ThreadsInOnePlace, ExclusiveThreads
<1> QED
  BY <1>1, <1>2, <1>3

(* Every step keeps each thread object in one place.                       *)
LEMMA OnePlaceStep ==
  TypeOK /\ ThreadsInOnePlace /\ QueueInOrder /\ [Next]_vars
    => ThreadsInOnePlace'
<1> SUFFICES ASSUME TypeOK, ThreadsInOnePlace, QueueInOrder, [Next]_vars
             PROVE  ThreadsInOnePlace'
  OBVIOUS
<1>1. CASE PopThread
  BY <1>1, PopOnePlace
<1>2. CASE Spawn
  BY <1>2, SpawnOnePlace
<1>3. ASSUME NEW t \in Tasks, Worker(t) PROVE ThreadsInOnePlace'
  BY <1>3, WorkerOnePlace
<1>4. CASE Destruct
  BY <1>4, DestructOnePlace
<1>5. ASSUME UNCHANGED <<cont_, deleted, thr, oThr>>,
             pc' = "spawn" => pc = "spawn",
             deleted # {} => pc' \in {"destruct", "returned", "exit",
                                     "terminated"},
             Busy' = Busy, Owners' = Owners,
             \A t \in Tasks : task'[t] = "notify" => task[t] = "notify"
      PROVE  ThreadsInOnePlace'
  BY <1>5 DEF ThreadsInOnePlace, ExclusiveThreads
<1>6. ASSUME UNCHANGED <<cont_, deleted, task, thr, oThr>>,
             pc' = "spawn" => pc = "spawn",
             deleted # {} => pc' \in {"destruct", "returned", "exit",
                                     "terminated"}
      PROVE  ThreadsInOnePlace'
  BY <1>5, <1>6 DEF Busy, Owners
<1>7. deleted # {} => pc \in {"destruct", "returned", "exit", "terminated"}
  BY DEF ThreadsInOnePlace
<1>8. CASE TestContinues \/ TestLeaves \/ Leave \/ CheckEp \/ Exit \/ vBreak
  BY <1>6, <1>7, <1>8 DEF TestContinues, TestLeaves, Leave, CheckEp, Exit,
                          vBreak, poolVars
<1>9. CASE PopBlocks \/ Assign \/ DestructBlocks
  BY <1>6, <1>7, <1>9 DEF PopBlocks, Assign, DestructBlocks, poolVars,
                          thrp_!oPopBlocks, thrp_!Wait
<1>10. CASE SynchronizeTests \/ Synchronize \/ SynchronizeBlocks
  BY <1>6, <1>7, <1>10 DEF SynchronizeTests, Synchronize, SynchronizeBlocks,
       poolVars, thrp_!vSynchronizeReturns, thrp_!vSynchronizeBlocks,
       thrp_!Wait, thrp_!poolVars
<1>11. CASE UNCHANGED vars
  BY <1>6, <1>7, <1>11 DEF vars, poolVars
<1>12. CASE SpawnRaises
  <2>1. head \in Tasks /\ task[head] = "queued"
    BY <1>12 DEF SpawnRaises, QueueInOrder
  <2>2. \A t \in Tasks : task'[t] = IF t = head THEN "leaked" ELSE task[t]
    BY <1>12 DEF SpawnRaises, TypeOK
  <2>3. Busy' = Busy /\ Owners' = Owners
    BY <2>1, <2>2 DEF Busy, Owners
  <2>4. UNCHANGED <<cont_, deleted, thr, oThr>> /\ pc = "spawn" /\ pc' = "sync"
    BY <1>12 DEF SpawnRaises, poolVars
  <2> QED
    BY <1>5, <1>7, <2>2, <2>3, <2>4
<1> QED
  BY <1>1, <1>2, <1>3, <1>4, <1>8, <1>9, <1>10, <1>11, <1>12
     DEF Next, Main, Over

(* Every step takes the tasks in the order of the queue.                   *)
LEMMA QueueStep ==
  TypeOK /\ QueueInOrder /\ [Next]_vars => QueueInOrder'
<1> SUFFICES ASSUME TypeOK, QueueInOrder, [Next]_vars PROVE QueueInOrder'
  OBVIOUS
<1> USE TasksAssumption DEF QueueInOrder, Tasks
<1>1. CASE Spawn
  <2>1. /\ head \in 1..NumTasks /\ head' = head + 1 /\ thrown' = thrown
        /\ pc = "spawn" /\ pc' = "assign"
    BY <1>1 DEF Spawn
  <2>2. \A t \in Tasks : task'[t] = IF t = head THEN "running" ELSE task[t]
    BY <1>1 DEF Spawn, TypeOK
  <2>3. \A t \in Tasks : task'[t] = "queued" <=> head' <= t
    BY <2>1, <2>2
  <2>4. thrown # Refused
    BY <2>1 DEF EpAlive
  <2>5. \A t \in Tasks : task'[t] # "leaked"
    BY <2>2, <2>4
  <2> QED
    BY <2>1, <2>3, <2>4, <2>5
<1>2. ASSUME NEW t \in Tasks, Worker(t) PROVE QueueInOrder'
  <2>1. \A u \in Tasks : /\ task'[u] = "queued" <=> task[u] = "queued"
                         /\ task'[u] = "leaked" => task[u] = "leaked"
    BY <1>2 DEF Worker, Return, Raise, Delete, Detach, PushThread, PushEnds,
                Move, TypeOK
  <2>2. UNCHANGED <<head, pc, mayContinue, thrown>>
    BY <1>2 DEF Worker, Return, Raise, Delete, Detach, PushThread, PushEnds,
                Move, rtnVars
  <2> QED
    BY <2>1, <2>2 DEF EpAlive
<1>3. CASE TestLeaves
  <2>1. mayContinue => head = NumTasks + 1
    BY <1>3 DEF TestLeaves
  <2> QED
    BY <1>3, <2>1 DEF TestLeaves, rtnVars, EpAlive
<1>4. CASE TestContinues \/ PopThread \/ PopBlocks \/ Assign \/ CheckEp
  BY <1>4 DEF TestContinues, PopThread, PopBlocks, Assign, CheckEp, rtnVars,
              EpAlive
<1>5. CASE Leave
  <2>1. pc = "leave" /\ pc' = "sync" /\ UNCHANGED <<head, task, mayContinue>>
    BY <1>5 DEF Leave, rtnVars
  <2>2. thrown # Refused
    BY <2>1 DEF EpAlive
  <2> QED
    BY <2>1, <2>2 DEF EpAlive
<1>6. CASE SynchronizeTests \/ Synchronize \/ SynchronizeBlocks
  BY <1>6 DEF SynchronizeTests, Synchronize, SynchronizeBlocks, rtnVars, EpAlive
<1>7. CASE Destruct \/ DestructBlocks
  BY <1>7 DEF Destruct, DestructBlocks, rtnVars, EpAlive
<1>8. CASE Exit \/ vBreak \/ UNCHANGED vars
  BY <1>8 DEF Exit, vBreak, vars, rtnVars, EpAlive
<1>9. CASE SpawnRaises
  <2>1. /\ head \in 1..NumTasks /\ head' = head + 1
        /\ pc' = "sync" /\ thrown' = Refused
    BY <1>9 DEF SpawnRaises
  <2>2. \A t \in Tasks : task'[t] = IF t = head THEN "leaked" ELSE task[t]
    BY <1>9 DEF SpawnRaises, TypeOK
  <2>3. \A t \in Tasks : task'[t] = "queued" <=> head' <= t
    BY <2>1, <2>2
  <2> QED
    BY <2>1, <2>3 DEF EpAlive, Refused
<1> QED
  BY <1>1, <1>2, <1>3, <1>4, <1>5, <1>6, <1>7, <1>8, <1>9 DEF Next, Main, Over

(* Every step keeps the bound on late starts.                              *)
LEMMA LateStep ==
  TypeOK /\ LateStartEndsTheLoop /\ [Next]_vars => LateStartEndsTheLoop'
<1> SUFFICES ASSUME TypeOK, LateStartEndsTheLoop, [Next]_vars
             PROVE  LateStartEndsTheLoop'
  OBVIOUS
<1> USE DEF LateStartEndsTheLoop
<1>1. CASE TestContinues \/ TestLeaves \/ PopThread \/ PopBlocks
  BY <1>1 DEF TestContinues, TestLeaves, PopThread, PopBlocks, rtnVars, histVars
<1>2. CASE Spawn \/ Assign
  BY <1>2 DEF Spawn, Assign, rtnVars, histVars
<1>3. CASE CheckEp
  BY <1>3 DEF CheckEp, histVars, TypeOK
<1>4. CASE Leave \/ Synchronize \/ SynchronizeBlocks \/ Destruct
             \/ SynchronizeTests \/ DestructBlocks \/ SpawnRaises
  BY <1>4 DEF Leave, Synchronize, SynchronizeBlocks, Destruct, SynchronizeTests,
              DestructBlocks, SpawnRaises, rtnVars, histVars
<1>5. CASE Exit \/ vBreak \/ UNCHANGED vars
  BY <1>5 DEF Exit, vBreak, vars, rtnVars, histVars, TypeOK
<1>6. ASSUME NEW t \in Tasks, Worker(t) PROVE LateStartEndsTheLoop'
  <2>1. UNCHANGED <<pc, mayContinue, lateStarts>> /\ (ep # None => ep' = ep)
    BY <1>6 DEF Worker, Return, Raise, Delete, Detach, PushThread, PushEnds,
                Move, rtnVars
  <2> QED
    BY <2>1
<1> QED
  BY <1>1, <1>2, <1>3, <1>4, <1>5, <1>6 DEF Next, Main, Over

(* Every step keeps the first exception in ep while ep lives.              *)
LEMMA EpStep ==
  TypeOK /\ EpHoldsTheFirst /\ [Next]_vars => EpHoldsTheFirst'
<1> SUFFICES ASSUME TypeOK, EpHoldsTheFirst, [Next]_vars PROVE EpHoldsTheFirst'
  OBVIOUS
<1>1. CASE Main \/ vBreak \/ UNCHANGED vars
  <2>1. UNCHANGED <<ep, raised>> /\ (EpAlive' => EpAlive)
    BY <1>1 DEF Main, TestContinues, TestLeaves, PopThread, PopBlocks, Spawn,
                SpawnRaises, Assign, CheckEp, Leave, SynchronizeTests,
                Synchronize, SynchronizeBlocks, Destruct, DestructBlocks, Exit,
                vBreak, vars, histVars, EpAlive
  <2> QED
    BY <2>1 DEF EpHoldsTheFirst
<1>2. ASSUME NEW t \in Tasks, Worker(t) PROVE EpHoldsTheFirst'
  <2>1. t # None
    BY DEF Tasks, None
  <2> QED
    BY <1>2, <2>1 DEF EpHoldsTheFirst, Worker, Return, Raise, Delete, Detach,
                      PushThread, PushEnds, Move, EpAlive
<1> QED
  BY <1>1, <1>2 DEF Next, Over

(* ~cPool has deleted every thread object, the last one after its pusher   *)
(* let the mutex go: no task has a thread object, or the mutex.            *)
LEMMA DestructOutlives ==
  TypeOK /\ ThreadsInOnePlace /\ Destruct /\ pc' = "returned" => Busy = {}
<1> SUFFICES ASSUME TypeOK, ThreadsInOnePlace, Destruct, pc' = "returned"
             PROVE  Busy = {}
  OBVIOUS
<1>1. Unlocked /\ thrp_!oPop(main) /\ deleted' = deleted \cup {thrp_!Top}
  BY DEF Destruct
<1>2. Cardinality(deleted') = iConcurrency
  BY DEF Destruct
<1>3. thrp_!Top \in Slots /\ \A t \in Busy : thr[t] # thrp_!Top
  BY <1>1, TopIsTaken
<1>4. deleted' \in SUBSET Slots
  BY <1>1, <1>3 DEF TypeOK
<1>5. deleted' = Slots
  BY <1>2, <1>4, AllDeleted
<1>6. Busy = Owners
  BY <1>1 DEF Busy, Owners, Unlocked
<1>7. \A t \in Busy : thr[t] \in Slots /\ thr[t] \notin deleted
  BY <1>6 DEF TypeOK, ThreadsInOnePlace, Busy
<1> QED
  BY <1>1, <1>3, <1>5, <1>7

(* Every step keeps the tasks within the call.                             *)
LEMMA OutliveStep ==
  TypeOK /\ ThreadsInOnePlace /\ NothingOutlivesTheCall /\ [Next]_vars
    => NothingOutlivesTheCall'
<1> SUFFICES ASSUME TypeOK, ThreadsInOnePlace, NothingOutlivesTheCall,
                    [Next]_vars
             PROVE  NothingOutlivesTheCall'
  OBVIOUS
<1>1. CASE Destruct
  <2>1. Busy' = Busy /\ pc' \in {"terminated", "returned", "destruct"}
    BY <1>1 DEF Destruct, Busy
  <2> QED
    BY <1>1, <2>1, DestructOutlives DEF NothingOutlivesTheCall
<1> USE DEF NothingOutlivesTheCall, Busy
<1>2. CASE TestContinues \/ TestLeaves \/ PopThread \/ PopBlocks \/ Spawn
             \/ SpawnRaises
  BY <1>2 DEF TestContinues, TestLeaves, PopThread, PopBlocks, Spawn,
              SpawnRaises
<1>3. CASE Assign \/ CheckEp \/ Leave \/ SynchronizeTests \/ Synchronize
             \/ SynchronizeBlocks \/ DestructBlocks
  BY <1>3 DEF Assign, CheckEp, Leave, SynchronizeTests, Synchronize,
              SynchronizeBlocks, DestructBlocks
<1>4. CASE Exit \/ vBreak \/ UNCHANGED vars
  BY <1>4 DEF Exit, vBreak, vars
<1>5. ASSUME NEW t \in Tasks, Worker(t) PROVE NothingOutlivesTheCall'
  <2>1. UNCHANGED pc /\ t \in Busy
    BY <1>5 DEF Worker, Return, Raise, Delete, Detach, PushThread, PushEnds,
                Move
  <2> QED
    BY <2>1
<1> QED
  BY <1>1, <1>2, <1>3, <1>4, <1>5 DEF Next, Main, Over

(* The invariant behind the safety theorems below.                         *)
THEOREM InvariantHolds == Spec => []DispatcherInv
<1>1. Init => DispatcherInv
  <2> SUFFICES ASSUME Init PROVE DispatcherInv
    OBVIOUS
  <2>1. /\ Busy = {} /\ Owners = {} /\ deleted = {}
        /\ cont_ = [i \in Slots |-> i]
        /\ \A t \in Tasks : task[t] # "notify"
    BY DEF Init, Busy, Owners, thrp_!PoolInit
  <2>2. QueueInOrder
    BY TasksAssumption DEF Init, QueueInOrder, Tasks, Refused, None
  <2> QED
    BY <2>1, <2>2 DEF Init, DispatcherInv, ThreadsInOnePlace, ExclusiveThreads,
          LateStartEndsTheLoop, EpHoldsTheFirst, NothingOutlivesTheCall
<1>2. TypeOK /\ DispatcherInv /\ [Next]_vars => DispatcherInv'
  BY OnePlaceStep, QueueStep, LateStep, EpStep, OutliveStep DEF DispatcherInv
<1> QED
  BY <1>1, <1>2, TypeCorrect, PTL DEF Spec

-----------------------------------------------------------------------------
(* Distinct threads make room for at most iConcurrency tasks: thr maps the *)
(* busy tasks one to one into the thread objects.                          *)
LEMMA BusyBounded ==
  TypeOK /\ ThreadsInOnePlace
    => IsFiniteSet(Busy) /\ Cardinality(Busy) <= iConcurrency
<1> SUFFICES ASSUME TypeOK, ThreadsInOnePlace
             PROVE  IsFiniteSet(Busy) /\ Cardinality(Busy) <= iConcurrency
  OBVIOUS
<1> DEFINE f == [t \in Busy |-> thr[t]]
<1>1. f \in Injection(Busy, Slots)
  <2>1. \A t \in Busy : thr[t] \in Slots
    BY DEF TypeOK, Busy
  <2> QED
    BY <2>1 DEF Injection, IsInjective, ThreadsInOnePlace, ExclusiveThreads
<1>2. IsFiniteSet(Slots) /\ Cardinality(Slots) = iConcurrency
  BY FS_Interval, ConcurrencyAssumption DEF Slots
<1> HIDE DEF f
<1> QED
  BY <1>1, <1>2, FS_Injection

(* At no time do more than iConcurrency tasks occupy a thread.             *)
THEOREM ConcurrencyIsBounded == Spec => []BoundedConcurrency
<1>1. TypeOK /\ DispatcherInv => BoundedConcurrency
  BY BusyBounded DEF DispatcherInv, BoundedConcurrency
<1> QED
  BY <1>1, TypeCorrect, InvariantHolds, PTL

(* A thread object is in the pool, with one task, or with the main thread. *)
THEOREM ThreadsAreExclusive == Spec => []ExclusiveThreads
<1>1. DispatcherInv => ExclusiveThreads
  BY DEF DispatcherInv, ThreadsInOnePlace
<1> QED
  BY <1>1, InvariantHolds, PTL

(* No task outlives the call of vSynchronize that started it.              *)
THEOREM CallOutlivesItsTasks == Spec => []NothingOutlivesTheCall
<1>1. DispatcherInv => NothingOutlivesTheCall
  BY DEF DispatcherInv
<1> QED
  BY <1>1, InvariantHolds, PTL

(* Cancellation is bounded: at most one task starts after it.              *)
THEOREM CancellationIsBounded == Spec => []AtMostOneLateStart
<1>1. DispatcherInv => AtMostOneLateStart
  BY DEF DispatcherInv, LateStartEndsTheLoop, AtMostOneLateStart
<1> QED
  BY <1>1, InvariantHolds, PTL

(* A call that returns uncancelled and without an exception ran the queue. *)
THEOREM QueueIsComplete == Spec => []CompleteUnlessCancelled
<1>1. TypeOK /\ DispatcherInv => CompleteUnlessCancelled
  <2> SUFFICES ASSUME TypeOK, DispatcherInv, pc = "returned", mayContinue,
                      thrown = None, NEW t \in Tasks
               PROVE  task[t] = "ended"
    BY DEF CompleteUnlessCancelled
  <2>1. task[t] # "queued"
    BY TasksAssumption DEF DispatcherInv, QueueInOrder, Tasks, Refused, None
  <2>2. Busy = {}
    BY DEF DispatcherInv, NothingOutlivesTheCall
  <2>3. task[t] # "leaked"
    BY TasksAssumption DEF DispatcherInv, QueueInOrder, Refused, None
  <2> QED
    BY <2>1, <2>2, <2>3 DEF TypeOK, Busy
<1> QED
  BY <1>1, TypeCorrect, InvariantHolds, PTL

(* The exception pointer is set once, to the first exception raised.       *)
THEOREM EarliestExceptionIsKept == Spec => EarliestExceptionWins
<1>1. TypeOK /\ DispatcherInv /\ [Next]_vars
        => [/\ ep # None => ep' = ep
            /\ ep' # ep => raised = {} /\ raised' = {ep'}]_vars
  <2> SUFFICES ASSUME TypeOK, DispatcherInv, [Next]_vars, ep' # ep
               PROVE  ep = None /\ raised = {} /\ raised' = {ep'}
    OBVIOUS
  <2>1. PICK t \in Tasks : Raise(t)
    BY DEF Next, Main, TestContinues, TestLeaves, PopThread, PopBlocks, Spawn,
           SpawnRaises, Assign, CheckEp, Leave, SynchronizeTests, Synchronize,
           SynchronizeBlocks, Destruct, DestructBlocks, Exit, vBreak, Over,
           vars, Worker, Return, Delete, Detach, PushThread, PushEnds
  <2>2. EpAlive /\ ep = None /\ ep' = t
    BY <2>1 DEF Raise
  <2>3. raised = {}
    BY <2>2 DEF DispatcherInv, EpHoldsTheFirst
  <2> QED
    BY <2>1, <2>2, <2>3 DEF Raise
<1> QED
  BY <1>1, TypeCorrect, InvariantHolds, PTL DEF Spec, EarliestExceptionWins

-----------------------------------------------------------------------------
(* Dispatcher implements Executor.                                         *)

(* The executor's Cardinality is the one of FiniteSets.                    *)
LEMMA SameCardinality == \A S : Exec!Cardinality(S) = Cardinality(S)
  BY DEF Exec!Cardinality, Cardinality

(* The task at the head may start: the thread object that the main thread  *)
(* holds leaves room for one more active task.                             *)
LEMMA RoomForOneMore ==
  TypeOK /\ DispatcherInv /\ pc = "spawn" => Cardinality(Active) < iConcurrency
<1> SUFFICES ASSUME TypeOK, DispatcherInv, pc = "spawn"
             PROVE  Cardinality(Active) < iConcurrency
  OBVIOUS
<1> DEFINE free == Slots \ {oThr}
           f == [t \in Active |-> thr[t]]
<1>1. /\ IsFiniteSet(Slots) /\ Cardinality(Slots) = iConcurrency
      /\ oThr \in Slots
  BY FS_Interval, ConcurrencyAssumption DEF Slots, TypeOK
<1>2. IsFiniteSet(free) /\ Cardinality(free) = iConcurrency - 1
  BY <1>1, FS_RemoveElement
<1>3. Active \subseteq Busy
  BY DEF Active, Busy
<1>4. f \in Injection(Active, free)
  <2>1. \A t \in Active : thr[t] \in free
    BY <1>3 DEF TypeOK, Busy, DispatcherInv, ThreadsInOnePlace,
                ExclusiveThreads
  <2> QED
    BY <1>3, <2>1 DEF Injection, IsInjective, DispatcherInv,
                      ThreadsInOnePlace, ExclusiveThreads
<1> HIDE DEF f, free
<1>5. IsFiniteSet(Active) /\ Cardinality(Active) <= Cardinality(free)
  BY <1>2, <1>4, FS_Injection
<1>6. Cardinality(Active) \in Nat
  BY <1>5, FS_CardinalityType
<1> QED
  BY <1>2, <1>5, <1>6, ConcurrencyAssumption

(* The step that starts a task is a StartTask step of the executor.        *)
LEMMA SpawnStarts ==
  TypeOK /\ DispatcherInv /\ Spawn => Exec!StartTask(head)
<1> SUFFICES ASSUME TypeOK, DispatcherInv, Spawn PROVE Exec!StartTask(head)
  OBVIOUS
<1>1. head \in Tasks /\ pc = "spawn" /\ pc' = "assign"
  BY DEF DispatcherInv, QueueInOrder, Spawn
<1>2. execStatus[head] = "pending"
  BY <1>1, TasksAssumption
     DEF DispatcherInv, QueueInOrder, Tasks, execStatus, StatusOf
<1>3. \A u \in Tasks : u < head => execStatus[u] # "pending"
  <2>1. thrown # Refused
    BY <1>1 DEF DispatcherInv, QueueInOrder, EpAlive
  <2>2. \A u \in Tasks : task[u] # "leaked" /\ (u < head => task[u] # "queued")
    BY <2>1, TasksAssumption DEF DispatcherInv, QueueInOrder, Tasks
  <2> QED
    BY <2>2 DEF execStatus, StatusOf
<1>4. Exec!Running = Active
  BY DEF Exec!Running, Exec!Jobs, Tasks, Active, execStatus, StatusOf, TypeOK
<1>5. Exec!Cardinality(Exec!Running) < iConcurrency
  BY <1>1, <1>4, RoomForOneMore, SameCardinality
<1>6. execStatus' = [execStatus EXCEPT ![head] = "active"]
  BY <1>1 DEF Spawn, TypeOK, execStatus, StatusOf
<1>7. ~execClosed /\ execClosed' = execClosed
  BY <1>1 DEF execClosed
<1> QED
  BY <1>2, <1>3, <1>5, <1>6, <1>7 DEF Exec!StartTask, Exec!Jobs, Tasks

(* A worker finishes its task when it destroys it; the other steps of a    *)
(* worker do not show.                                                     *)
LEMMA WorkerFinishes ==
  ASSUME NEW t \in Tasks, TypeOK, Worker(t)
  PROVE  Exec!FinishTask(t) \/ UNCHANGED Exec!execVars
<1>1. execClosed' = execClosed
  BY DEF execClosed, Worker, Return, Raise, Delete, Detach, PushThread,
         PushEnds, Move
<1>2. CASE Delete(t)
  <2>1. execStatus[t] = "active"
    BY <1>2 DEF Delete, Move, execStatus, StatusOf
  <2>2. execStatus' = [execStatus EXCEPT ![t] = "done"]
    BY <1>2 DEF Delete, Move, execStatus, StatusOf, TypeOK
  <2> QED
    BY <1>1, <2>1, <2>2 DEF Exec!FinishTask
<1>3. CASE Return(t) \/ Raise(t) \/ Detach(t) \/ PushThread(t) \/ PushEnds(t)
  <2>1. execStatus' = execStatus
    <3>1. \A u \in Tasks : StatusOf(task'[u]) = StatusOf(task[u])
      BY <1>3 DEF Return, Raise, Detach, PushThread, PushEnds, Move, StatusOf,
                  TypeOK
    <3> QED
      BY <3>1 DEF execStatus
  <2> QED
    BY <1>1, <2>1 DEF Exec!execVars
<1> QED
  BY <1>2, <1>3 DEF Worker

(* A step of main that starts nothing does not show, but for the one by    *)
(* which the call returns: then no task is active.                         *)
LEMMA MainCloses ==
  ASSUME TypeOK, DispatcherInv, (Main /\ ~Spawn) \/ vBreak \/ UNCHANGED vars
  PROVE  Exec!CloseCall \/ UNCHANGED Exec!execVars
<1>1. execStatus' = execStatus
  <2>1. CASE SpawnRaises
    <3>1. head \in Tasks /\ task[head] = "queued"
      BY <2>1, TasksAssumption DEF SpawnRaises, DispatcherInv, QueueInOrder, Tasks
    <3>2. \A u \in Tasks : StatusOf(task'[u]) = StatusOf(task[u])
      BY <2>1, <3>1 DEF SpawnRaises, TypeOK, StatusOf
    <3> QED
      BY <3>2 DEF execStatus
  <2>2. CASE ~SpawnRaises
    BY <2>2 DEF execStatus, Main, TestContinues, TestLeaves, PopThread,
       PopBlocks, Assign, CheckEp, Leave, SynchronizeTests, Synchronize,
       SynchronizeBlocks, Destruct, DestructBlocks, Exit, vBreak, vars
  <2> QED
    BY <2>1, <2>2
<1>2. CASE Destruct
  <2>1. pc = "destruct" /\ pc' \in {"returned", "terminated", "destruct"}
    BY <1>2 DEF Destruct
  <2>2. CASE pc' = "returned"
    <3>1. Busy = {}
      BY <1>2, <2>2, DestructOutlives DEF DispatcherInv
    <3>2. Exec!Running = {}
      BY <3>1 DEF Exec!Running, Exec!Jobs, Tasks, execStatus, StatusOf, Busy
    <3> QED
      BY <1>1, <2>1, <2>2, <3>2 DEF Exec!CloseCall, execClosed
  <2> QED
    BY <1>1, <2>1, <2>2 DEF Exec!execVars, execClosed
<1>3. CASE ~Destruct
  <2>1. execClosed' = execClosed
    BY <1>3 DEF execClosed, Main, TestContinues, TestLeaves, PopThread,
           PopBlocks, SpawnRaises, Assign, CheckEp, Leave, SynchronizeTests,
           Synchronize, SynchronizeBlocks, DestructBlocks, Exit, vBreak, vars
  <2> QED
    BY <1>1, <2>1 DEF Exec!execVars
<1> QED
  BY <1>2, <1>3

(* The dispatcher implements the executor its callers rely on.             *)
THEOREM ImplementsExecutor == Spec => ExecutorSpec
<1>1. Init => Exec!ExecInit
  BY DEF Init, Exec!ExecInit, Exec!Jobs, Tasks, execStatus, StatusOf, execClosed
<1>2. TypeOK /\ DispatcherInv /\ [Next]_vars => [Exec!ExecNext]_Exec!execVars
  <2> SUFFICES ASSUME TypeOK, DispatcherInv, [Next]_vars
               PROVE  Exec!ExecNext \/ UNCHANGED Exec!execVars
    OBVIOUS
  <2>1. CASE Spawn
    <3>1. head \in Exec!Jobs
      BY <2>1 DEF DispatcherInv, QueueInOrder, Spawn, Exec!Jobs, Tasks
    <3> QED
      BY <2>1, <3>1, SpawnStarts DEF Exec!ExecNext, Exec!StartTask
  <2>2. ASSUME NEW t \in Tasks, Worker(t)
        PROVE  Exec!ExecNext \/ UNCHANGED Exec!execVars
    <3>1. t \in Exec!Jobs
      BY DEF Exec!Jobs, Tasks
    <3> QED
      BY <2>2, <3>1, WorkerFinishes DEF Exec!ExecNext, Exec!FinishTask
  <2>3. CASE (Main /\ ~Spawn) \/ vBreak \/ UNCHANGED vars
    BY <2>3, MainCloses DEF Exec!ExecNext
  <2> QED
    BY <2>1, <2>2, <2>3 DEF Next, Over
<1> QED
  BY <1>1, <1>2, TypeCorrect, InvariantHolds, PTL
     DEF Spec, ExecutorSpec, Exec!ExecSpec

(* --- PooledTasks ------------------------------------------------------- *)

(* The parts of the composition.                                           *)

(* A step of the composition is one of the dispatcher or none of it ...    *)
LEMMA DispatcherSteps == [PooledNext]_allVars => [Next]_vars
<1> SUFFICES ASSUME [PooledNext]_allVars PROVE Next \/ UNCHANGED vars
  OBVIOUS
<1>1. CASE PooledMain \/ PooledBreak
  BY <1>1 DEF PooledMain, PooledBreak, Next
<1>2. ASSUME NEW t \in Tasks, PooledWorker(t) PROVE Next \/ UNCHANGED vars
  <2>1. CASE UseConnection(t)
    BY <2>1 DEF UseConnection
  <2>2. CASE TaskReturns(t) \/ TaskRaises(t) \/ Recycle(t)
    BY <2>2 DEF TaskReturns, TaskRaises, Recycle, Next, Worker, Tasks
  <2> QED
    BY <1>2, <2>1, <2>2 DEF PooledWorker
<1>3. CASE UNCHANGED allVars
  BY <1>3 DEF allVars
<1> QED
  BY <1>1, <1>2, <1>3 DEF PooledNext

(* ... and one of the service or none of it.                               *)
LEMMA ServiceSteps == [PooledNext]_allVars => [oSvc_!Next]_(oSvc_!vars)
<1> SUFFICES ASSUME [PooledNext]_allVars PROVE oSvc_!Next \/ UNCHANGED oSvc_!vars
  OBVIOUS
<1>1. ASSUME NEW t \in Tasks, PooledWorker(t)
      PROVE  oSvc_!Next \/ UNCHANGED oSvc_!vars
  <2>1. CASE UseConnection(t)
    BY <2>1 DEF UseConnection, oSvc_!Next, Tasks
  <2>2. CASE TaskReturns(t) \/ TaskRaises(t) \/ Recycle(t)
    BY <2>2 DEF TaskReturns, TaskRaises, Recycle, svcVars, oSvc_!vars, oSvc_!semVars
  <2> QED
    BY <1>1, <2>1, <2>2 DEF PooledWorker
<1>2. CASE PooledMain \/ PooledBreak \/ UNCHANGED allVars
  BY <1>2 DEF PooledMain, PooledBreak, allVars, svcVars, oSvc_!vars, oSvc_!semVars
<1> QED
  BY <1>1, <1>2 DEF PooledNext

(* What is proved of the dispatcher, and of the pool, holds while they work*)
(* together: neither does in the composition what it does not do alone.    *)
THEOREM PartsKeepTheirSpecifications == PooledSpec => Spec /\ oSvc_!Spec
<1>1. PooledInit => Init /\ oSvc_!Init
  BY DEF PooledInit
<1> QED
  BY <1>1, DispatcherSteps, ServiceSteps, PTL DEF PooledSpec, Spec, oSvc_!Spec

LEMMA DispatcherHolds ==
  PooledSpec => [](TypeOK /\ QueueInOrder /\ BoundedConcurrency)
<1>1. DispatcherInv => QueueInOrder
  BY DEF DispatcherInv
<1> QED
  BY <1>1, PartsKeepTheirSpecifications, TypeCorrect, InvariantHolds,
     ConcurrencyIsBounded, PTL

-----------------------------------------------------------------------------
(* The steps of a loan, as far as permits are concerned.                   *)

MovesTo(t, to) == client' = [client EXCEPT ![t] = to]

Takes(t) ==
  /\ client[t] = "idle" /\ MovesTo(t, "permitted")
  /\ t \notin sleeping /\ sleeping' = sleeping
  /\ count_ > 0 /\ count_' = count_ - 1

Sleeps(t) ==
  /\ client[t] = "idle" /\ client' = client
  /\ sleeping' = sleeping \cup {t}
  /\ count_' = 0 /\ count_ = 0

Keeps(t) ==
  /\ client[t] \in {"permitted", "checkout", "using"}
  /\ \E to \in {"checkout", "using", "failed", "pushed"} : MovesTo(t, to)
  /\ UNCHANGED <<count_, sleeping>>

Gives(t) ==
  /\ client[t] = "pushed" /\ MovesTo(t, "done")
  /\ count_' = count_ + 1
  /\ \/ sleeping = {} /\ sleeping' = {}
     \/ \E u \in sleeping : sleeping' = sleeping \ {u}

LEMMA LoanSteps ==
  ASSUME NEW t \in Tasks, oSvc_!Client(t)
  PROVE  Takes(t) \/ Sleeps(t) \/ Keeps(t) \/ Gives(t)
<1> USE DEF oSvc_!Move, MovesTo, oSvc_!semVars
<1>1. CASE oSvc_!GetPermit(t)
  BY <1>1 DEF oSvc_!GetPermit, oSvc_!sem!vWait, Takes
<1>2. CASE oSvc_!GetPermitBlocks(t)
  BY <1>2 DEF oSvc_!GetPermitBlocks, oSvc_!sem!vWaitBlocks, Sleeps
<1>3. CASE oSvc_!PopConn(t)
  BY <1>3 DEF oSvc_!PopConn, Keeps
<1>4. CASE oSvc_!CheckoutSucceeds(t) \/ oSvc_!CheckoutRaises(t)
  BY <1>4 DEF oSvc_!CheckoutSucceeds, oSvc_!CheckoutRaises, Keeps
<1>5. CASE oSvc_!PushConn(t)
  BY <1>5 DEF oSvc_!PushConn, Keeps
<1>6. CASE oSvc_!GivePermit(t)
  BY <1>6 DEF oSvc_!GivePermit, oSvc_!sem!vNotify, Gives
<1> QED
  BY <1>1, <1>2, <1>3, <1>4, <1>5, <1>6 DEF oSvc_!Client

(* The other steps start tasks, and end those that are through.            *)
Elsewhere ==
  /\ UNCHANGED <<count_, sleeping, client>>
  /\ \A t \in Tasks : task[t] = "running" /\ client[t] \notin {"done", "failed"}
                        => task'[t] = "running"

LEMMA OtherSteps ==
  ASSUME TypeOK, QueueInOrder, [PooledNext]_allVars,
         ~(\E t \in Tasks : UseConnection(t))
  PROVE  Elsewhere
<1>1. task = [t \in Tasks |-> task[t]]
  BY DEF TypeOK
<1>2. CASE PooledMain
  <2>1. \/ task' = task
        \/ task' = [task EXCEPT ![head] = "running"]
        \/ SpawnRaises
    BY <1>2 DEF PooledMain, Main, TestContinues, TestLeaves, PopThread,
       PopBlocks, Spawn, Assign, CheckEp, Leave, SynchronizeTests, Synchronize,
       SynchronizeBlocks, Destruct, DestructBlocks, Exit
  <2>2. CASE SpawnRaises
    <3>1. task[head] = "queued"
      BY <2>2, TasksAssumption DEF SpawnRaises, QueueInOrder, Tasks
    <3>2. \A t \in Tasks : task[t] = "running" => task'[t] = "running"
      BY <1>1, <2>2, <3>1 DEF SpawnRaises
    <3> QED
      BY <1>2, <3>2 DEF PooledMain, svcVars, Elsewhere
  <2> QED
    BY <1>1, <1>2, <2>1, <2>2 DEF PooledMain, svcVars, Elsewhere
<1>3. CASE PooledBreak
  BY <1>3 DEF PooledBreak, vBreak, svcVars, Elsewhere
<1>4. ASSUME NEW t \in Tasks, PooledWorker(t) PROVE Elsewhere
  <2>1. TaskReturns(t) \/ TaskRaises(t) \/ Recycle(t)
    BY <1>4 DEF PooledWorker
  <2>2. /\ UNCHANGED svcVars
        /\ \E to : task' = [task EXCEPT ![t] = to]
        /\ task[t] = "running" => client[t] \in {"done", "failed"}
    BY <2>1 DEF TaskReturns, TaskRaises, Recycle, Return, Raise, Delete, Detach,
       PushThread, PushEnds, Move
  <2> QED
    BY <1>1, <2>2 DEF svcVars, Elsewhere
<1>5. CASE UNCHANGED allVars
  BY <1>5 DEF allVars, vars, svcVars, Elsewhere
<1> QED
  BY <1>2, <1>3, <1>4, <1>5 DEF PooledNext

LEMMA StepsOfTheComposition ==
  ASSUME TypeOK, QueueInOrder, [PooledNext]_allVars
  PROVE  \/ Elsewhere
         \/ \E t \in Tasks : /\ Takes(t) \/ Sleeps(t) \/ Keeps(t) \/ Gives(t)
                             /\ task[t] = "running" /\ task' = task
<1>1. ASSUME NEW t \in Tasks, UseConnection(t)
      PROVE  /\ Takes(t) \/ Sleeps(t) \/ Keeps(t) \/ Gives(t)
             /\ task[t] = "running" /\ task' = task
  BY <1>1, LoanSteps DEF UseConnection, vars
<1> QED
  BY <1>1, OtherSteps

-----------------------------------------------------------------------------
(* The invariant.                                                          *)

LEMMA InitPooled == PooledInit => PooledInv
<1> SUFFICES ASSUME PooledInit PROVE PooledInv
  OBVIOUS
<1>1. /\ client = [t \in Tasks |-> "idle"]
      /\ count_ = iConcurrency /\ sleeping = {}
  BY DEF PooledInit, oSvc_!Init, oSvc_!sem!SemInit, iNumConn, Tasks
<1>2. Holders = {}
  BY <1>1 DEF Holders
<1>3. PermitsAreCounted
  BY <1>1, <1>2, FS_EmptySet, ConcurrencyAssumption DEF PermitsAreCounted
<1> QED
  BY <1>1, <1>3, ConcurrencyAssumption
     DEF PooledInv, LoanTypes, LoansAreOfRunningTasks, PermitsAreAskedFor

LEMMA TasksAreFinite ==
  ASSUME NEW S \in SUBSET Tasks
  PROVE  /\ IsFiniteSet(S) /\ Cardinality(S) \in Nat
         /\ \A t \in S : Cardinality(S \ {t}) = Cardinality(S) - 1
         /\ \A t : t \notin S => Cardinality(S \cup {t}) = Cardinality(S) + 1
<1>1. IsFiniteSet(Tasks)
  BY TasksAssumption, FS_Interval DEF Tasks, Tasks
<1> QED
  BY <1>1, FS_Subset, FS_CardinalityType, FS_RemoveElement, FS_AddElement

LEMMA StepTypes ==
  ASSUME LoanTypes, TypeOK, QueueInOrder, [PooledNext]_allVars PROVE LoanTypes'
<1>1. CASE Elsewhere
  BY <1>1 DEF Elsewhere, LoanTypes
<1>2. ASSUME NEW t \in Tasks, Takes(t) PROVE LoanTypes'
  BY <1>2 DEF Takes, MovesTo, LoanTypes
<1>3. ASSUME NEW t \in Tasks, Sleeps(t) PROVE LoanTypes'
  BY <1>3 DEF Sleeps, LoanTypes
<1>4. ASSUME NEW t \in Tasks, Keeps(t) PROVE LoanTypes'
  BY <1>4 DEF Keeps, MovesTo, LoanTypes
<1>5. ASSUME NEW t \in Tasks, Gives(t) PROVE LoanTypes'
  BY <1>5 DEF Gives, MovesTo, LoanTypes
<1> QED
  BY <1>1, <1>2, <1>3, <1>4, <1>5, StepsOfTheComposition

LEMMA StepRunning ==
  ASSUME LoanTypes, LoansAreOfRunningTasks, TypeOK, QueueInOrder, [PooledNext]_allVars
  PROVE  LoansAreOfRunningTasks'
<1> USE DEF LoanTypes, LoansAreOfRunningTasks
<1>1. CASE Elsewhere
  BY <1>1 DEF Elsewhere
<1>2. ASSUME NEW t \in Tasks, Takes(t), task[t] = "running", task' = task
      PROVE  LoansAreOfRunningTasks'
  BY <1>2 DEF Takes, MovesTo
<1>3. ASSUME NEW t \in Tasks, Sleeps(t), task[t] = "running", task' = task
      PROVE  LoansAreOfRunningTasks'
  BY <1>3 DEF Sleeps
<1>4. ASSUME NEW t \in Tasks, Keeps(t), task[t] = "running", task' = task
      PROVE  LoansAreOfRunningTasks'
  BY <1>4 DEF Keeps, MovesTo
<1>5. ASSUME NEW t \in Tasks, Gives(t), task[t] = "running", task' = task
      PROVE  LoansAreOfRunningTasks'
  BY <1>5 DEF Gives, MovesTo
<1> QED
  BY <1>1, <1>2, <1>3, <1>4, <1>5, StepsOfTheComposition

(* A permit leaves the count with the client that takes it.                *)
LEMMA StepCounts ==
  ASSUME LoanTypes, PermitsAreCounted, TypeOK, QueueInOrder, [PooledNext]_allVars
  PROVE  PermitsAreCounted'
<1>0. Holders \in SUBSET Tasks /\ Cardinality(Holders) \in Nat
  BY TasksAreFinite DEF Holders
<1>1. CASE Elsewhere
  BY <1>1 DEF Elsewhere, PermitsAreCounted, Holders
<1>2. ASSUME NEW t \in Tasks, Takes(t) PROVE PermitsAreCounted'
  <2>1. t \notin Holders /\ Holders' = Holders \cup {t}
    BY <1>2 DEF Takes, MovesTo, LoanTypes, Holders
  <2> QED
    BY <2>1, <1>0, <1>2, TasksAreFinite DEF Takes, PermitsAreCounted, LoanTypes
<1>3. ASSUME NEW t \in Tasks, Sleeps(t) PROVE PermitsAreCounted'
  <2>1. Holders' = Holders
    BY <1>3 DEF Sleeps, Holders
  <2> QED
    BY <2>1, <1>3 DEF Sleeps, PermitsAreCounted
<1>4. ASSUME NEW t \in Tasks, Keeps(t) PROVE PermitsAreCounted'
  <2>1. Holders' = Holders
    BY <1>4 DEF Keeps, MovesTo, LoanTypes, Holders
  <2> QED
    BY <2>1, <1>4 DEF Keeps, PermitsAreCounted
<1>5. ASSUME NEW t \in Tasks, Gives(t) PROVE PermitsAreCounted'
  <2>1. t \in Holders /\ Holders' = Holders \ {t}
    BY <1>5 DEF Gives, MovesTo, LoanTypes, Holders
  <2>2. Cardinality(Holders') = Cardinality(Holders) - 1
    BY <2>1, <1>0, TasksAreFinite
  <2> QED
    BY <2>2, <1>0, <1>5 DEF Gives, PermitsAreCounted, LoanTypes
<1> QED
  BY <1>1, <1>2, <1>3, <1>4, <1>5, StepsOfTheComposition

(* notify_one is enough: whoever it wakes runs, and tests the count.       *)
LEMMA StepAwake ==
  ASSUME LoanTypes, LoansAreOfRunningTasks, PermitsAreAskedFor, TypeOK,
         QueueInOrder, [PooledNext]_allVars
  PROVE  PermitsAreAskedFor'
<1>0. /\ Awake \in SUBSET Tasks /\ Cardinality(Awake) \in Nat
      /\ Awake' \in SUBSET Tasks /\ Cardinality(Awake') \in Nat
  <2>1. Awake \in SUBSET Tasks /\ Awake' \in SUBSET Tasks
    BY DEF Awake
  <2> QED
    BY <2>1, TasksAreFinite
<1>1. CASE Elsewhere
  <2>1. Awake \subseteq Awake'
    BY <1>1 DEF Elsewhere, Awake
  <2>2. Cardinality(Awake) <= Cardinality(Awake')
    BY <2>1, <1>0, TasksAreFinite, FS_Subset
  <2> QED
    BY <2>2, <1>0, <1>1 DEF Elsewhere, PermitsAreAskedFor, LoanTypes
<1>2. ASSUME NEW t \in Tasks, Takes(t), task[t] = "running", task' = task
      PROVE  PermitsAreAskedFor'
  <2>1. t \in Awake /\ Awake' = Awake \ {t}
    BY <1>2 DEF Takes, MovesTo, LoanTypes, Awake
  <2>2. Cardinality(Awake') = Cardinality(Awake) - 1
    BY <2>1, <1>0, TasksAreFinite
  <2> QED
    BY <2>2, <1>0, <1>2 DEF Takes, PermitsAreAskedFor, LoanTypes
<1>3. ASSUME NEW t \in Tasks, Sleeps(t) PROVE PermitsAreAskedFor'
  BY <1>0, <1>3 DEF Sleeps, PermitsAreAskedFor
<1>4. ASSUME NEW t \in Tasks, Keeps(t), task' = task PROVE PermitsAreAskedFor'
  <2>1. Awake' = Awake
    BY <1>4 DEF Keeps, MovesTo, LoanTypes, Awake
  <2> QED
    BY <2>1, <1>4 DEF Keeps, PermitsAreAskedFor
<1>5. ASSUME NEW t \in Tasks, Gives(t), task' = task PROVE PermitsAreAskedFor'
  <2>1. CASE sleeping' = {}
    BY <2>1 DEF PermitsAreAskedFor
  <2>2. ASSUME NEW u \in sleeping, sleeping' = sleeping \ {u}
        PROVE  PermitsAreAskedFor'
    <3>1. u \notin Awake /\ Awake' = Awake \cup {u}
      BY <1>5, <2>2
         DEF Gives, MovesTo, LoanTypes, LoansAreOfRunningTasks, Awake
    <3>2. Cardinality(Awake') = Cardinality(Awake) + 1
      BY <3>1, <1>0, TasksAreFinite
    <3> QED
      BY <3>2, <2>2, <1>0, <1>5 DEF Gives, PermitsAreAskedFor, LoanTypes
  <2> QED
    BY <1>5, <2>1, <2>2 DEF Gives
<1> QED
  BY <1>1, <1>2, <1>3, <1>4, <1>5, StepsOfTheComposition

(* Permits are counted, and asked for by tasks that run.                   *)
THEOREM PooledInvariant == PooledSpec => []PooledInv
<1>1. PooledInv /\ TypeOK /\ QueueInOrder /\ [PooledNext]_allVars => PooledInv'
  BY StepTypes, StepRunning, StepCounts, StepAwake DEF PooledInv
<1> QED
  BY <1>1, InitPooled, DispatcherHolds, PTL DEF PooledSpec

-----------------------------------------------------------------------------
(* The tasks with a permit, those that sleep and those about to test the   *)
(* count occupy different threads: were no connection lost, the last thread*)
(* would find a permit.                                                    *)
LEMMA ThreadsOutnumberNobody ==
  ASSUME PooledInv, BoundedConcurrency PROVE WaitsOnlyForTheLost
<1> SUFFICES ASSUME sleeping # {}, oSvc_!In("failed") = {} PROVE FALSE
  BY DEF WaitsOnlyForTheLost
<1> DEFINE U == Holders \cup Awake
<1>1. /\ Holders \in SUBSET Tasks /\ Awake \in SUBSET Tasks
      /\ sleeping \in SUBSET Tasks /\ Busy \in SUBSET Tasks
  BY DEF Holders, Awake, PooledInv, LoanTypes, Busy
<1>2. U \in SUBSET Tasks /\ U \cup sleeping \in SUBSET Tasks
  BY <1>1
<1>3. Holders \cap Awake = {} /\ U \cap sleeping = {}
  BY DEF Holders, Awake, PooledInv, LoanTypes
<1>4. U \cup sleeping \subseteq Busy
  <2>1. \A t \in Tasks : client[t] # "failed"
    BY DEF oSvc_!In, Tasks
  <2> QED
    BY <1>2, <2>1
       DEF Holders, Awake, PooledInv, LoansAreOfRunningTasks, Busy
<1>5. /\ Cardinality(U) = Cardinality(Holders) + Cardinality(Awake)
      /\ Cardinality(U \cup sleeping) = Cardinality(U) + Cardinality(sleeping)
  <2>1. ASSUME NEW S \in SUBSET Tasks, NEW T \in SUBSET Tasks, S \cap T = {}
        PROVE  Cardinality(S \cup T) = Cardinality(S) + Cardinality(T)
    <3>1. /\ IsFiniteSet(S) /\ Cardinality(S) \in Nat
          /\ IsFiniteSet(T) /\ Cardinality(T) \in Nat
      BY TasksAreFinite
    <3>2. Cardinality(S \cup T)
            = Cardinality(S) + Cardinality(T) - Cardinality(S \cap T)
      BY <3>1, FS_Union
    <3>3. Cardinality(S \cap T) = 0
      BY <2>1, FS_EmptySet
    <3> QED
      BY <3>1, <3>2, <3>3
  <2> HIDE DEF U
  <2> QED
    BY <1>1, <1>2, <1>3, <2>1 DEF U
<1> HIDE DEF U
<1>6. /\ Cardinality(Holders) \in Nat /\ Cardinality(Awake) \in Nat
      /\ Cardinality(sleeping) \in Nat /\ Cardinality(Busy) \in Nat
      /\ IsFiniteSet(Busy) /\ IsFiniteSet(sleeping)
  BY <1>1, TasksAreFinite
<1>7. Cardinality(U \cup sleeping) <= Cardinality(Busy)
  BY <1>4, <1>6, FS_Subset
<1>8. Cardinality(Busy) <= iConcurrency
  BY DEF BoundedConcurrency
<1>9. Cardinality(sleeping) > 0
  BY <1>6, FS_EmptySet
<1>10. /\ count_ + Cardinality(Holders) = iConcurrency
       /\ count_ <= Cardinality(Awake) /\ count_ \in Nat
  BY DEF PooledInv, PermitsAreCounted, PermitsAreAskedFor, LoanTypes
<1> QED
  BY <1>5, <1>6, <1>7, <1>8, <1>9, <1>10, ConcurrencyAssumption

(* With as many connections as threads a task waits only while a failed    *)
(* checkout of another keeps a connection from it.                         *)
THEOREM TasksWaitOnlyForTheLost == PooledSpec => []WaitsOnlyForTheLost
  BY PooledInvariant, DispatcherHolds, ThreadsOutnumberNobody, PTL
=============================================================================
