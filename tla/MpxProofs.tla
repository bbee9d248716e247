------------------------------ MODULE MpxProofs ------------------------------
(* What a cancellation of mpx reaches, and what it comes from, how blocks  *)
(* of output and groups of commands follow each other, for every script,   *)
(* every parallelism and every behaviour of the children: the proofs about *)
(* ExtProc, then about Mpx, to which what holds of the loop carries over.  *)
EXTENDS Mpx, SequenceTheorems, WellFoundedInduction, TLAPS

USE ExtProcAssumption DEF Lines, None

LEMMA InitInv == Init => MpxInv
<1> SUFFICES ASSUME Init PROVE MpxInv
  OBVIOUS
<1>1. TypeOK
  <2>1. /\ at \in 1..(NumLines + 2) /\ oQueue_ \in Seq(Lines)
        /\ out \in Seq(Lines)
    BY DEF Init
  <2>2. /\ code \in [Lines -> {0, 1}] /\ eof \in [Lines -> BOOLEAN]
        /\ mtx_ \in Lines \cup {None}
    BY DEF Init
  <2>3. QED
    BY <2>1, <2>2 DEF Init, TypeOK
<1>2. LinesInOrder
  BY DEF Init, LinesInOrder
<1>3. ChildFollowsProc /\ RunningIsRegistered
  BY DEF Init, ChildFollowsProc, RunningIsRegistered
<1>4. LateOnesAreKnown /\ CancelReachesTheRest
  BY DEF Init, LateOnesAreKnown, CancelReachesTheRest
<1>5. CancelledForACause
  BY DEF Init, CancelledForACause, Fatal
<1>6. QED
  BY <1>1, <1>2, <1>3, <1>4, <1>5 DEF MpxInv

(* The main thread: the loop over the lines and vSynchronize.              *)
LEMMA MainPreserves == ASSUME MpxInv, Main PROVE MpxInv'
<1>1. CASE \/ Skip
           \/ RunAtOnce
           \/ DirectEnds
           \/ EndOfScript
           \/ LoopContinues
           \/ LoopLeaves
  <2> USE DEF MpxInv, TypeOK, LinesInOrder, ChildFollowsProc,
              RunningIsRegistered, LateOnesAreKnown, CancelReachesTheRest,
              CancelledForACause, Alive, Fatal, rtn, children, script
  <2>1. CASE Skip BY <2>1 DEF Skip
  <2>2. CASE RunAtOnce BY <2>2 DEF RunAtOnce
  <2>3. CASE DirectEnds BY <2>3 DEF DirectEnds
  <2>4. CASE EndOfScript BY <2>4 DEF EndOfScript
  <2>5. CASE LoopContinues BY <2>5 DEF LoopContinues
  <2>6. CASE LoopLeaves BY <2>6 DEF LoopLeaves
  <2>7. QED
    BY <1>1, <2>1, <2>2, <2>3, <2>4, <2>5, <2>6
<1>2. CASE Enqueue
  <2>1. TypeOK'
    BY <1>2 DEF MpxInv, TypeOK, Enqueue, rtn, children, script
  <2>2. LinesInOrder'
    BY <1>2 DEF MpxInv, TypeOK, LinesInOrder, Enqueue, rtn, children, script
  <2>3. ChildFollowsProc'
    BY <1>2 DEF MpxInv, TypeOK, ChildFollowsProc, LinesInOrder, Enqueue, rtn,
       children, script
  <2>4. RunningIsRegistered'
    BY <1>2 DEF MpxInv, TypeOK, ChildFollowsProc, RunningIsRegistered,
       LinesInOrder, Enqueue, rtn, children, script
  <2>5. LateOnesAreKnown'
    BY <1>2 DEF MpxInv, TypeOK, LateOnesAreKnown, LinesInOrder, Enqueue, rtn,
       children, script
  <2>6. CancelReachesTheRest'
    BY <1>2 DEF MpxInv, TypeOK, CancelReachesTheRest, ChildFollowsProc,
       RunningIsRegistered, LateOnesAreKnown, Alive, Enqueue, rtn, children,
       script
  <2>7. CancelledForACause'
    BY <1>2 DEF MpxInv, TypeOK, CancelledForACause, ChildFollowsProc, Fatal,
       LinesInOrder, Enqueue, rtn, children, script
  <2>8. QED
    BY <2>1, <2>2, <2>3, <2>4, <2>5, <2>6, <2>7 DEF MpxInv
<1>3. CASE Dispatch
  <2>1. TypeOK'
    BY <1>3 DEF MpxInv, TypeOK, Dispatch, rtn, children, script
  <2>2. LinesInOrder'
    <3>1. /\ oQueue_ \in Seq(Lines) /\ oQueue_ # <<>>
          /\ oQueue_' = Tail(oQueue_)
          /\ proc' = [proc EXCEPT ![oQueue_[1]] = "test"]
          /\ pc' = "test" /\ pc = "pop" /\ at' = at
      BY <1>3 DEF MpxInv, TypeOK, Dispatch
    <3>2. \A n \in DOMAIN oQueue_' : /\ n + 1 \in DOMAIN oQueue_
                                    /\ n # 0
                                    /\ oQueue_'[n] = oQueue_[n + 1]
      BY <3>1
    <3>3. 1 \in DOMAIN oQueue_ /\ oQueue_[1] \in Lines
      BY <3>1
    <3>4. \A n \in DOMAIN oQueue_' : oQueue_'[n] # oQueue_[1]
      <4>1. SUFFICES ASSUME NEW n \in DOMAIN oQueue_', oQueue_[n + 1] = oQueue_[1]
                     PROVE  FALSE
        BY <3>2
      <4>2. n + 1 = 1
        BY <3>2, <3>3, <4>1 DEF MpxInv, LinesInOrder
      <4>3. n \in Nat
        BY <3>1
      <4>4. QED
        BY <3>2, <4>2, <4>3
    <3>5. \A i \in Lines : i >= at' => proc'[i] = "none"
      <4>1. oQueue_[1] < at
        BY <3>3 DEF MpxInv, LinesInOrder
      <4>2. QED
        BY <3>1, <3>3, <4>1 DEF MpxInv, TypeOK, LinesInOrder
    <3>6. \A n \in DOMAIN oQueue_' :
            oQueue_'[n] < at' /\ proc'[oQueue_'[n]] = "none"
      BY <3>1, <3>2, <3>3, <3>4 DEF MpxInv, TypeOK, LinesInOrder
    <3>7. \A m, n \in DOMAIN oQueue_' : oQueue_'[m] = oQueue_'[n] => m = n
      <4>1. SUFFICES ASSUME NEW m \in DOMAIN oQueue_', NEW n \in DOMAIN oQueue_',
                            oQueue_[m + 1] = oQueue_[n + 1]
                     PROVE  m = n
        BY <3>2
      <4>2. m + 1 = n + 1
        BY <3>2, <4>1 DEF MpxInv, LinesInOrder
      <4>3. m \in Nat /\ n \in Nat
        BY <3>1, SMTT(20)
      <4>4. QED
        BY <4>2, <4>3
    <3>8. QED
      BY <3>1, <3>5, <3>6, <3>7 DEF LinesInOrder
  <2>3. ChildFollowsProc'
    BY <1>3 DEF MpxInv, TypeOK, ChildFollowsProc, LinesInOrder, Dispatch, rtn,
       children, script
  <2>4. RunningIsRegistered'
    BY <1>3 DEF MpxInv, TypeOK, ChildFollowsProc, RunningIsRegistered,
       LinesInOrder, Dispatch, rtn, children, script
  <2>5. LateOnesAreKnown'
    BY <1>3 DEF MpxInv, TypeOK, LateOnesAreKnown, LinesInOrder, Dispatch, rtn,
       children, script
  <2>6. CancelReachesTheRest'
    BY <1>3 DEF MpxInv, TypeOK, CancelReachesTheRest, ChildFollowsProc,
       RunningIsRegistered, LateOnesAreKnown, Alive, Dispatch, rtn, children,
       script
  <2>7. CancelledForACause'
    BY <1>3 DEF MpxInv, TypeOK, CancelledForACause, ChildFollowsProc, Fatal,
       LinesInOrder, Dispatch, rtn, children, script
  <2>8. QED
    BY <2>1, <2>2, <2>3, <2>4, <2>5, <2>6, <2>7 DEF MpxInv
<1>4. QED
  BY <1>1, <1>2, <1>3 DEF Main

(* vRun of a line and its callback.                                        *)
LEMMA RunPreserves == ASSUME MpxInv, NEW i \in Lines, vRun(i) PROVE MpxInv'
<1>1. CASE \/ Lock(i)
           \/ LaunchFails(i)
           \/ AddPid(i)
           \/ OnExit(i)
           \/ WriteStderr(i)
  <2> USE DEF MpxInv, TypeOK, LinesInOrder, ChildFollowsProc,
              RunningIsRegistered, LateOnesAreKnown, CancelReachesTheRest,
              CancelledForACause, Alive, Fatal, rtn, children, script, Goto, Pid
  <2>1. CASE Lock(i) BY <2>1 DEF Lock
  <2>2. CASE LaunchFails(i) BY <2>2 DEF LaunchFails
  <2>3. CASE AddPid(i) BY <2>3 DEF AddPid
  <2>4. CASE OnExit(i) BY <2>4 DEF OnExit
  <2>5. CASE WriteStderr(i) BY <2>5 DEF WriteStderr
  <2>6. QED
    BY <1>1, <2>1, <2>2, <2>3, <2>4, <2>5
<1>2. CASE Test(i)
  <2>1. TypeOK'
    BY <1>2 DEF MpxInv, TypeOK, Test, rtn, children, script, Goto
  <2>2. LinesInOrder'
    BY <1>2 DEF MpxInv, TypeOK, LinesInOrder, Test, rtn, children, script, Goto
  <2>3. ChildFollowsProc'
    BY <1>2 DEF MpxInv, TypeOK, ChildFollowsProc, LinesInOrder, Test, rtn,
       children, script, Goto
  <2>4. RunningIsRegistered'
    BY <1>2 DEF MpxInv, TypeOK, ChildFollowsProc, RunningIsRegistered,
       LinesInOrder, Test, rtn, children, script, Goto
  <2>5. LateOnesAreKnown'
    BY <1>2 DEF MpxInv, TypeOK, LateOnesAreKnown, LinesInOrder, Test, rtn,
       children, script, Goto
  <2>6. CancelReachesTheRest'
    BY <1>2 DEF MpxInv, TypeOK, CancelReachesTheRest, ChildFollowsProc,
       RunningIsRegistered, LateOnesAreKnown, Alive, Test, rtn, children,
       script, Goto
  <2>7. CancelledForACause'
    BY <1>2 DEF MpxInv, TypeOK, CancelledForACause, ChildFollowsProc, Fatal,
       LinesInOrder, Test, rtn, children, script, Goto
  <2>8. QED
    BY <2>1, <2>2, <2>3, <2>4, <2>5, <2>6, <2>7 DEF MpxInv
<1>3. CASE Launch(i)
  <2>1. TypeOK'
    BY <1>3 DEF MpxInv, TypeOK, Launch, rtn, children, script, Goto
  <2>2. LinesInOrder'
    BY <1>3 DEF MpxInv, TypeOK, LinesInOrder, Launch, rtn, children, script,
       Goto
  <2>3. ChildFollowsProc'
    BY <1>3, SMTT(20) DEF MpxInv, TypeOK, ChildFollowsProc, LinesInOrder, Launch, rtn,
       children, script, Goto
  <2>4. RunningIsRegistered'
    BY <1>3 DEF MpxInv, TypeOK, ChildFollowsProc, RunningIsRegistered,
       LinesInOrder, Launch, rtn, children, script, Goto
  <2>5. LateOnesAreKnown'
    BY <1>3 DEF MpxInv, TypeOK, LateOnesAreKnown, LinesInOrder, Launch, rtn,
       children, script, Goto
  <2>6. CancelReachesTheRest'
    BY <1>3 DEF MpxInv, TypeOK, CancelReachesTheRest, ChildFollowsProc,
       RunningIsRegistered, LateOnesAreKnown, Alive, Launch, rtn, children,
       script, Goto
  <2>7. CancelledForACause'
    BY <1>3 DEF MpxInv, TypeOK, CancelledForACause, ChildFollowsProc, Fatal,
       LinesInOrder, Launch, rtn, children, script, Goto
  <2>8. QED
    BY <2>1, <2>2, <2>3, <2>4, <2>5, <2>6, <2>7 DEF MpxInv
<1>4. CASE OnExitLock(i)
  <2>1. TypeOK'
    BY <1>4 DEF MpxInv, TypeOK, OnExitLock, rtn, children, script, Goto
  <2>2. LinesInOrder'
    BY <1>4 DEF MpxInv, TypeOK, LinesInOrder, OnExitLock, rtn, children, script,
       Goto
  <2>3. ChildFollowsProc'
    BY <1>4 DEF MpxInv, TypeOK, ChildFollowsProc, LinesInOrder, OnExitLock, rtn,
       children, script, Goto
  <2>4. RunningIsRegistered'
    BY <1>4 DEF MpxInv, TypeOK, ChildFollowsProc, RunningIsRegistered,
       LinesInOrder, OnExitLock, rtn, children, script, Goto
  <2>5. LateOnesAreKnown'
    BY <1>4 DEF MpxInv, TypeOK, LateOnesAreKnown, LinesInOrder, OnExitLock, rtn,
       children, script, Goto
  <2>6. CancelReachesTheRest'
    BY <1>4 DEF MpxInv, TypeOK, CancelReachesTheRest, ChildFollowsProc,
       RunningIsRegistered, LateOnesAreKnown, Alive, OnExitLock, rtn, children,
       script, Goto
  <2>7. CancelledForACause'
    BY <1>4 DEF MpxInv, TypeOK, CancelledForACause, ChildFollowsProc, Fatal,
       LinesInOrder, OnExitLock, rtn, children, script, Goto
  <2>8. QED
    BY <2>1, <2>2, <2>3, <2>4, <2>5, <2>6, <2>7 DEF MpxInv
<1>5. CASE WriteStdout(i)
  <2>1. TypeOK'
    BY <1>5 DEF MpxInv, TypeOK, WriteStdout, rtn, children, script, Goto
  <2>2. LinesInOrder'
    BY <1>5 DEF MpxInv, TypeOK, LinesInOrder, WriteStdout, rtn, children,
       script, Goto
  <2>3. ChildFollowsProc'
    BY <1>5 DEF MpxInv, TypeOK, ChildFollowsProc, LinesInOrder, WriteStdout,
       rtn, children, script, Goto
  <2>4. RunningIsRegistered'
    BY <1>5 DEF MpxInv, TypeOK, ChildFollowsProc, RunningIsRegistered,
       LinesInOrder, WriteStdout, rtn, children, script, Goto
  <2>5. LateOnesAreKnown'
    BY <1>5 DEF MpxInv, TypeOK, LateOnesAreKnown, LinesInOrder, WriteStdout,
       rtn, children, script, Goto
  <2>6. CancelReachesTheRest'
    BY <1>5 DEF MpxInv, TypeOK, CancelReachesTheRest, ChildFollowsProc,
       RunningIsRegistered, LateOnesAreKnown, Alive, WriteStdout, rtn, children,
       script, Goto
  <2>7. CancelledForACause'
    BY <1>5 DEF MpxInv, TypeOK, CancelledForACause, ChildFollowsProc, Fatal,
       LinesInOrder, WriteStdout, rtn, children, script, Goto
  <2>8. QED
    BY <2>1, <2>2, <2>3, <2>4, <2>5, <2>6, <2>7 DEF MpxInv
<1>6. CASE DelPid(i)
  <2>1. TypeOK'
    BY <1>6 DEF MpxInv, TypeOK, DelPid, rtn, children, script, Goto
  <2>2. LinesInOrder'
    BY <1>6 DEF MpxInv, TypeOK, LinesInOrder, DelPid, rtn, children, script,
       Goto
  <2>3. ChildFollowsProc'
    BY <1>6 DEF MpxInv, TypeOK, ChildFollowsProc, LinesInOrder, DelPid, rtn,
       children, script, Goto
  <2>4. RunningIsRegistered'
    BY <1>6 DEF MpxInv, TypeOK, ChildFollowsProc, RunningIsRegistered,
       LinesInOrder, DelPid, rtn, children, script, Goto
  <2>5. LateOnesAreKnown'
    BY <1>6 DEF MpxInv, TypeOK, LateOnesAreKnown, LinesInOrder, DelPid, rtn,
       children, script, Goto
  <2>6. CancelReachesTheRest'
    BY <1>6 DEF MpxInv, TypeOK, CancelReachesTheRest, ChildFollowsProc,
       RunningIsRegistered, LateOnesAreKnown, Alive, DelPid, rtn, children,
       script, Goto
  <2>7. CancelledForACause'
    BY <1>6 DEF MpxInv, TypeOK, CancelledForACause, ChildFollowsProc, Fatal,
       LinesInOrder, DelPid, rtn, children, script, Goto
  <2>8. QED
    BY <2>1, <2>2, <2>3, <2>4, <2>5, <2>6, <2>7 DEF MpxInv
<1>7. CASE Judge(i)
  <2>1. TypeOK'
    BY <1>7 DEF MpxInv, TypeOK, Judge, Break, Fatal, rtn, children, script, Goto
  <2>2. LinesInOrder'
    BY <1>7 DEF MpxInv, TypeOK, LinesInOrder, Judge, Break, Fatal, rtn,
       children, script, Goto
  <2>3. ChildFollowsProc'
    BY <1>7 DEF MpxInv, TypeOK, ChildFollowsProc, LinesInOrder, Judge, Break,
       Fatal, rtn, children, script, Goto
  <2>4. RunningIsRegistered'
    BY <1>7 DEF MpxInv, TypeOK, ChildFollowsProc, RunningIsRegistered,
       LinesInOrder, Judge, Break, Fatal, rtn, children, script, Goto
  <2>5. LateOnesAreKnown'
    BY <1>7 DEF MpxInv, TypeOK, LateOnesAreKnown, LinesInOrder, Judge, Break,
       Fatal, rtn, children, script, Goto
  <2>6. CancelReachesTheRest'
    BY <1>7 DEF MpxInv, TypeOK, CancelReachesTheRest, ChildFollowsProc,
       RunningIsRegistered, LateOnesAreKnown, Alive, Judge, Break, Fatal, rtn,
       children, script, Goto
  <2>7. CancelledForACause'
    BY <1>7 DEF MpxInv, TypeOK, CancelledForACause, ChildFollowsProc, Fatal,
       LinesInOrder, Judge, Break, Fatal, rtn, children, script, Goto
  <2>8. QED
    BY <2>1, <2>2, <2>3, <2>4, <2>5, <2>6, <2>7 DEF MpxInv
<1>8. QED
  BY <1>1, <1>2, <1>3, <1>4, <1>5, <1>6, <1>7 DEF vRun

(* The signal thread and the children.                                     *)
LEMMA WorldPreserves ==
  ASSUME MpxInv,
         SignalArrives \/ \E i \in Lines : ChildExits(i) \/ OutputEnds(i)
  PROVE  MpxInv'
<1> USE DEF MpxInv, TypeOK, LinesInOrder, ChildFollowsProc,
              RunningIsRegistered, LateOnesAreKnown, CancelReachesTheRest,
              CancelledForACause, Alive, Fatal, rtn, children, script
<1>1. CASE SignalArrives
  BY <1>1 DEF SignalArrives, Break
<1>2. ASSUME NEW i \in Lines, ChildExits(i) PROVE MpxInv'
  <2>1. PICK c \in {0, 1} : code' = [code EXCEPT ![i] = c]
    BY <1>2 DEF ChildExits
  <2>2. /\ code' \in [Lines -> {0, 1}]
        /\ child' \in [Lines -> {"none", "running", "failed", "exited",
                                "reaped"}]
    BY <1>2, <2>1 DEF ChildExits
  <2>3. TypeOK' /\ LinesInOrder'
    BY <1>2, <2>2 DEF ChildExits
  <2>4. ChildFollowsProc' /\ RunningIsRegistered'
    BY <1>2, <2>1 DEF ChildExits
  <2>5. LateOnesAreKnown' /\ CancelReachesTheRest'
    BY <1>2 DEF ChildExits
  <2>6. \A j \in Lines : (Fatal(j))' => Fatal(j) \/ (j = i /\ proc[j] # "done")
    <3>1. proc[i] # "done"
      BY <1>2 DEF ChildExits
    <3>2. stmts' = stmts /\ \A j \in Lines : j # i => code'[j] = code[j]
      BY <1>2, <2>1 DEF ChildExits
    <3>3. \A j \in Lines : j # i /\ (Fatal(j))' => Fatal(j)
      BY <3>2
    <3>4. QED
      BY <3>1, <3>3
  <2>7. \A j \in Lines : Fatal(j) => (Fatal(j))'
    <3>1. ~Fatal(i)
      BY <1>2 DEF ChildExits
    <3>2. \A j \in Lines : j # i => code'[j] = code[j]
      BY <2>1
    <3>3. QED
      BY <1>2, <3>1, <3>2 DEF ChildExits
  <2>8. CancelledForACause'
    BY <1>2, <2>6, <2>7 DEF ChildExits
  <2>9. QED
    BY <2>3, <2>4, <2>5, <2>8
<1>3. ASSUME NEW i \in Lines, OutputEnds(i) PROVE MpxInv'
  BY <1>3 DEF OutputEnds
<1>4. QED
  BY <1>1, <1>2, <1>3

LEMMA InvariantNext == ASSUME MpxInv, [Next]_vars PROVE MpxInv'
<1>1. CASE Main
  BY <1>1, MainPreserves
<1>2. CASE \E i \in Lines : vRun(i)
  BY <1>2, RunPreserves
<1>3. CASE SignalArrives \/ \E i \in Lines : ChildExits(i) \/ OutputEnds(i)
  BY <1>3, WorldPreserves
<1>4. CASE UNCHANGED vars
  BY <1>4 DEF vars, MpxInv, TypeOK, LinesInOrder, ChildFollowsProc,
            RunningIsRegistered, LateOnesAreKnown, CancelReachesTheRest,
            CancelledForACause, Alive, Fatal, rtn, children, script
<1>5. QED
  BY <1>1, <1>2, <1>3, <1>4 DEF Next

(* The invariant holds, whatever children, threads and signals do.         *)
THEOREM InvariantHolds == Spec => []MpxInv
<1>1. Init => MpxInv
  BY InitInv
<1>2. MpxInv /\ [Next]_vars => MpxInv'
  BY InvariantNext
<1>3. QED
  BY <1>1, <1>2, PTL DEF Spec

(* The state of mpx stays well typed.                                      *)
THEOREM TypeCorrect == Spec => []TypeOK
<1>1. MpxInv => TypeOK
  BY DEF MpxInv
<1>2. QED
  BY <1>1, InvariantHolds, PTL

(* A cancellation - rtn_.vBreak by a signal or a failed child - sends      *)
(* SIGTERM to every child that lives, but for those on their way between   *)
(* the test of iCotinue and vAddPid.                                       *)
THEOREM CancelIsBounded == Spec => []CancelReachesTheRest
<1>1. MpxInv => CancelReachesTheRest
  BY DEF MpxInv
<1>2. QED
  BY <1>1, InvariantHolds, PTL

(* mpx is cancelled exactly by a signal or by a failure not in ignlist.    *)
THEOREM CancelIsJustified == Spec => []CancelledForACause
<1>1. MpxInv => CancelledForACause
  BY DEF MpxInv
<1>2. QED
  BY <1>1, InvariantHolds, PTL

-----------------------------------------------------------------------------
(* The output.                                                             *)

(* What a step of vRun leaves alone.                                       *)
LEMMA RunMoves ==
  ASSUME MpxInv, NEW i \in Lines, vRun(i)
  PROVE  /\ UNCHANGED <<stmts, pc, at, oQueue_>>
         /\ proc[i] # "done" /\ proc[i] # "none"
         /\ \A j \in Lines : j # i => proc'[j] = proc[j] /\ child'[j] = child[j]
         /\ cont_' => cont_
         /\ out' # out => WriteStdout(i) \/ WriteStderr(i)
<1> USE DEF MpxInv, TypeOK, Goto, script, rtn, children
<1>1. CASE Test(i) BY <1>1 DEF Test
<1>2. CASE Lock(i) BY <1>2 DEF Lock
<1>3. CASE Launch(i) BY <1>3 DEF Launch
<1>4. CASE LaunchFails(i) BY <1>4 DEF LaunchFails
<1>5. CASE AddPid(i) BY <1>5 DEF AddPid
<1>6. CASE OnExit(i) BY <1>6 DEF OnExit
<1>7. CASE OnExitLock(i) BY <1>7 DEF OnExitLock
<1>8. CASE WriteStdout(i) BY <1>8 DEF WriteStdout
<1>9. CASE WriteStderr(i) BY <1>9 DEF WriteStderr
<1>10. CASE DelPid(i) BY <1>10 DEF DelPid
<1>11. CASE Judge(i) BY <1>11 DEF Judge, Break
<1>12. QED
  BY <1>1, <1>2, <1>3, <1>4, <1>5, <1>6, <1>7, <1>8, <1>9, <1>10, <1>11
     DEF vRun

LEMMA RunKeepsTheMutex ==
  ASSUME MpxInv, WriterHasTheMutex, NEW i \in Lines, vRun(i)
  PROVE  WriterHasTheMutex'
<1>1. i \in DOMAIN proc
  BY DEF MpxInv, TypeOK
<1>2. \A j \in Lines \ {i} : proc'[j] = proc[j]
  BY RunMoves
<1>3. i # None
  OBVIOUS
<1> USE DEF Goto
<1>4. CASE Lock(i) \/ OnExitLock(i)
  BY <1>1, <1>2, <1>3, <1>4 DEF Lock, OnExitLock, WriterHasTheMutex
<1>5. CASE AddPid(i) \/ Judge(i)
  BY <1>1, <1>2, <1>3, <1>5 DEF AddPid, Judge, WriterHasTheMutex
<1>6. CASE \/ Test(i) \/ Launch(i) \/ LaunchFails(i) \/ OnExit(i)
           \/ WriteStdout(i) \/ WriteStderr(i) \/ DelPid(i)
  BY <1>1, <1>2, <1>6 DEF Test, Launch, LaunchFails, OnExit, WriteStdout,
     WriteStderr, DelPid, WriterHasTheMutex
<1>7. QED
  BY <1>4, <1>5, <1>6 DEF vRun

LEMMA RunKeepsBlocks ==
  ASSUME OutputInv, NEW i \in Lines, vRun(i)
  PROVE  CutBlockGoesOn' /\ WholeBlocks'
<1>1. /\ i \in DOMAIN proc /\ out \in Seq(Lines)
      /\ \A j \in Lines \ {i} : proc'[j] = proc[j]
  BY RunMoves DEF OutputInv, MpxInv, TypeOK
<1>2. CutBlockGoesOn /\ WholeBlocks
  BY DEF OutputInv
<1>3. Len(out) \in Nat
  BY <1>1
<1>4. CASE WriteStdout(i)
  <2>1. /\ proc[i] = "stdout" /\ proc'[i] = "stderr" /\ out' = Append(out, i)
    BY <1>1, <1>4 DEF WriteStdout, Goto
  <2>2. mtx_ = i
    BY <2>1 DEF OutputInv, WriterHasTheMutex
  <2>3. \A j \in Lines : proc[j] # "stderr"
    BY <2>1, <2>2 DEF OutputInv, WriterHasTheMutex
  <2>4. Len(out) % 2 = 0
    BY <1>2, <1>3, <2>3 DEF CutBlockGoesOn
  <2>5. /\ Len(out') = Len(out) + 1 /\ out'[Len(out')] = i
        /\ \A n \in 1..Len(out) : out'[n] = out[n]
    BY <1>1, <2>1
  <2>6. Len(out') % 2 = 1
    BY <1>3, <2>4, <2>5
  <2>7. \A n \in DOMAIN out' : n % 2 = 0 => n \in 1..Len(out) /\ n - 1 \in 1..Len(out)
    BY <1>1, <1>3, <2>1, <2>5, <2>6, SMTT(20)
  <2>8. WholeBlocks'
    <3>1. \A n \in 1..Len(out) : n % 2 = 0 => out[n] = out[n - 1]
      <4>1. DOMAIN out = 1..Len(out)
        BY <1>1
      <4>2. QED
        BY <1>2, <4>1, Zenon DEF WholeBlocks
    <3>2. SUFFICES ASSUME NEW n \in DOMAIN out', n % 2 = 0
                   PROVE  out'[n] = out'[n - 1]
      BY DEF WholeBlocks
    <3>3. n \in 1..Len(out) /\ n - 1 \in 1..Len(out)
      BY <2>7, <3>2
    <3>4. out'[n] = out[n] /\ out'[n - 1] = out[n - 1] /\ out[n] = out[n - 1]
      BY <2>5, <3>1, <3>2, <3>3
    <3>5. QED
      BY <3>4
  <2>9. CutBlockGoesOn'
    BY <1>1, <2>1, <2>3, <2>5, <2>6, SMTT(20) DEF CutBlockGoesOn
  <2>10. QED
    BY <2>8, <2>9
<1>5. CASE WriteStderr(i)
  <2>1. /\ proc[i] = "stderr" /\ proc'[i] = "delete" /\ out' = Append(out, i)
    BY <1>1, <1>5 DEF WriteStderr, Goto
  <2>2. mtx_ = i
    BY <2>1 DEF OutputInv, WriterHasTheMutex
  <2>3. \A j \in Lines \ {i} : proc[j] # "stderr"
    BY <2>2 DEF OutputInv, WriterHasTheMutex
  <2>4. Len(out) % 2 = 1 /\ out[Len(out)] = i
    BY <1>2, <2>1 DEF CutBlockGoesOn
  <2>5. /\ Len(out') = Len(out) + 1 /\ out'[Len(out')] = i
        /\ \A n \in 1..Len(out) : out'[n] = out[n]
    BY <1>1, <2>1
  <2>6. Len(out') % 2 = 0
    BY <1>3, <2>4, <2>5
  <2>7. Len(out) >= 1
    BY <1>3, <2>4
  <2>8. WholeBlocks'
    <3>1. SUFFICES ASSUME NEW n \in DOMAIN out', n % 2 = 0
                   PROVE  out'[n] = out'[n - 1]
      BY DEF WholeBlocks
    <3>2. n \in 1..(Len(out) + 1)
      BY <1>1, <2>1
    <3>3. CASE n = Len(out) + 1
      <4>1. out'[n] = i
        BY <2>5, <3>3
      <4>2. n - 1 = Len(out) /\ n - 1 \in 1..Len(out)
        BY <1>3, <2>7, <3>3
      <4>3. QED
        BY <2>4, <2>5, <4>1, <4>2
    <3>4. CASE n # Len(out) + 1
      <4>1. n \in 1..Len(out) /\ n - 1 \in 1..Len(out)
        BY <1>3, <3>1, <3>2, <3>4
      <4>2. n \in DOMAIN out
        BY <1>1, <4>1
      <4>3. QED
        BY <1>2, <2>5, <3>1, <4>1, <4>2 DEF WholeBlocks
    <3>5. QED
      BY <3>3, <3>4
  <2>9. CutBlockGoesOn'
    BY <1>1, <2>1, <2>3, <2>5, <2>6 DEF CutBlockGoesOn
  <2>10. QED
    BY <2>8, <2>9
<1>6. CASE ~WriteStdout(i) /\ ~WriteStderr(i)
  <2>1. out' = out
    BY <1>6, RunMoves DEF OutputInv
  <2>2. proc[i] # "stderr" /\ proc'[i] # "stderr"
    BY <1>1, <1>6 DEF vRun, Test, Lock, Launch, LaunchFails, AddPid, OnExit,
       OnExitLock, DelPid, Judge, Goto
  <2>3. QED
    BY <1>1, <1>2, <2>1, <2>2 DEF CutBlockGoesOn, WholeBlocks
<1>7. QED
  BY <1>4, <1>5, <1>6

(* The main thread, a signal and the children write nothing, and do not    *)
(* take the mutex or give it back.                                         *)
LEMMA OthersWriteNothing ==
  ASSUME MpxInv,
         \/ Main \/ SignalArrives \/ UNCHANGED vars
         \/ \E i \in Lines : ChildExits(i) \/ OutputEnds(i)
  PROVE  /\ UNCHANGED <<out, mtx_>>
         /\ \A i \in Lines : \/ proc'[i] = proc[i]
                             \/ proc[i] = "none" /\ proc'[i] = "test"
<1> USE DEF MpxInv, TypeOK
<1>1. CASE Dispatch
  <2>1. /\ Head(oQueue_) \in Lines /\ proc[Head(oQueue_)] = "none"
    BY <1>1 DEF Dispatch, LinesInOrder
  <2>2. QED
    BY <1>1, <2>1 DEF Dispatch
<1>2. CASE RunAtOnce
  BY <1>2 DEF RunAtOnce, LinesInOrder
<1>3. CASE \/ Skip \/ DirectEnds \/ Enqueue \/ EndOfScript \/ LoopContinues
           \/ LoopLeaves
  BY <1>3 DEF Skip, DirectEnds, Enqueue, EndOfScript, LoopContinues, LoopLeaves
<1>4. CASE SignalArrives
  BY <1>4 DEF SignalArrives
<1>5. CASE \E i \in Lines : ChildExits(i) \/ OutputEnds(i)
  BY <1>5 DEF ChildExits, OutputEnds
<1>6. CASE UNCHANGED vars
  BY <1>6 DEF vars
<1>7. QED
  BY <1>1, <1>2, <1>3, <1>4, <1>5, <1>6 DEF Main

LEMMA OutputNext == ASSUME OutputInv, [Next]_vars PROVE OutputInv'
<1>1. MpxInv'
  BY InvariantNext DEF OutputInv
<1>2. CASE \/ Main \/ SignalArrives \/ UNCHANGED vars
           \/ \E i \in Lines : ChildExits(i) \/ OutputEnds(i)
  <2>1. /\ UNCHANGED <<out, mtx_>>
        /\ \A i \in Lines : \/ proc'[i] = proc[i]
                            \/ proc[i] = "none" /\ proc'[i] = "test"
    BY <1>2, OthersWriteNothing DEF OutputInv
  <2>2. QED
    BY <1>1, <2>1 DEF OutputInv, WriterHasTheMutex, CutBlockGoesOn, WholeBlocks
<1>3. ASSUME NEW i \in Lines, vRun(i) PROVE OutputInv'
  BY <1>1, <1>3, RunKeepsTheMutex, RunKeepsBlocks DEF OutputInv
<1>4. QED
  BY <1>2, <1>3 DEF Next

(* However many children run at once, what one of them has written stands  *)
(* in the output in one piece.                                             *)
THEOREM BlocksAreWhole == Spec => []WholeBlocks
<1>1. Init => OutputInv
  <2>1. Init => Len(out) = 0 /\ DOMAIN out = {}
    BY DEF Init
  <2>2. Init => WriterHasTheMutex /\ CutBlockGoesOn /\ WholeBlocks
    BY <2>1 DEF Init, WriterHasTheMutex, CutBlockGoesOn, WholeBlocks
  <2>3. QED
    BY <2>2, InitInv DEF OutputInv
<1>2. OutputInv /\ [Next]_vars => OutputInv'
  BY OutputNext
<1>3. OutputInv => WholeBlocks
  BY DEF OutputInv
<1>4. QED
  BY <1>1, <1>2, <1>3, PTL DEF Spec

-----------------------------------------------------------------------------
(* The order of the groups.                                                *)

LEMMA QueueHoldsLines ==
  ASSUME MpxInv, NEW j, Queued(j)
  PROVE  j \in Lines /\ j < at /\ proc[j] = "none"
<1>1. PICK n \in DOMAIN oQueue_ : oQueue_[n] = j
  BY DEF Queued
<1>2. oQueue_ \in Seq(Lines)
  BY DEF MpxInv, TypeOK
<1>3. oQueue_[n] \in Lines
  BY <1>2
<1>4. QED
  BY <1>1, <1>3 DEF MpxInv, LinesInOrder

(* A group goes on where the next line names the same program, and is not  *)
(* continued by a comment or by a line that is run at once.                *)
LEMMA GroupsGoOn ==
  ASSUME NEW i \in Lines, NEW j \in Lines, j + 1 \in Lines, i < j + 1,
         ~Remark(i), ~SameGroup(i, j + 1)
  PROVE  /\ ~Remark(j) /\ stmts[j] \in MaxList /\ stmts[j + 1] = stmts[j]
              => i < j /\ ~SameGroup(i, j)
         /\ Remark(j) \/ stmts[j] \notin MaxList => i = j \/ ~SameGroup(i, j)
<1>1. i..(j + 1) = (i..j) \cup {j + 1} /\ j \in i..j
  OBVIOUS
<1>2. ASSUME stmts[j] \in MaxList, stmts[j + 1] = stmts[j]
      PROVE  i < j /\ ~SameGroup(i, j)
  <2>1. i = j => SameGroup(i, j + 1)
    BY <1>2 DEF SameGroup
  <2>2. SameGroup(i, j) => SameGroup(i, j + 1)
    BY <1>1, <1>2 DEF SameGroup
  <2>3. QED
    BY <2>1, <2>2
<1>3. ASSUME Remark(j) \/ stmts[j] \notin MaxList, SameGroup(i, j)
      PROVE  FALSE
  BY <1>1, <1>3 DEF SameGroup, Remark
<1>4. QED
  BY <1>2, <1>3

(* What the main thread does to the queue, the threads and its position.   *)
LEMMA MainMoves ==
  ASSUME MpxInv, Main
  PROVE  /\ UNCHANGED <<stmts, cont_, child>>
         /\ \A j \in Lines :
              \/ proc'[j] = proc[j]
              \/ proc[j] = "none" /\ proc'[j] = "test"
         /\ at \in Nat
<1> USE DEF MpxInv, TypeOK, rtn, children
<1>1. CASE Dispatch
  <2>1. Head(oQueue_) \in Lines /\ proc[Head(oQueue_)] = "none"
    BY <1>1 DEF Dispatch, LinesInOrder
  <2>2. QED
    BY <1>1, <2>1 DEF Dispatch
<1>2. CASE RunAtOnce
  BY <1>2 DEF RunAtOnce, LinesInOrder
<1>3. CASE \/ Skip \/ DirectEnds \/ Enqueue \/ EndOfScript \/ LoopContinues
           \/ LoopLeaves
  BY <1>3 DEF Skip, DirectEnds, Enqueue, EndOfScript, LoopContinues, LoopLeaves
<1>4. QED
  BY <1>1, <1>2, <1>3 DEF Main

LEMMA QueueMoves ==
  ASSUME MpxInv, Main
  PROVE  /\ ~Enqueue /\ ~Dispatch => oQueue_' = oQueue_
         /\ Enqueue => \A j : (Queued(j))' <=> Queued(j) \/ j = at
         /\ Dispatch => /\ Queued(oQueue_[1])
                        /\ \A j : Queued(j) <=> (Queued(j))' \/ j = oQueue_[1]
<1>1. oQueue_ \in Seq(Lines) /\ at \in Nat
  BY DEF MpxInv, TypeOK
<1>2. ~Enqueue /\ ~Dispatch => oQueue_' = oQueue_
  BY DEF Main, Skip, RunAtOnce, DirectEnds, EndOfScript, LoopContinues,
         LoopLeaves
<1>3. ASSUME Enqueue
      PROVE  \A j : (Queued(j))' <=> Queued(j) \/ j = at
  <2>1. /\ Len(oQueue_) \in Nat /\ Len(oQueue_') = Len(oQueue_) + 1
        /\ DOMAIN oQueue_ = 1..Len(oQueue_)
        /\ DOMAIN oQueue_' = 1..(Len(oQueue_) + 1)
        /\ \A n \in 1..Len(oQueue_) : oQueue_'[n] = oQueue_[n]
        /\ oQueue_'[Len(oQueue_) + 1] = at
    BY <1>1, <1>3 DEF Enqueue
  <2>2. QED
    BY <2>1 DEF Queued
<1>4. ASSUME Dispatch
      PROVE  /\ Queued(oQueue_[1])
             /\ \A j : Queued(j) <=> (Queued(j))' \/ j = oQueue_[1]
  <2>1. /\ Len(oQueue_) \in Nat \ {0}
        /\ DOMAIN oQueue_ = 1..Len(oQueue_)
        /\ DOMAIN oQueue_' = 1..(Len(oQueue_) - 1)
        /\ \A n \in 1..(Len(oQueue_) - 1) : oQueue_'[n] = oQueue_[n + 1]
    BY <1>1, <1>4 DEF Dispatch, MpxInv, TypeOK
  <2>2. 1 \in DOMAIN oQueue_
    BY <2>1
  <2>3. \A n \in DOMAIN oQueue_ : n = 1 \/ n - 1 \in DOMAIN oQueue_'
    BY <2>1
  <2>4. \A n \in DOMAIN oQueue_' : n + 1 \in DOMAIN oQueue_
    BY <2>1
  <2>5. \A n \in DOMAIN oQueue_ \ {1} : oQueue_'[n - 1] = oQueue_[n]
    BY <2>1
  <2>6. \A j : (Queued(j))' => Queued(j)
    BY <2>1, <2>4 DEF Queued
  <2>7. \A j : Queued(j) => (Queued(j))' \/ j = oQueue_[1]
    BY <2>3, <2>5 DEF Queued
  <2>8. QED
    BY <2>2, <2>6, <2>7 DEF Queued
<1>5. QED
  BY <1>2, <1>3, <1>4

(* In the loop over the lines whoever comes before the next line and is of *)
(* another group is through.                                               *)
LEMMA NextLineMayRun ==
  ASSUME OrderInv, pc = "line", cont_, at \in Lines,
         NEW i \in Lines, Before(i, at)
  PROVE  proc[i] = "done"
BY DEF OrderInv, LinesAreTaken, Before

LEMMA MainKeepsOrder ==
  ASSUME OrderInv, Main
  PROVE  EarlierGroupsAreThrough'
<1>0. MpxInv
  BY DEF OrderInv
<1>1. /\ UNCHANGED <<stmts, cont_, child>>
      /\ \A j \in Lines : \/ proc'[j] = proc[j]
                          \/ proc[j] = "none" /\ proc'[j] = "test"
  BY <1>0, MainMoves
<1>2. SUFFICES ASSUME NEW i \in Lines, NEW j \in Lines, Before(i, j),
                      \/ Launching(j)'
                      \/ cont_ /\ (proc'[j] = "test" \/ Queued(j)')
               PROVE  proc[i] = "done"
  BY <1>1 DEF EarlierGroupsAreThrough, Before, SameGroup, Remark
<1>3. \/ Launching(j)
      \/ cont_ /\ (proc[j] = "test" \/ Queued(j))
      \/ cont_ /\ pc = "line" /\ j = at
  <2>1. CASE Launching(j)'
    BY <1>1, <2>1 DEF Launching
  <2>2. CASE cont_ /\ proc'[j] = "test" /\ proc[j] # "test"
    <3>1. CASE RunAtOnce
      BY <1>0, <2>2, <3>1 DEF RunAtOnce, MpxInv, TypeOK
    <3>2. CASE Dispatch
      <4>1. j = oQueue_[1]
        BY <1>0, <2>2, <3>2 DEF Dispatch, MpxInv, TypeOK
      <4>2. QED
        BY <1>0, <2>2, <3>2, <4>1, QueueMoves
    <3>3. CASE ~RunAtOnce /\ ~Dispatch
      BY <2>2, <3>3 DEF Main, Skip, DirectEnds, Enqueue, EndOfScript,
         LoopContinues, LoopLeaves
    <3>4. QED
      BY <3>1, <3>2, <3>3
  <2>3. CASE cont_ /\ Queued(j)' /\ ~Queued(j)
    <3>1. CASE Enqueue
      BY <1>0, <2>3, <3>1, QueueMoves DEF Enqueue
    <3>2. CASE ~Enqueue
      BY <1>0, <2>3, <3>2, QueueMoves DEF Queued
    <3>3. QED
      BY <3>1, <3>2
  <2>4. QED
    BY <1>2, <2>1, <2>2, <2>3
<1>4. QED
  BY <1>2, <1>3, NextLineMayRun DEF OrderInv, EarlierGroupsAreThrough

LEMMA MainKeepsLines ==
  ASSUME OrderInv, Main
  PROVE  LinesAreTaken'
<1>0. MpxInv /\ LinesAreTaken
  BY DEF OrderInv
<1>1. /\ UNCHANGED <<stmts, cont_, child>> /\ at \in Nat
      /\ \A j \in Lines : \/ proc'[j] = proc[j]
                          \/ proc[j] = "none" /\ proc'[j] = "test"
  BY <1>0, MainMoves
<1>2. SUFFICES ASSUME cont_, cont_'
      PROVE
        /\ pc' = "line" =>
             \A i \in Lines : i < at' /\ ~Remark(i) =>
               \/ proc'[i] = "done"
               \/ (Queued(i))' /\ (at' \in Lines => SameGroup(i, at'))
        /\ pc' = "direct" =>
             \A i \in Lines : i < at' /\ ~Remark(i) => proc'[i] = "done"
        /\ pc' \in {"test", "pop"} =>
             \A i \in Lines : i < at' /\ ~Remark(i) =>
               (Queued(i))' \/ proc'[i] # "none"
  BY <1>1 DEF LinesAreTaken, SameGroup, Remark
<1>3. \A i \in Lines : proc[i] = "done" => proc'[i] = "done"
  BY <1>1
<1>4. CASE Skip
  <2>1. pc = "line" /\ pc' = "line" /\ at \in Lines /\ Remark(at) /\ at' = at + 1
        /\ proc' = proc /\ oQueue_' = oQueue_
    BY <1>4 DEF Skip
  <2>2. ASSUME NEW i \in Lines, i < at + 1, ~Remark(i), proc[i] # "done"
        PROVE  Queued(i) /\ (at + 1 \in Lines => SameGroup(i, at + 1))
    <3>1. i < at
      BY <1>1, <2>1, <2>2
    <3>2. Queued(i) /\ SameGroup(i, at)
      BY <1>0, <1>2, <2>1, <2>2, <3>1 DEF LinesAreTaken
    <3>3. FALSE
      BY <2>1, <2>2, <3>1, <3>2 DEF SameGroup, Remark
    <3>4. QED
      BY <3>3
  <2>3. QED
    BY <2>1, <2>2 DEF Queued
<1>5. CASE Enqueue
  <2>1. /\ pc = "line" /\ at \in Lines /\ ~Remark(at) /\ stmts[at] \in MaxList
        /\ at' = at + 1 /\ proc' = proc
        /\ pc' = IF at < NumLines /\ stmts[at] # stmts[at + 1] THEN "test" ELSE pc
        /\ \A i : (Queued(i))' <=> Queued(i) \/ i = at
    BY <1>0, <1>5, QueueMoves DEF Enqueue
  <2>2. ASSUME NEW i \in Lines, i < at + 1, ~Remark(i)
        PROVE  \/ proc[i] = "done"
               \/ i = at
               \/ Queued(i) /\ SameGroup(i, at)
    <3>1. i < at \/ i = at
      BY <1>1, <2>2
    <3>2. QED
      BY <1>0, <1>2, <2>1, <2>2, <3>1 DEF LinesAreTaken
  <2>3. ASSUME pc' = "line", at + 1 \in Lines, NEW i \in Lines, i < at + 1,
               ~Remark(i), proc[i] # "done"
        PROVE  SameGroup(i, at + 1)
    <3>1. stmts[at + 1] = stmts[at]
      BY <2>1, <2>3
    <3>2. QED
      BY <2>1, <2>2, <2>3, <3>1, GroupsGoOn
  <2>4. QED
    BY <2>1, <2>2, <2>3
<1>6. CASE RunAtOnce
  <2>1. pc = "line" /\ pc' = "direct" /\ at \in Lines /\ stmts[at] \notin MaxList
        /\ at' = at
    BY <1>6 DEF RunAtOnce
  <2>2. ASSUME NEW i \in Lines, i < at, ~Remark(i)
        PROVE  proc[i] = "done"
    <3>1. ~SameGroup(i, at)
      BY <1>1, <2>1, <2>2 DEF SameGroup
    <3>2. QED
      BY <1>0, <1>2, <2>1, <2>2, <3>1 DEF LinesAreTaken
  <2>3. QED
    BY <1>3, <2>1, <2>2
<1>7. CASE DirectEnds
  <2>1. pc = "direct" /\ pc' = "line" /\ proc[at] = "done" /\ at' = at + 1
        /\ proc' = proc
    BY <1>7 DEF DirectEnds
  <2>2. \A i \in Lines : i < at + 1 => i < at \/ i = at
    BY <1>1
  <2>3. QED
    BY <1>0, <1>2, <2>1, <2>2 DEF LinesAreTaken
<1>8. CASE EndOfScript
  <2>1. pc = "line" /\ pc' = "test" /\ at = NumLines + 1
        /\ proc' = proc /\ oQueue_' = oQueue_
    BY <1>8 DEF EndOfScript
  <2>2. \A i \in Lines : i < at
    BY <2>1
  <2>3. QED
    BY <1>0, <1>2, <2>1, <2>2 DEF LinesAreTaken, Queued
<1>9. CASE LoopContinues
  <2>1. pc = "test" /\ pc' = "pop" /\ at' = at /\ proc' = proc
        /\ oQueue_' = oQueue_
    BY <1>9 DEF LoopContinues
  <2>2. QED
    BY <1>0, <1>2, <2>1 DEF LinesAreTaken, Queued
<1>10. CASE Dispatch
  <2>1. pc = "pop" /\ pc' = "test" /\ at' = at
        /\ proc' = [proc EXCEPT ![oQueue_[1]] = "test"]
        /\ oQueue_[1] \in Lines
        /\ \A j : Queued(j) <=> (Queued(j))' \/ j = oQueue_[1]
    BY <1>0, <1>10, QueueMoves, QueueHoldsLines DEF Dispatch, MpxInv, TypeOK
  <2>2. DOMAIN proc = Lines
    BY <1>0 DEF MpxInv, TypeOK
  <2>3. \A i \in Lines : Queued(i) \/ proc[i] # "none"
                           => (Queued(i))' \/ proc'[i] # "none"
    BY <2>1, <2>2
  <2>4. QED
    BY <1>0, <1>2, <2>1, <2>3 DEF LinesAreTaken
<1>11. CASE LoopLeaves
  <2>1. pc = "test" /\ pc' \in {"line", "end"} /\ at' = at /\ proc' = proc
        /\ oQueue_ = <<>> /\ Active = {}
    BY <1>2, <1>11 DEF LoopLeaves
  <2>2. \A i : ~Queued(i)
    BY <2>1 DEF Queued
  <2>3. \A i \in Lines : proc[i] # "none" => proc[i] = "done"
    BY <2>1 DEF Active
  <2>4. QED
    BY <1>0, <1>2, <2>1, <2>2, <2>3 DEF LinesAreTaken
<1>12. QED
  BY <1>4, <1>5, <1>6, <1>7, <1>8, <1>9, <1>10, <1>11 DEF Main

LEMMA RunKeepsOrder ==
  ASSUME OrderInv, NEW k \in Lines, vRun(k)
  PROVE  LinesAreTaken' /\ EarlierGroupsAreThrough'
<1>1. /\ UNCHANGED <<stmts, pc, at, oQueue_>>
      /\ proc[k] \notin {"none", "done"} /\ (cont_' => cont_)
      /\ \A j \in Lines : j # k => proc'[j] = proc[j] /\ child'[j] = child[j]
  BY RunMoves DEF OrderInv
<1>2. k \in DOMAIN proc /\ k \in DOMAIN child
  BY DEF OrderInv, MpxInv, TypeOK
<1>3. proc'[k] \notin {"none", "test"}
  BY <1>2 DEF vRun, Test, Lock, Launch, LaunchFails, AddPid, OnExit,
     OnExitLock, WriteStdout, WriteStderr, DelPid, Judge, Goto
<1>4. Launching(k)' => Launching(k) \/ (proc[k] = "test" /\ cont_)
  <2>1. CASE Test(k)
    BY <1>2, <2>1 DEF Test, Goto, Launching, children
  <2>2. CASE ~Test(k)
    BY <1>1, <1>2, <2>2 DEF vRun, Lock, Launch, LaunchFails, AddPid, OnExit,
       OnExitLock, WriteStdout, WriteStderr, DelPid, Judge, Goto, Launching
  <2>3. QED
    BY <2>1, <2>2
<1>5. \A j \in Lines : proc[j] = "done" => proc'[j] = "done"
  BY <1>1
<1>6. LinesAreTaken'
  BY <1>1, <1>3, <1>5 DEF OrderInv, LinesAreTaken, Queued, SameGroup, Remark
<1>7. EarlierGroupsAreThrough'
  <2>1. SUFFICES ASSUME NEW i \in Lines, NEW j \in Lines, Before(i, j),
                        \/ Launching(j)'
                        \/ cont_' /\ (proc'[j] = "test" \/ Queued(j)')
                 PROVE  proc[i] = "done"
    BY <1>1, <1>5 DEF EarlierGroupsAreThrough, Before, SameGroup, Remark
  <2>2. \/ Launching(j)
        \/ cont_ /\ (proc[j] = "test" \/ Queued(j))
    BY <1>1, <1>3, <1>4, <2>1 DEF Launching, Queued
  <2>3. QED
    BY <2>1, <2>2 DEF OrderInv, EarlierGroupsAreThrough
<1>8. QED
  BY <1>6, <1>7

LEMMA WorldKeepsOrder ==
  ASSUME OrderInv,
         \/ SignalArrives \/ UNCHANGED vars
         \/ \E i \in Lines : ChildExits(i) \/ OutputEnds(i)
  PROVE  LinesAreTaken' /\ EarlierGroupsAreThrough'
<1>1. UNCHANGED <<stmts, pc, at, oQueue_, proc>> /\ (cont_' => cont_)
  BY DEF SignalArrives, Break, ChildExits, OutputEnds, vars, script, rtn
<1>2. \A j \in Lines : child'[j] = child[j] \/ child[j] # "none"
  BY DEF SignalArrives, ChildExits, OutputEnds, vars, children, OrderInv,
         MpxInv, TypeOK
<1>3. LinesAreTaken'
  BY <1>1 DEF OrderInv, LinesAreTaken, Queued, SameGroup, Remark
<1>4. EarlierGroupsAreThrough'
  BY <1>1, <1>2 DEF OrderInv, EarlierGroupsAreThrough, Queued, Launching,
                    Before, SameGroup, Remark
<1>5. QED
  BY <1>3, <1>4

LEMMA OrderNext == ASSUME OrderInv, [Next]_vars PROVE OrderInv'
<1>1. MpxInv'
  BY InvariantNext DEF OrderInv
<1>2. QED
  BY <1>1, MainKeepsLines, MainKeepsOrder, RunKeepsOrder, WorldKeepsOrder
     DEF Next, OrderInv

(* A line is launched only when the lines before it, but for those of its  *)
(* own group, are through - whatever has been cancelled and whatever waits *)
(* in the queue of a cancelled vSynchronize.                               *)
THEOREM ProgramsAreOrdered == Spec => []ProgramsRunInOrder
<1>1. Init => OrderInv
  <2>1. SUFFICES ASSUME Init PROVE OrderInv
    OBVIOUS
  <2>2. MpxInv /\ \A i : ~Queued(i)
    BY <2>1, InitInv DEF Init, Queued
  <2>3. LinesAreTaken /\ EarlierGroupsAreThrough
    BY <2>1, <2>2 DEF Init, LinesAreTaken, EarlierGroupsAreThrough, Launching
  <2>4. QED
    BY <2>2, <2>3 DEF OrderInv
<1>2. OrderInv /\ [Next]_vars => OrderInv'
  BY OrderNext
<1>3. OrderInv => ProgramsRunInOrder
  BY DEF OrderInv, EarlierGroupsAreThrough, ProgramsRunInOrder, Launching
<1>4. QED
  BY <1>1, <1>2, <1>3, PTL DEF Spec

-----------------------------------------------------------------------------
(* Mpx around ExtProc; what the user means a line to run is what it runs.  *)
HIDE ExtProcAssumption DEF Lines, None
USE DEF Dollar

-----------------------------------------------------------------------------
(* The whole program implements the loop.                                  *)

LEMMA MpxStarts == MpxInit => Init
<1> SUFFICES ASSUME MpxInit PROVE Init
  OBVIOUS
<1>1. \A i \in Lines : stmts[i] \in Programs
  BY MpxAssumption DEF MpxInit
<1>2. DOMAIN stmts = Lines /\ stmts = [i \in Lines |-> stmts[i]]
  BY DEF MpxInit
<1>3. QED
  BY <1>1, <1>2 DEF MpxInit, Init

LEMMA MpxSteps == [MpxNext]_MpxVars => [Next]_vars
<1> SUFFICES ASSUME MpxNext \/ UNCHANGED MpxVars PROVE Next \/ UNCHANGED vars
  OBVIOUS
<1>1. CASE Prepare
  BY <1>1 DEF Prepare, CheckHome, Parse, CheckPlace, Help, EnterStartup,
     OpenScript, ReadScript, ReadCredential, Step
<1>2. CASE LoopEnds \/ Report
  BY <1>2 DEF LoopEnds, Report
<1>3. CASE CancelMain \/ MainLine
  BY <1>3 DEF CancelMain, MainLine, Next
<1>4. CASE \E i \in Lines : RunLine(i) \/ ChildStep(i)
  BY <1>4 DEF RunLine, ChildStep, Next
<1>5. CASE UNCHANGED MpxVars
  BY <1>5 DEF MpxVars
<1>6. QED
  BY <1>1, <1>2, <1>3, <1>4, <1>5 DEF MpxNext

(* mpx from its first line to its last: what main does around the loop     *)
(* leaves alone what the loop works on.                                    *)
THEOREM MpxImplementsExtProc == MpxSpec => Spec
BY MpxStarts, MpxSteps, PTL DEF MpxSpec, Spec

-----------------------------------------------------------------------------
(* What a line reads like.                                                 *)

(* A set of numbers has a least one.                                       *)
LEMMA LeastOne ==
  ASSUME NEW T \in SUBSET Nat, T # {}
  PROVE  \E x \in T : \A y \in T : x <= y
<1> DEFINE R == OpToRel(<, Nat)
<1>1. PICK x \in T : \A y \in T : ~(<<y, x>> \in R)
  BY NatLessThanWellFounded, WFMin
<1>2. \A y \in T : <<y, x>> \in R <=> y < x
  BY DEF OpToRel
<1> HIDE DEF R
<1>3. ASSUME NEW y \in T PROVE x <= y
  <2>1. x \in Nat /\ y \in Nat
    OBVIOUS
  <2>2. ~(y < x)
    BY <1>1, <1>2
  <2>3. QED
    BY <2>1, <2>2
<1>4. QED
  BY <1>3

(* What holds at the end, and where it holds of the next place, holds at   *)
(* every place.                                                            *)
LEMMA FromTheEnd ==
  ASSUME NEW n \in Nat, NEW S, n + 1 \in S,
         \A k \in 1..n : k + 1 \in S => k \in S
  PROVE  1..(n + 1) \subseteq S
<1> DEFINE T == {d \in 0..n : n + 1 - d \notin S}
<1>1. ASSUME T # {} PROVE FALSE
  <2>0. T \in SUBSET Nat
    OBVIOUS
  <2>1. PICK d \in T : \A e \in T : d <= e
    <3> HIDE DEF T
    <3>1. QED
      BY <1>1, <2>0, LeastOne
  <2>2. d \in 0..n /\ n + 1 - d \notin S
    OBVIOUS
  <2>3. d # 0
    BY <2>2
  <2>4. d - 1 \notin T /\ d - 1 \in 0..n
    BY <2>1, <2>2, <2>3
  <2>5. n + 1 - (d - 1) \in S
    BY <2>4
  <2>6. n + 1 - d \in 1..n /\ (n + 1 - d) + 1 = n + 1 - (d - 1)
    BY <2>2, <2>3
  <2>7. QED
    BY <2>2, <2>5, <2>6
<1>2. ASSUME NEW k \in 1..(n + 1) PROVE k \in S
  <2>1. n + 1 - k \in 0..n /\ n + 1 - (n + 1 - k) = k
    OBVIOUS
  <2>2. QED
    BY <1>1, <2>1
<1>3. QED
  BY <1>2

(* The atoms of a line from k on, as they are meant.                       *)
Ending(line, table, k, dollar) ==
  [m \in 1..(Len(line) + 1 - k) |->
     IF m = 1 /\ dollar = "skipped" /\ line[k].kind # "word" THEN Torn
     ELSE Value(line[k + m - 1], table)]

LEMMA EndingIsALine ==
  ASSUME NEW line \in Seq(Atom), NEW table, NEW k \in 1..(Len(line) + 1),
         NEW dollar \in Dollar
  PROVE  LET S == {Torn} \cup {Value(line[j], table) : j \in 1..Len(line)}
         IN  /\ Ending(line, table, k, dollar) \in Seq(S)
             /\ Len(Ending(line, table, k, dollar)) = Len(line) + 1 - k
<1> DEFINE S == {Torn} \cup {Value(line[j], table) : j \in 1..Len(line)}
           n == Len(line) + 1 - k
<1>1. n \in Nat /\ Len(line) \in Nat
  BY LenProperties
<1>2. \A m \in 1..n : k + m - 1 \in 1..Len(line)
  BY <1>1
<1>3. Ending(line, table, k, dollar) \in [1..n -> S]
  BY <1>2 DEF Ending
<1>4. QED
  BY <1>1, <1>3

LEMMA EndingEnds ==
  ASSUME NEW line \in Seq(Atom), NEW table, NEW dollar \in Dollar
  PROVE  Ending(line, table, Len(line) + 1, dollar) = <<>>
<1>1. Len(line) \in Nat
  BY LenProperties
<1>2. Len(line) + 1 - (Len(line) + 1) = 0
  BY <1>1
<1>3. QED
  BY <1>2 DEF Ending

LEMMA OneMore ==
  ASSUME NEW S, NEW v \in S, NEW line \in Seq(S)
  PROVE  /\ <<v>> \o line \in Seq(S)
         /\ Len(<<v>> \o line) = 1 + Len(line)
         /\ (<<v>> \o line)[1] = v
         /\ \A m \in 1..Len(line) : (<<v>> \o line)[m + 1] = line[m]
<1>1. <<v>> \in Seq(S) /\ Len(<<v>>) = 1 /\ <<v>>[1] = v
  OBVIOUS
<1>2. /\ <<v>> \o line \in Seq(S)
      /\ Len(<<v>> \o line) = Len(<<v>>) + Len(line)
      /\ \A i \in 1 .. Len(<<v>>) + Len(line) : (<<v>> \o line)[i] =
           IF i <= Len(<<v>>) THEN <<v>>[i] ELSE line[i - Len(<<v>>)]
  BY <1>1, ConcatProperties
<1>3. Len(line) \in Nat
  BY LenProperties
<1> DEFINE all == <<v>> \o line
<1> HIDE DEF all
<1>4. \A i \in 1..(1 + Len(line)) : all[i] = IF i <= 1 THEN v ELSE line[i - 1]
  BY <1>1, <1>2 DEF all
<1>5. all[1] = v
  BY <1>3, <1>4
<1>6. ASSUME NEW m \in 1..Len(line) PROVE all[m + 1] = line[m]
  BY <1>3, <1>4
<1>7. QED
  BY <1>1, <1>2, <1>5, <1>6 DEF all

LEMMA OneMoreIs ==
  ASSUME NEW S, NEW v \in S, NEW line \in Seq(S), NEW longer \in Seq(S),
         Len(longer) = 1 + Len(line), longer[1] = v,
         \A m \in 1..Len(line) : longer[m + 1] = line[m]
  PROVE  <<v>> \o line = longer
<1> DEFINE more == <<v>> \o line
<1>1. /\ more \in Seq(S)
      /\ Len(more) = 1 + Len(line)
      /\ more[1] = v
      /\ \A m \in 1..Len(line) : more[m + 1] = line[m]
  BY OneMore
<1> HIDE DEF more
<1>2. ASSUME NEW i \in 1..Len(more) PROVE more[i] = longer[i]
  <2>1. CASE i = 1
    BY <1>1, <2>1
  <2>2. CASE i # 1
    <3>1. Len(line) \in Nat
      BY LenProperties
    <3>2. i - 1 \in 1..Len(line) /\ (i - 1) + 1 = i
      BY <1>1, <2>2, <3>1
    <3>3. QED
      BY <1>1, <3>2
  <2>3. QED
    BY <2>1, <2>2
<1>3. more = longer
  BY <1>1, <1>2, SeqEqual
<1>4. QED
  BY <1>3 DEF more

(* One atom more.                                                          *)
LEMMA EndingGrows ==
  ASSUME NEW line \in Seq(Atom), NEW table, NEW k \in 1..Len(line),
         NEW dollar \in Dollar
  PROVE  <<Ending(line, table, k, dollar)[1]>> \o Ending(line, table, k + 1, "seen")
           = Ending(line, table, k, dollar)
<1> DEFINE S == {Torn} \cup {Value(line[j], table) : j \in 1..Len(line)}
           rest == Ending(line, table, k + 1, "seen")
           all == Ending(line, table, k, dollar)
<1>0. Len(line) \in Nat
  BY LenProperties
<1>1. /\ rest \in Seq(S) /\ Len(rest) = Len(line) - k
      /\ all \in Seq(S) /\ Len(all) = Len(line) + 1 - k
  <2>1. k + 1 \in 1..(Len(line) + 1) /\ k \in 1..(Len(line) + 1)
    BY <1>0
  <2>2. /\ rest \in Seq(S) /\ Len(rest) = Len(line) + 1 - (k + 1)
        /\ all \in Seq(S) /\ Len(all) = Len(line) + 1 - k
    BY <2>1, EndingIsALine, Zenon
  <2>3. QED
    BY <1>0, <2>2
<1>3. \A m \in 2..(Len(line) + 1 - k) : all[m] = Value(line[k + m - 1], table)
  BY <1>0 DEF Ending
<1>4. \A m \in 1..(Len(line) - k) : rest[m] = Value(line[k + m], table)
  <2>1. ASSUME NEW m \in 1..(Len(line) - k)
        PROVE  k + 1 + m - 1 = k + m /\ m \in 1..(Len(line) + 1 - (k + 1))
    BY <1>0
  <2>2. QED
    BY <2>1 DEF Ending
<1> HIDE DEF rest, all, S
<1>5. ASSUME NEW m \in 1..Len(rest) PROVE all[m + 1] = rest[m]
  <2>1. /\ m \in 1..(Len(line) - k) /\ k + (m + 1) - 1 = k + m
        /\ m + 1 \in 2..(Len(line) + 1 - k)
    BY <1>0, <1>1
  <2>2. QED
    BY <1>3, <1>4, <2>1
<1>6. Len(all) = 1 + Len(rest) /\ all[1] \in S
  BY <1>0, <1>1
<1>7. <<all[1]>> \o rest = all
  BY <1>1, <1>5, <1>6, OneMoreIs
<1>8. QED
  BY <1>7 DEF rest, all

(* Nothing is skipped where a word follows.                                *)
LEMMA NothingIsSkipped ==
  ASSUME NEW line \in Seq(Atom), NEW table, NEW k \in 1..(Len(line) + 1),
         k \in 1..Len(line) => line[k].kind = "word"
  PROVE  Ending(line, table, k, "skipped") = Ending(line, table, k, "seen")
<1>1. Len(line) \in Nat
  BY LenProperties
<1>2. CASE k \in 1..Len(line)
  BY <1>2 DEF Ending
<1>3. CASE k = Len(line) + 1
  BY <1>3, EndingEnds
<1>4. QED
  BY <1>1, <1>2, <1>3

(* A line whose placeholders all have a value, none after another, reads   *)
(* from each atom on as it is meant, if it does so from the next.          *)
LEMMA ReadsOn ==
  ASSUME NEW line \in Seq(Atom), NEW table, IsReadable(line, table),
         NEW k \in 1..Len(line), NEW dollar \in Dollar, NEW f,
         f[k + 1]["skipped"] = {Ending(line, table, k + 1, "skipped")},
         f[k + 1]["seen"] = {Ending(line, table, k + 1, "seen")}
  PROVE  ReadAt(line, table, f, k, dollar) = {Ending(line, table, k, dollar)}
<1> DEFINE v == Ending(line, table, k, dollar)[1]
<1>0. /\ Len(line) \in Nat /\ k # Len(line) + 1 /\ DOMAIN line = 1..Len(line)
      /\ 1 \in 1..(Len(line) + 1 - k) /\ k + 1 - 1 = k
      /\ k + 1 > 1 /\ k + 1 \in 1..(Len(line) + 1)
  BY LenProperties
<1>1. v = IF dollar = "skipped" /\ line[k].kind # "word" THEN Torn ELSE Value(line[k], table)
  BY <1>0 DEF Ending
<1>2. <<v>> \o Ending(line, table, k + 1, "seen") = Ending(line, table, k, dollar)
  BY EndingGrows
<1> HIDE DEF v
<1>3. {<<v>> \o r : r \in f[k + 1]["seen"]} = {Ending(line, table, k, dollar)}
  BY <1>2
<1>4. CASE line[k].kind = "word"
  BY <1>0, <1>1, <1>3, <1>4 DEF ReadAt, Value
<1>5. CASE line[k].kind # "word" /\ dollar = "skipped"
  BY <1>0, <1>1, <1>3, <1>5 DEF ReadAt
<1>6. CASE line[k].kind # "word" /\ dollar # "skipped"
  <2>1. Key(line[k]) \in DOMAIN table
    BY <1>0, <1>6 DEF IsReadable
  <2>2. k + 1 \in 1..Len(line) => line[k + 1].kind = "word"
    BY <1>0, <1>6 DEF IsReadable
  <2>3. f[k + 1]["skipped"] = f[k + 1]["seen"]
    BY <1>0, <2>2, NothingIsSkipped
  <2>4. QED
    BY <1>0, <1>1, <1>3, <1>6, <2>1, <2>3 DEF ReadAt, Value
<1>7. QED
  BY <1>4, <1>5, <1>6

(* Whatever solves the equation of ReadFrom reads such a line as meant ... *)
IsReading(f, line, table) ==
  f = [k \in 1..(Len(line) + 1) |->
         [dollar \in Dollar |-> ReadAt(line, table, f, k, dollar)]]

LEMMA ReadingIsMeant ==
  ASSUME NEW line \in Seq(Atom), NEW table, IsReadable(line, table), NEW f,
         IsReading(f, line, table)
  PROVE  f[1]["seen"] = {Ending(line, table, 1, "seen")}
<1> DEFINE S == {k \in 1..(Len(line) + 1) :
                   /\ f[k]["skipped"] = {Ending(line, table, k, "skipped")}
                   /\ f[k]["seen"] = {Ending(line, table, k, "seen")}}
<1>0. Len(line) \in Nat
  BY LenProperties
<1>1. \A k \in 1..(Len(line) + 1) : \A b \in Dollar :
        f[k][b] = ReadAt(line, table, f, k, b)
  <2> DEFINE R(k) == [dollar \in Dollar |-> ReadAt(line, table, f, k, dollar)]
  <2>1. \A k : \A b \in Dollar : R(k)[b] = ReadAt(line, table, f, k, b)
    OBVIOUS
  <2>2. f = [k \in 1..(Len(line) + 1) |-> R(k)]
    BY DEF IsReading
  <2> HIDE DEF R
  <2>3. \A k \in 1..(Len(line) + 1) : f[k] = R(k)
    BY <2>2
  <2>4. QED
    BY <2>1, <2>3
<1>2. Len(line) + 1 \in S
  <2>1. Len(line) + 1 \in 1..(Len(line) + 1)
    BY <1>0
  <2>2. \A b \in Dollar : ReadAt(line, table, f, Len(line) + 1, b) = {<<>>}
    BY DEF ReadAt
  <2>3. QED
    BY <1>1, <2>1, <2>2, EndingEnds
<1>3. ASSUME NEW k \in 1..Len(line), k + 1 \in S PROVE k \in S
  <2>1. k \in 1..(Len(line) + 1)
    BY <1>0
  <2>2. /\ f[k + 1]["skipped"] = {Ending(line, table, k + 1, "skipped")}
        /\ f[k + 1]["seen"] = {Ending(line, table, k + 1, "seen")}
    BY <1>3
  <2>3. \A b \in Dollar :
          ReadAt(line, table, f, k, b) = {Ending(line, table, k, b)}
    BY <2>2, ReadsOn
  <2>4. QED
    BY <1>1, <2>1, <2>3
<1> HIDE DEF S
<1>4. 1..(Len(line) + 1) \subseteq S
  BY <1>0, <1>2, <1>3, FromTheEnd
<1>5. 1 \in S
  BY <1>0, <1>4
<1>6. QED
  BY <1>5 DEF S

(* ... and there is one that does.                                         *)
LEMMA ReadingExists ==
  ASSUME NEW line \in Seq(Atom), NEW table, IsReadable(line, table)
  PROVE  \E f : IsReading(f, line, table)
<1> DEFINE n == Len(line) + 1
           g == [k \in 1..n |-> [dollar \in Dollar |-> {Ending(line, table, k, dollar)}]]
<1>0. Len(line) \in Nat
  BY LenProperties
<1>1. ASSUME NEW k \in 1..n, NEW b \in Dollar
      PROVE  ReadAt(line, table, g, k, b) = {Ending(line, table, k, b)}
  <2>1. CASE k = n
    <3>1. Ending(line, table, n, b) = <<>>
      BY EndingEnds
    <3>2. QED
      BY <2>1, <3>1 DEF ReadAt
  <2>2. CASE k # n
    <3>1. k \in 1..Len(line) /\ k + 1 \in 1..n
      BY <1>0, <2>2
    <3>2. /\ g[k + 1]["skipped"] = {Ending(line, table, k + 1, "skipped")}
          /\ g[k + 1]["seen"] = {Ending(line, table, k + 1, "seen")}
      BY <3>1
    <3> HIDE DEF g
    <3>3. QED
      BY <3>1, <3>2, ReadsOn
  <2>3. QED
    BY <2>1, <2>2
<1>2. IsReading(g, line, table)
  <2> DEFINE h == [k \in 1..n |->
                     [dollar \in Dollar |-> ReadAt(line, table, g, k, dollar)]]
  <2>1. ASSUME NEW k \in 1..n PROVE g[k] = h[k]
    BY <1>1, Zenon
  <2>2. g = h
    BY <2>1
  <2> HIDE DEF g
  <2>3. QED
    BY <2>2 DEF IsReading
<1>3. QED
  BY <1>2

LEMMA ReplacedIsMeant ==
  ASSUME NEW line \in Seq(Atom), NEW table, IsReadable(line, table)
  PROVE  Replaced(line, table)
           = {[k \in DOMAIN line |-> Value(line[k], table)]}
<1> DEFINE read == ReadFrom(line, table)
<1>1. read = CHOOSE f : IsReading(f, line, table)
  BY DEF ReadFrom, IsReading
<1> HIDE DEF read
<1>2. \E f : IsReading(f, line, table)
  BY ReadingExists
<1>3. IsReading(read, line, table)
  BY <1>1, <1>2
<1>4. read[1]["seen"] = {Ending(line, table, 1, "seen")}
  BY <1>3, ReadingIsMeant
<1>5. Ending(line, table, 1, "seen") = [k \in DOMAIN line |-> Value(line[k], table)]
  <2>1. Len(line) \in Nat /\ DOMAIN line = 1..Len(line)
    BY LenProperties
  <2>2. Len(line) + 1 - 1 = Len(line) /\ \A m \in 1..Len(line) : 1 + m - 1 = m
    BY <2>1
  <2>3. QED
    BY <2>1, <2>2 DEF Ending
<1>6. QED
  BY <1>4, <1>5 DEF Replaced, read

-----------------------------------------------------------------------------
(* The properties of the whole program.                                    *)

(* The script has been read once, and stays as it has been read.           *)
ScriptIsRead ==
  start \in Starts /\ \A i \in Lines : stmts[i] \in Readings(start, i)

LEMMA ScriptStays == MpxSpec => []ScriptIsRead
<1>1. MpxInit => ScriptIsRead
  BY DEF MpxInit, ScriptIsRead
<1>2. ScriptIsRead /\ [MpxNext]_MpxVars => ScriptIsRead'
  <2> SUFFICES ASSUME ScriptIsRead, MpxNext \/ UNCHANGED MpxVars
               PROVE  start' = start /\ stmts' = stmts
    BY DEF ScriptIsRead
  <2>1. start' = start
    BY DEF MpxNext, Prepare, CheckHome, Parse, CheckPlace, Help, EnterStartup,
       OpenScript, ReadScript, ReadCredential, Step, LoopEnds, Report,
       CancelMain, MainLine, RunLine, ChildStep, main, MpxVars
  <2>2. [Next]_vars
    BY MpxSteps
  <2>3. stmts' = stmts
    BY <2>2 DEF Next, vars, Main, Skip, RunAtOnce, DirectEnds, Enqueue,
       EndOfScript, LoopContinues, Dispatch, LoopLeaves, SignalArrives, vRun,
       Test, Lock, Launch, LaunchFails, AddPid, OnExit, OnExitLock, WriteStdout,
       WriteStderr, DelPid, Judge, ChildExits, OutputEnds
  <2>4. QED
    BY <2>1, <2>3
<1>3. QED
  BY <1>1, <1>2, PTL DEF MpxSpec

LEMMA NamedIsRun ==
  ASSUME ScriptIsRead, NEW i \in Lines
  PROVE  Named(i) = stmts[i]
<1> DEFINE table == oTableOfReplacement_(start)
           line == Text(start)[i]
<1>1. SUFFICES ASSUME IsStarted(start), IsReadable(line, table)
               PROVE  Meant(line, table) = stmts[i]
  BY DEF Named
<1>2. line \in Seq(Atom) /\ stmts[i] \in Readings(start, i)
  BY MpxAssumption DEF ScriptIsRead
<1>3. stmts[i] \in {Program(r) : r \in Replaced(line, table)}
  BY <1>1, <1>2 DEF Readings
<1> HIDE DEF line, table
<1>4. Replaced(line, table) = {[k \in DOMAIN line |-> Value(line[k], table)]}
  BY <1>1, <1>2, ReplacedIsMeant
<1>5. QED
  BY <1>3, <1>4 DEF Meant

(* What a cancellation reaches, what it comes from, and what the children  *)
(* have written, through the whole of mpx.                                 *)
THEOREM MpxKeepsItsPromises ==
  MpxSpec => [](CancelReachesTheRest /\ CancelledForACause /\ WholeBlocks)
BY MpxImplementsExtProc, CancelIsBounded, CancelIsJustified, BlocksAreWhole, PTL

(* Whichever lines name their program by an argument or a variable, and    *)
(* whatever has been cancelled: the groups that the user means run one     *)
(* after the other.                                                        *)
THEOREM GroupsAreOrdered == MpxSpec => []GroupsRunInOrder
<1>1. ScriptIsRead /\ ProgramsRunInOrder => GroupsRunInOrder
  <2> SUFFICES ASSUME ScriptIsRead, ProgramsRunInOrder PROVE GroupsRunInOrder
    OBVIOUS
  <2> DEFINE named == [i \in Lines |-> Named(i)]
  <2>1. \A i \in Lines : named[i] = stmts[i]
    BY NamedIsRun
  <2>2. \A i, j \in Lines : \A k \in i..j : k \in Lines
    BY ExtProcAssumption DEF Lines
  <2> HIDE DEF named
  <2>3. ASSUME NEW i \in Lines, NEW j \in Lines, i < j, child[j] # "none",
               named[i] \notin Remarks,
               ~(named[i] \in MaxList /\ \A k \in i..j : named[k] = named[i])
        PROVE  proc[i] = "done"
    <3>1. ~Remark(i) /\ ~SameGroup(i, j)
      BY <2>1, <2>2, <2>3 DEF Remark, SameGroup
    <3>2. QED
      BY <2>3, <3>1 DEF ProgramsRunInOrder, Before
  <2>4. QED
    BY <2>3 DEF GroupsRunInOrder, named
<1>2. QED
  BY <1>1, ScriptStays, ProgramsAreOrdered, MpxImplementsExtProc, PTL
=============================================================================
