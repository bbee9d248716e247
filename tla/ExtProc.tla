------------------------------- MODULE ExtProc -------------------------------
(***************************************************************************)
(* mpx: the lines of a script run as external processes, cAppLocal.cpp and *)
(* cExtProc.cpp of app/mpx, with the set of process ids of lib/cRtn.cpp.   *)
(*                                                                         *)
(* Consecutive lines that name the same program of mpxlist are queued and  *)
(* run in parallel by vSynchronize; any other line runs at once in the     *)
(* main thread.  A child is launched, and its end is handled, under one    *)
(* static mutex; a cancellation (the signal thread, or the failure of a    *)
(* child whose program is not in ignlist) sends SIGTERM to every process   *)
(* id that is registered, without taking that mutex.                       *)
(*                                                                         *)
(* vSynchronize appears by what the module Dispatcher shows of it: it      *)
(* tests iCotinue, waits for one of iConcurrency threads, starts the head  *)
(* of the queue, and returns when all it has started is through.  The      *)
(* children are external: one ends when it likes, its output a while later.*)
(***************************************************************************)
EXTENDS Naturals, Sequences, FiniteSets

CONSTANTS
  Programs,       (* The names the lines of a script begin with.           *)
  Remarks,        (* Those that make a line a comment, and the empty one.  *)
  MaxList,        (* Programs to be run in parallel: mpxlist.              *)
  IgnList,        (* Programs whose failure is ignored: ignlist.           *)
  NumLines,       (* The lines of the script.                              *)
  iConcurrency    (* The threads of vSynchronize: parallelism.             *)

ASSUME ExtProcAssumption ==
  /\ Remarks \subseteq Programs
  /\ MaxList \subseteq Programs
  /\ IgnList \subseteq Programs
  /\ NumLines \in Nat
  /\ iConcurrency \in Nat \ {0}

Lines == 1..NumLines
None  == 0    (* No line; and the process id of a child that never was.    *)

VARIABLES
  stmts,      (* The programs of the script's lines; never changes.        *)
  pc,         (* Where cAppLocal::vRun is ...                              *)
  at,         (* ... and at which line.                                    *)
  oQueue_,    (* The lines waiting for vSynchronize.                       *)
  proc,       (* Where vRun is for each line.                              *)
  mtx_,       (* The line whose vRun holds the static mutex.               *)
  cont_,      (* cRtn: whether it may continue ...                         *)
  oPidSet,    (* ... and the process ids to be signalled.                  *)
  child,      (* External: the child process of each line ...              *)
  code,       (* ... whether it failed ...                                 *)
  eof,        (* ... and whether its output has come to an end.            *)
  signalled,  (* The children SIGTERM was sent to.                         *)
  out,        (* What has been written to oOut_ and oErr_.                 *)
  signal,     (* History: a signal has arrived; the first is the last one. *)
  unreached   (* History: about to be launched when cont_ became false.    *)

script == <<pc, at, oQueue_>>
rtn == <<cont_, oPidSet, signalled, unreached>>
children == <<child, code, eof>>
vars == <<stmts, script, proc, mtx_, rtn, children, out, signal>>

Remark(i) == stmts[i] \in Remarks
Active == {i \in Lines : proc[i] \notin {"none", "done"}}
Alive  == {i \in Lines : child[i] = "running"}

(* The process id registered for a line.                                   *)
Pid(i) == IF child[i] = "failed" THEN None ELSE i

Init ==
  /\ stmts \in [Lines -> Programs]
  /\ pc = "line"
  /\ at = 1
  /\ oQueue_ = <<>>
  /\ proc = [i \in Lines |-> "none"]
  /\ mtx_ = None
  /\ cont_ = TRUE
  /\ oPidSet = {}
  /\ child = [i \in Lines |-> "none"]
  /\ code = [i \in Lines |-> 0]
  /\ eof = [i \in Lines |-> FALSE]
  /\ signalled = {}
  /\ out = <<>>
  /\ signal = FALSE
  /\ unreached = {}

-----------------------------------------------------------------------------
(* cAppLocal::vRun, the loop over the lines.                               *)

Skip ==
  /\ pc = "line"
  /\ at \in Lines
  /\ Remark(at)
  /\ at' = at + 1
  /\ UNCHANGED <<stmts, pc, oQueue_, proc, mtx_, rtn, children, out, signal>>

(* Not in mpxlist: pushed, popped again and run by the main thread.        *)
RunAtOnce ==
  /\ pc = "line"
  /\ at \in Lines
  /\ ~Remark(at) /\ stmts[at] \notin MaxList
  /\ proc' = [proc EXCEPT ![at] = "test"]
  /\ pc' = "direct"
  /\ UNCHANGED <<stmts, at, oQueue_, mtx_, rtn, children, out, signal>>

DirectEnds ==
  /\ pc = "direct"
  /\ proc[at] = "done"
  /\ at' = at + 1
  /\ pc' = "line"
  /\ UNCHANGED <<stmts, oQueue_, proc, mtx_, rtn, children, out, signal>>

(* Fault: the queue is only run at the end of the script.                  *)
EnqueueAlways ==
  /\ pc = "line"
  /\ at \in Lines
  /\ ~Remark(at) /\ stmts[at] \in MaxList
  /\ oQueue_' = Append(oQueue_, at)
  /\ at' = at + 1
  /\ UNCHANGED <<stmts, pc, proc, mtx_, rtn, children, out, signal>>

(* In mpxlist: queued, and run with the queue if the next line differs.    *)
Enqueue ==
  /\ pc = "line"
  /\ at \in Lines
  /\ ~Remark(at) /\ stmts[at] \in MaxList
  /\ oQueue_' = Append(oQueue_, at)
  /\ at' = at + 1
  /\ pc' = IF at < NumLines /\ stmts[at] # stmts[at + 1] THEN "test" ELSE pc
  /\ UNCHANGED <<stmts, proc, mtx_, rtn, children, out, signal>>

(* After the last line the queue is run once more.                         *)
EndOfScript ==
  /\ pc = "line"
  /\ at = NumLines + 1
  /\ at' = at + 1
  /\ pc' = "test"
  /\ UNCHANGED <<stmts, oQueue_, proc, mtx_, rtn, children, out, signal>>

(* vSynchronize.                                                           *)
LoopContinues ==
  /\ pc = "test"
  /\ oQueue_ # <<>> /\ cont_
  /\ pc' = "pop"
  /\ UNCHANGED <<stmts, at, oQueue_, proc, mtx_, rtn, children, out, signal>>

Dispatch ==
  /\ pc = "pop"
  /\ Cardinality(Active) < iConcurrency
  /\ proc' = [proc EXCEPT ![Head(oQueue_)] = "test"]
  /\ oQueue_' = Tail(oQueue_)
  /\ pc' = "test"
  /\ UNCHANGED <<stmts, at, mtx_, rtn, children, out, signal>>

(* A cancelled call leaves the rest of the queue where it is.              *)
LoopLeaves ==
  /\ pc = "test"
  /\ oQueue_ = <<>> \/ ~cont_
  /\ Active = {}
  /\ pc' = IF at > NumLines + 1 THEN "end" ELSE "line"
  /\ UNCHANGED <<stmts, at, oQueue_, proc, mtx_, rtn, children, out, signal>>

Main ==
  \/ Skip \/ RunAtOnce \/ DirectEnds \/ Enqueue \/ EndOfScript
  \/ LoopContinues \/ Dispatch \/ LoopLeaves

-----------------------------------------------------------------------------
(* cRtn::vBreak: SIGTERM to every registered id, and to every process if   *)
(* the id of a child that could not be launched is among them.             *)
Break ==
  /\ cont_' = FALSE
  /\ signalled' = signalled \cup
       {i \in Lines : /\ child[i] \in {"running", "exited"}
                      /\ i \in oPidSet \/ None \in oPidSet}
  /\ unreached' = IF cont_ THEN {i \in Lines : proc[i] \in {"lock", "launch", "add"}}
                           ELSE unreached

(* cSignal: the handler of the first SIGINT or SIGTERM.                    *)
SignalArrives ==
  /\ ~signal
  /\ signal' = TRUE
  /\ Break
  /\ UNCHANGED <<stmts, script, proc, mtx_, oPidSet, children, out>>

-----------------------------------------------------------------------------
(* cExtProcImpl::vRun of line i, and its callback on_exit.                 *)

Goto(i, from, to) == proc[i] = from /\ proc' = [proc EXCEPT ![i] = to]

(* Fault: a cancellation before the launch is not noticed.                 *)
TestIgnored(i) ==
  /\ Goto(i, "test", "lock")
  /\ UNCHANGED <<stmts, script, mtx_, rtn, children, out, signal>>

(* if (! rtn_.iCotinue()) return.                                          *)
Test(i) ==
  /\ Goto(i, "test", IF cont_ THEN "lock" ELSE "done")
  /\ UNCHANGED <<stmts, script, mtx_, rtn, children, out, signal>>

Lock(i) ==
  /\ Goto(i, "lock", "launch")
  /\ mtx_ = None
  /\ mtx_' = i
  /\ UNCHANGED <<stmts, script, rtn, children, out, signal>>

(* bp::child; the error code it may set is not looked at.                  *)
Launch(i) ==
  /\ Goto(i, "launch", "add")
  /\ child' = [child EXCEPT ![i] = "running"]
  /\ UNCHANGED <<stmts, script, mtx_, rtn, code, eof, out, signal>>

LaunchFails(i) ==
  /\ Goto(i, "launch", "add")
  /\ child' = [child EXCEPT ![i] = "failed"]
  /\ UNCHANGED <<stmts, script, mtx_, rtn, code, eof, out, signal>>

(* rtn_.vAddPid, and the lock is released.                                 *)
AddPid(i) ==
  /\ Goto(i, "add", "run")
  /\ oPidSet' = oPidSet \cup {Pid(i)}
  /\ mtx_' = None
  /\ UNCHANGED <<stmts, script, cont_, signalled, unreached, children, out,
                 signal>>

(* oIoCtx.run() has reaped the child and calls back; without a child there *)
(* is no callback, and the interval timer keeps run() going for ever.      *)
OnExit(i) ==
  /\ Goto(i, "run", "exit")
  /\ child[i] = "exited"
  /\ child' = [child EXCEPT ![i] = "reaped"]
  /\ UNCHANGED <<stmts, script, mtx_, rtn, code, eof, out, signal>>

(* Fault: the callback does not take the lock.                             *)
OnExitUnlocked(i) ==
  /\ Goto(i, "exit", "stdout")
  /\ UNCHANGED <<stmts, script, mtx_, rtn, children, out, signal>>

OnExitLock(i) ==
  /\ Goto(i, "exit", "stdout")
  /\ mtx_ = None
  /\ mtx_' = i
  /\ UNCHANGED <<stmts, script, rtn, children, out, signal>>

(* fut_stdout.get(): the lock is held until the output is complete.        *)
WriteStdout(i) ==
  /\ Goto(i, "stdout", "stderr")
  /\ eof[i]
  /\ out' = Append(out, i)
  /\ UNCHANGED <<stmts, script, mtx_, rtn, children, signal>>

WriteStderr(i) ==
  /\ Goto(i, "stderr", "delete")
  /\ out' = Append(out, i)
  /\ UNCHANGED <<stmts, script, mtx_, rtn, children, signal>>

DelPid(i) ==
  /\ Goto(i, "delete", "judge")
  /\ oPidSet' = oPidSet \ {i}
  /\ UNCHANGED <<stmts, script, mtx_, cont_, signalled, unreached, children,
                 out, signal>>

Fatal(i) == stmts[i] \notin IgnList /\ code[i] # 0

(* Fault: the failure of any program cancels.                              *)
JudgeAll(i) ==
  /\ Goto(i, "judge", "done")
  /\ mtx_' = None
  /\ IF cont_ /\ code[i] # 0
       THEN Break ELSE UNCHANGED <<cont_, signalled, unreached>>
  /\ UNCHANGED <<stmts, script, oPidSet, children, out, signal>>

(* Fault: the lock is not released.                                        *)
JudgeLocked(i) ==
  /\ Goto(i, "judge", "done")
  /\ IF cont_ /\ Fatal(i)
       THEN Break ELSE UNCHANGED <<cont_, signalled, unreached>>
  /\ UNCHANGED <<stmts, script, mtx_, oPidSet, children, out, signal>>

(* A failure that is not to be ignored cancels; the callback ends.         *)
Judge(i) ==
  /\ Goto(i, "judge", "done")
  /\ mtx_' = None
  /\ IF cont_ /\ Fatal(i)
       THEN Break ELSE UNCHANGED <<cont_, signalled, unreached>>
  /\ UNCHANGED <<stmts, script, oPidSet, children, out, signal>>

vRun(i) ==
  \/ Test(i) \/ Lock(i) \/ Launch(i) \/ LaunchFails(i) \/ AddPid(i)
  \/ OnExit(i) \/ OnExitLock(i) \/ WriteStdout(i) \/ WriteStderr(i)
  \/ DelPid(i) \/ Judge(i)

(* The child ends, by itself or because it was told to; the last holder of *)
(* its output closes it.                                                   *)
ChildExits(i) ==
  /\ child[i] = "running"
  /\ child' = [child EXCEPT ![i] = "exited"]
  /\ code' \in {[code EXCEPT ![i] = c] : c \in {0, 1}}
  /\ UNCHANGED <<stmts, script, proc, mtx_, rtn, eof, out, signal>>

OutputEnds(i) ==
  /\ child[i] \in {"exited", "reaped"} /\ ~eof[i]
  /\ eof' = [eof EXCEPT ![i] = TRUE]
  /\ UNCHANGED <<stmts, script, proc, mtx_, rtn, child, code, out, signal>>

Next ==
  \/ Main
  \/ SignalArrives
  \/ \E i \in Lines : vRun(i) \/ ChildExits(i) \/ OutputEnds(i)

(* Threads are scheduled, and every child ends and closes its output.      *)
Fairness ==
  /\ WF_vars(Main)
  /\ \A i \in Lines : /\ WF_vars(vRun(i))
                      /\ WF_vars(ChildExits(i))
                      /\ WF_vars(OutputEnds(i))

Spec == Init /\ [][Next]_vars
FairSpec == Spec /\ Fairness

-----------------------------------------------------------------------------
(* Properties.                                                             *)

(* The states the variables range over.                                    *)
TypeOK ==
  /\ stmts \in [Lines -> Programs]
  /\ pc \in {"line", "direct", "test", "pop", "end"}
  /\ at \in 1..(NumLines + 2)
  /\ pc = "direct" => at \in Lines
  /\ oQueue_ \in Seq(Lines)
  /\ pc = "pop" => oQueue_ # <<>>
  /\ proc \in [Lines -> {"none", "test", "lock", "launch", "add", "run",
                         "exit", "stdout", "stderr", "delete", "judge", "done"}]
  /\ mtx_ \in Lines \cup {None}
  /\ cont_ \in BOOLEAN
  /\ oPidSet \in SUBSET (Lines \cup {None})
  /\ child \in [Lines -> {"none", "running", "failed", "exited", "reaped"}]
  /\ code \in [Lines -> {0, 1}]
  /\ eof \in [Lines -> BOOLEAN]
  /\ signalled \in SUBSET Lines
  /\ out \in Seq(Lines)
  /\ signal \in BOOLEAN
  /\ unreached \in SUBSET Lines

(* After a cancellation a living child has been sent SIGTERM, or it is one *)
(* that was between the test of iCotinue and vAddPid at that moment; no    *)
(* line whose test comes later is launched.                                *)
CancelReachesTheRest ==
  ~cont_ => \A i \in Alive : i \in signalled \/ i \in unreached

(* mpx goes on after a failure in ignlist, and only then: it is cancelled  *)
(* by a signal or by a failure that counts, and such a failure cancels it. *)
CancelledForACause ==
  /\ ~cont_ => signal \/ \E i \in Lines : Fatal(i)
  /\ (\E i \in Lines : Fatal(i) /\ proc[i] = "done") => ~cont_

(* The output of a child is written in one piece: standard output, then    *)
(* standard error, nothing of another child between them.                  *)
WholeBlocks ==
  \A n \in DOMAIN out : n % 2 = 0 => out[n] = out[n - 1]

-----------------------------------------------------------------------------
(* The inductive invariant behind the properties of a cancellation.        *)

(* A line that has not been reached, or waits in the queue, has not run.   *)
LinesInOrder ==
  /\ pc = "line" => at \in 1..(NumLines + 1)
  /\ pc = "line" => \A i \in Lines : i >= at => proc[i] = "none"
  /\ pc = "direct" => \A i \in Lines : i > at => proc[i] = "none"
  /\ pc \in {"test", "pop"} => \A i \in Lines : i >= at => proc[i] = "none"
  /\ \A n \in DOMAIN oQueue_ : oQueue_[n] < at /\ proc[oQueue_[n]] = "none"
  /\ \A m, n \in DOMAIN oQueue_ : oQueue_[m] = oQueue_[n] => m = n

(* The child of a line exists from its launch on, and ends before its id   *)
(* is taken from the set.                                                  *)
ChildFollowsProc ==
  \A i \in Lines :
    /\ proc[i] \in {"none", "test", "lock", "launch"} => child[i] = "none"
    /\ child[i] = "running" => proc[i] \in {"add", "run"}
    /\ code[i] # 0 => child[i] \in {"exited", "reaped"}

RunningIsRegistered ==
  \A i \in Lines :
    proc[i] = "run" /\ child[i] # "failed" => i \in oPidSet

(* Past the test of iCotinue when it is cancelled: known to the history.   *)
LateOnesAreKnown ==
  ~cont_ => \A i \in Lines :
              proc[i] \in {"lock", "launch", "add"} => i \in unreached

MpxInv ==
  /\ TypeOK
  /\ LinesInOrder
  /\ ChildFollowsProc
  /\ RunningIsRegistered
  /\ LateOnesAreKnown
  /\ CancelReachesTheRest
  /\ CancelledForACause

-----------------------------------------------------------------------------
(* The inductive invariant behind WholeBlocks.                             *)

(* Between the callback's lock and its end, and around the launch, a line  *)
(* holds the mutex.                                                        *)
WriterHasTheMutex ==
  \A i \in Lines :
    proc[i] \in {"launch", "add", "stdout", "stderr", "delete", "judge"}
      => mtx_ = i

(* A block is cut exactly where a line has yet to write its stderr.        *)
CutBlockGoesOn ==
  /\ \A i \in Lines : proc[i] = "stderr" => out # <<>> /\ out[Len(out)] = i
  /\ Len(out) % 2 = 1 <=> \E i \in Lines : proc[i] = "stderr"

OutputInv ==
  /\ MpxInv
  /\ WriterHasTheMutex
  /\ CutBlockGoesOn
  /\ WholeBlocks

-----------------------------------------------------------------------------
(* The inductive invariant behind the order of the groups.                 *)

(* Line i is to be through before line j is launched.                      *)
SameGroup(i, j) == stmts[i] \in MaxList /\ \A k \in i..j : stmts[k] = stmts[i]
Before(i, j) == i < j /\ ~Remark(i) /\ ~SameGroup(i, j)

Queued(i) == \E n \in DOMAIN oQueue_ : oQueue_[n] = i
Launching(j) ==
  proc[j] \notin {"none", "test", "done"} \/ child[j] # "none"

(* As long as mpx is not cancelled, a line before at is through or queued, *)
(* or among those vSynchronize has started; in the loop over the lines     *)
(* those that are queued make a group with the line that is next.          *)
LinesAreTaken ==
  cont_ =>
    /\ pc = "line" =>
         \A i \in Lines : i < at /\ ~Remark(i) =>
           \/ proc[i] = "done"
           \/ Queued(i) /\ (at \in Lines => SameGroup(i, at))
    /\ pc = "direct" =>
         \A i \in Lines : i < at /\ ~Remark(i) => proc[i] = "done"
    /\ pc \in {"test", "pop"} =>
         \A i \in Lines : i < at /\ ~Remark(i) => Queued(i) \/ proc[i] # "none"

(* Whoever is launched, and who may be, has the groups before it behind    *)
(* it; after a cancellation nobody else is launched.                       *)
EarlierGroupsAreThrough ==
  \A i, j \in Lines :
    /\ Before(i, j)
    /\ \/ Launching(j)
       \/ cont_ /\ (proc[j] = "test" \/ Queued(j))
    => proc[i] = "done"

(* The groups of the script as it is read run one after the other.         *)
ProgramsRunInOrder ==
  \A i, j \in Lines : Before(i, j) /\ child[j] # "none" => proc[i] = "done"

OrderInv ==
  /\ MpxInv
  /\ LinesAreTaken
  /\ EarlierGroupsAreThrough
=============================================================================
