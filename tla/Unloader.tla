------------------------------ MODULE Unloader ------------------------------
(***************************************************************************)
(* cUnloader::vExecuteAndFetch of lib/sql/occi/cUnloader.cpp: one data     *)
(* file is filled from several SELECT statements.  The calling thread      *)
(* executes them one by one and starts a thread for each, which runs       *)
(* cStmt::iFetch: it fetches up to iBulkSize rows into the statement's     *)
(* define buffer, converts them into a row buffer and writes them under    *)
(* the spin lock, until no data is left.  The caller joins the threads,    *)
(* closes the data file, writes the control file and rethrows what a       *)
(* thread caught.                                                          *)
(*                                                                         *)
(* A thread finds its row buffer, and the define buffer it converts from,  *)
(* through a subscript it gets at its first vPreBulkAction: the number of  *)
(* threads that came before it.  The rows of statement k are the pairs     *)
(* <<k, 1>>, <<k, 2>>, ...; a converted line is the sequence of the rows   *)
(* whose text it holds, and should hold one.                               *)
(***************************************************************************)
EXTENDS Naturals, Sequences, FiniteSets, FiniteSetsExt

CONSTANTS
  NumStmts,     (* The number of statements in oCont_.                     *)
  iBulkSize,    (* The rows of one fetch.                                  *)
  MaxRows       (* Bound: the rows a statement selects.                    *)

ASSUME UnloaderAssumption ==
  /\ NumStmts \in Nat \ {0}
  /\ iBulkSize \in Nat \ {0}
  /\ MaxRows \in Nat

Stmts == 1..NumStmts
None  == 0

VARIABLES
  pc,            (* Where the calling thread is ...                        *)
  at,            (* ... and at which statement.                            *)
  thread,        (* Where the fetch thread of each statement is.           *)
  mayContinue,   (* rtn_.iCotinue().                                       *)
  left,          (* External: the rows the server still has to deliver.    *)
  define,        (* The define buffer of each statement: row numbers.      *)
  iNumIter,      (* The rows of the last fetch of each thread ...          *)
  iRow,          (* ... the next of them to be written ...                 *)
  noData,        (* ... and whether it was the last fetch.                 *)
  iTotalRows,    (* The rows each thread has written, its result.          *)
  iTls_, oTls_,  (* The next subscript, and the one each thread has.       *)
  oRowBuf_,      (* The row buffer of each element of oCont_.              *)
  spin_,         (* Who holds the spin lock.                               *)
  st_data_,      (* The stream of the data file.                           *)
  file,          (* The lines the stream has taken ...                     *)
  written,       (* ... and, once it is closed, how many the file holds.   *)
  ep,            (* The first exception a thread caught.                   *)
  iTotal,        (* The sum of the results of the joined threads.          *)
  action,        (* Which of the two final actions was called.             *)
  numRows,       (* History: what the statements selected ...              *)
  failed         (* ... and the threads that caught an exception.          *)

buffers == <<define, iNumIter, iRow, noData, oRowBuf_, left>>
subscripts == <<iTls_, oTls_>>
output  == <<st_data_, file, written>>
outcome == <<iTotal, action>>
history == <<numRows, failed>>
vars == <<pc, at, thread, mayContinue, buffers, iTotalRows, subscripts, spin_,
          output, ep, outcome, history>>

Header == <<>>    (* What precedes the rows, the column names or nothing.  *)

Over == pc \in {"returned", "raised", "terminated"}

Launched(k) == thread[k] # "none"
Running(k)  == thread[k] \notin {"none", "ended"}

(* An exception has left vExecuteAndFetch: ep, which the threads refer to, *)
(* is gone, and the data stream with it.                                   *)
FrameLost == pc = "unwind"

Goto(to) == pc' = to
Step(k, from, to) == ~Over /\ thread[k] = from
                     /\ thread' = [thread EXCEPT ![k] = to]

-----------------------------------------------------------------------------
Init ==
  /\ pc = "open"
  /\ at = 1
  /\ thread = [k \in Stmts |-> "none"]
  /\ mayContinue = TRUE
  /\ numRows \in [Stmts -> 0..MaxRows]
  /\ left = numRows
  /\ define = [k \in Stmts |-> [i \in 1..iBulkSize |-> None]]
  /\ iNumIter = [k \in Stmts |-> 0]
  /\ iRow = [k \in Stmts |-> 0]
  /\ noData = [k \in Stmts |-> FALSE]
  /\ iTotalRows = [k \in Stmts |-> 0]
  /\ iTls_ = 1
  /\ oTls_ = [k \in Stmts |-> None]
  /\ oRowBuf_ = [k \in Stmts |-> [i \in 1..iBulkSize |-> <<>>]]
  /\ spin_ = None
  /\ st_data_ = "none"
  /\ file = <<>>
  /\ written = 0
  /\ ep = None
  /\ iTotal = 0
  /\ action = "none"
  /\ failed = {}

-----------------------------------------------------------------------------
(* The calling thread.                                                     *)

OpenData ==
  /\ pc = "open"
  /\ st_data_' = "open"
  /\ Goto("execute")
  /\ UNCHANGED <<at, thread, mayContinue, buffers, iTotalRows, subscripts,
                 spin_, file, written, ep, outcome, history>>

(* The stream cannot be opened.                                            *)
OpenRaises ==
  /\ pc = "open"
  /\ Goto("raised")
  /\ UNCHANGED <<at, thread, mayContinue, buffers, iTotalRows, subscripts,
                 spin_, output, ep, outcome, history>>

(* vExecute, and the first time the header, if it is wanted, later the     *)
(* comparison of the columns with those of the first statement.            *)
Execute ==
  /\ pc = "execute"
  /\ file' = IF at = 1 THEN <<Header>> ELSE file
  /\ Goto("launch")
  /\ UNCHANGED <<at, thread, mayContinue, buffers, iTotalRows, subscripts,
                 spin_, st_data_, written, ep, outcome, history>>

(* The scope exit flushes and deletes the stream.  Nobody asks whether the *)
(* flush has failed, and the last lines have not reached the file; that of *)
(* a stream that is bad fails.                                             *)
FlushAndDelete ==
  \/ st_data_ = "open" /\ st_data_' = "closed" /\ written' = Len(file)
  \/ st_data_' = "cut" /\ written' \in 0..Len(file)

(* The execution or the comparison raises, or no thread can be made for    *)
(* the statement: the scope exit closes the data file and the frame of the *)
(* call goes, while the threads of earlier statements run ...              *)
ExecuteRaises ==
  /\ pc = "execute" \/ (pc = "launch" /\ mayContinue)
  /\ FlushAndDelete
  /\ Goto("unwind")
  /\ UNCHANGED <<at, thread, mayContinue, buffers, iTotalRows, subscripts,
                 spin_, file, ep, outcome, history>>

(* ... until the task and its unloader are destroyed, too.  The elements of*)
(* the unloader own the threads, and the destructor of one that was not    *)
(* joined terminates the process.                                          *)
Unwind ==
  /\ pc = "unwind"
  /\ Goto(IF \E k \in Stmts : Launched(k) THEN "terminated" ELSE "raised")
  /\ UNCHANGED <<at, thread, mayContinue, buffers, iTotalRows, subscripts,
                 spin_, output, ep, outcome, history>>

Launch ==
  /\ pc = "launch"
  /\ mayContinue
  /\ thread' = [thread EXCEPT ![at] = "test"]
  /\ at' = IF at = NumStmts THEN 1 ELSE at + 1
  /\ Goto(IF at = NumStmts THEN "join" ELSE "execute")
  /\ UNCHANGED <<mayContinue, buffers, iTotalRows, subscripts, spin_, output,
                 ep, outcome, history>>

(* if (!rtn_.iCotinue()) break.                                            *)
Break ==
  /\ pc = "launch"
  /\ ~mayContinue
  /\ at' = 1
  /\ Goto("join")
  /\ UNCHANGED <<thread, mayContinue, buffers, iTotalRows, subscripts, spin_,
                 output, ep, outcome, history>>

(* Fault: the thread of the last statement is not waited for.              *)
JoinSkipsLast ==
  /\ pc = "join"
  /\ at \in Stmts
  /\ thread[at] \in {"none", "ended"} \/ at = NumStmts
  /\ iTotal' = iTotal + iTotalRows[at]
  /\ at' = at + 1
  /\ UNCHANGED <<pc, thread, mayContinue, buffers, iTotalRows, subscripts,
                 spin_, output, ep, action, history>>

Join ==
  /\ pc = "join"
  /\ at \in Stmts
  /\ thread[at] \in {"none", "ended"}
  /\ iTotal' = iTotal + iTotalRows[at]
  /\ at' = at + 1
  /\ UNCHANGED <<pc, thread, mayContinue, buffers, iTotalRows, subscripts,
                 spin_, output, ep, action, history>>

(* vPostRepeatAction or vNotFoundAction; then the data file is closed.     *)
CloseData ==
  /\ pc = "join"
  /\ at \notin Stmts
  /\ action' = IF iTotal > 0 THEN "vPostRepeatAction" ELSE "vNotFoundAction"
  /\ FlushAndDelete
  /\ Goto("control")
  /\ UNCHANGED <<at, thread, mayContinue, buffers, iTotalRows, subscripts,
                 spin_, file, ep, iTotal, history>>

(* vPutGrammerToCtrlFile raises; what ep holds is forgotten.               *)
ControlRaises ==
  /\ pc = "control"
  /\ Goto("raised")
  /\ UNCHANGED <<at, thread, mayContinue, buffers, iTotalRows, subscripts,
                 spin_, output, ep, outcome, history>>

(* The control file is written or suppressed; if (ep) rethrow.             *)
Report ==
  /\ pc = "control"
  /\ Goto(IF ep # None THEN "raised" ELSE "returned")
  /\ UNCHANGED <<at, thread, mayContinue, buffers, iTotalRows, subscripts,
                 spin_, output, ep, outcome, history>>

Caller ==
  \/ OpenData \/ OpenRaises \/ Execute \/ ExecuteRaises \/ Unwind
  \/ Launch \/ Break \/ Join \/ CloseData \/ ControlRaises \/ Report

-----------------------------------------------------------------------------
(* The thread of statement k: cStmt::iFetch.                               *)

TestContinues(k) ==
  /\ Step(k, "test", "pre")
  /\ mayContinue /\ ~noData[k]
  /\ UNCHANGED <<pc, at, mayContinue, buffers, iTotalRows, subscripts, spin_,
                 output, ep, outcome, history>>

TestLeaves(k) ==
  /\ Step(k, "test", "ended")
  /\ ~mayContinue \/ noData[k]
  /\ UNCHANGED <<pc, at, mayContinue, buffers, iTotalRows, subscripts, spin_,
                 output, ep, outcome, history>>

(* Under the spin lock: the subscript if the thread has none, and the row  *)
(* buffer of that subscript is cleared.                                    *)
vPreBulkAction(k) ==
  /\ Step(k, "pre", "fetch")
  /\ spin_ = None
  /\ oTls_' = [oTls_ EXCEPT ![k] = IF @ = None THEN iTls_ ELSE @]
  /\ iTls_' = IF oTls_[k] = None THEN iTls_ + 1 ELSE iTls_
  /\ oRowBuf_' = [oRowBuf_ EXCEPT ![oTls_'[k]] = [i \in 1..iBulkSize |-> <<>>]]
  /\ UNCHANGED <<pc, at, mayContinue, define, iNumIter, iRow, noData, left,
                 iTotalRows, spin_, output, ep, outcome, history>>

(* Fault: the loop looks at the end of the data before the rows.           *)
FetchedButLast(k, n) ==
  /\ define' = [define EXCEPT ![k] = [i \in 1..iBulkSize |->
                  IF i <= n THEN numRows[k] - left[k] + i ELSE @[i]]]
  /\ left' = [left EXCEPT ![k] = @ - n]
  /\ iNumIter' = [iNumIter EXCEPT ![k] = n]
  /\ thread' = [thread EXCEPT ![k] = IF n < iBulkSize THEN "test"
                                                      ELSE "convert"]

(* iStmtFetch2 stores n rows; fewer than asked for are the last.           *)
Fetched(k, n) ==
  /\ define' = [define EXCEPT ![k] = [i \in 1..iBulkSize |->
                  IF i <= n THEN numRows[k] - left[k] + i ELSE @[i]]]
  /\ left' = [left EXCEPT ![k] = @ - n]
  /\ iNumIter' = [iNumIter EXCEPT ![k] = n]
  /\ thread' = [thread EXCEPT ![k] = IF n = 0 THEN "test" ELSE "convert"]

iStmtFetch2(k) ==
  LET n == Min({iBulkSize, left[k]}) IN
  /\ ~Over /\ thread[k] = "fetch"
  /\ Fetched(k, n)
  /\ noData' = [noData EXCEPT ![k] = n < iBulkSize]
  /\ UNCHANGED <<pc, at, mayContinue, iRow, oRowBuf_, iTotalRows, subscripts,
                 spin_, output, ep, outcome, history>>

(* ORA-01013, the user's cancel, after some of the rows.                   *)
FetchIsCancelled(k) ==
  /\ ~Over /\ thread[k] = "fetch"
  /\ \E n \in 0..Min({iBulkSize, left[k]}) : Fetched(k, n)
  /\ noData' = [noData EXCEPT ![k] = TRUE]
  /\ mayContinue' = FALSE
  /\ UNCHANGED <<pc, at, iRow, oRowBuf_, iTotalRows, subscripts, spin_,
                 output, ep, outcome, history>>

(* Any other error of the database.                                        *)
FetchRaises(k) ==
  /\ Step(k, "fetch", "caught")
  /\ failed' = failed \cup {k}
  /\ UNCHANGED <<pc, at, mayContinue, buffers, iTotalRows, subscripts, spin_,
                 output, ep, outcome, numRows>>

(* vSetRowBuf for every column: the rows in the define buffer of the       *)
(* subscript's statement are appended to the subscript's row buffer.       *)
Convert(k) ==
  LET s == oTls_[k] IN
  /\ Step(k, "convert", "lock")
  /\ oRowBuf_' = [oRowBuf_ EXCEPT ![s] = [i \in 1..iBulkSize |->
                    IF i <= iNumIter[k] THEN Append(@[i], <<s, define[s][i]>>)
                                        ELSE @[i]]]
  /\ UNCHANGED <<pc, at, mayContinue, define, iNumIter, iRow, noData, left,
                 iTotalRows, subscripts, spin_, output, ep, outcome, history>>

(* Fault: the spin lock is not taken.                                      *)
LockIgnored(k) ==
  /\ Step(k, "lock", "put")
  /\ spin_' = k
  /\ iRow' = [iRow EXCEPT ![k] = 1]
  /\ UNCHANGED <<pc, at, mayContinue, define, iNumIter, noData, oRowBuf_, left,
                 iTotalRows, subscripts, output, ep, outcome, history>>

(* vPutRowsToDataFile takes the spin lock ...                              *)
Lock(k) ==
  /\ Step(k, "lock", "put")
  /\ spin_ = None
  /\ spin_' = k
  /\ iRow' = [iRow EXCEPT ![k] = 1]
  /\ UNCHANGED <<pc, at, mayContinue, define, iNumIter, noData, oRowBuf_, left,
                 iTotalRows, subscripts, output, ep, outcome, history>>

(* ... and writes row by row; a write may fail, and the stream stays bad.  *)
Put(k) ==
  /\ ~Over /\ thread[k] = "put"
  /\ iRow[k] <= iNumIter[k]
  /\ st_data_ \in {"open", "bad"}
  /\ st_data_' \in {st_data_, "bad"}
  /\ file' = IF st_data_' = "open"
               THEN Append(file, oRowBuf_[oTls_[k]][iRow[k]]) ELSE file
  /\ iRow' = [iRow EXCEPT ![k] = @ + 1]
  /\ UNCHANGED <<pc, at, thread, mayContinue, define, iNumIter, noData,
                 oRowBuf_, left, iTotalRows, subscripts, spin_, written, ep,
                 outcome, history>>

(* The stream has gone with the caller: a null pointer is dereferenced.    *)
PutCrashes(k) ==
  /\ ~Over /\ thread[k] = "put"
  /\ st_data_ \in {"closed", "cut"}
  /\ Goto("terminated")
  /\ UNCHANGED <<at, thread, mayContinue, buffers, iTotalRows, subscripts,
                 spin_, output, ep, outcome, history>>

PutEnds(k) ==
  /\ Step(k, "put", "test")
  /\ iRow[k] > iNumIter[k]
  /\ st_data_ = "open"
  /\ spin_' = None
  /\ iTotalRows' = [iTotalRows EXCEPT ![k] = @ + iNumIter[k]]
  /\ UNCHANGED <<pc, at, mayContinue, buffers, subscripts, output, ep, outcome,
                 history>>

(* Fault: the lock is kept by the exception.                               *)
PutRaisesLocked(k) ==
  /\ Step(k, "put", "caught")
  /\ iRow[k] > iNumIter[k]
  /\ st_data_ = "bad"
  /\ failed' = failed \cup {k}
  /\ UNCHANGED <<pc, at, mayContinue, buffers, iTotalRows, subscripts, spin_,
                 output, ep, outcome, numRows>>

(* ASSERT_OR_RAISE of the stream: the lock guard gives the lock back.      *)
PutRaises(k) ==
  /\ Step(k, "put", "caught")
  /\ iRow[k] > iNumIter[k]
  /\ st_data_ = "bad"
  /\ spin_' = None
  /\ failed' = failed \cup {k}
  /\ UNCHANGED <<pc, at, mayContinue, buffers, iTotalRows, subscripts, output,
                 ep, outcome, numRows>>

(* catch (...): no lock protects the test of ep and the assignment, and    *)
(* the result is 0 whatever has been written.  An ep that is gone may look *)
(* set or not.                                                             *)
Caught(k) ==
  /\ \/ Step(k, "caught", "keep") /\ (ep = None \/ FrameLost)
     \/ Step(k, "caught", "ended") /\ (ep # None \/ FrameLost)
  /\ iTotalRows' = [iTotalRows EXCEPT ![k] = 0]
  /\ UNCHANGED <<pc, at, mayContinue, buffers, subscripts, spin_, output, ep,
                 outcome, history>>

Keep(k) ==
  /\ Step(k, "keep", "ended")
  /\ ~FrameLost
  /\ ep' = k
  /\ UNCHANGED <<pc, at, mayContinue, buffers, iTotalRows, subscripts, spin_,
                 output, outcome, history>>

(* The assignment goes where ep was: unnoticed, or it ends the process.    *)
KeepInVain(k) ==
  /\ Step(k, "keep", "ended")
  /\ FrameLost
  /\ pc' \in {pc, "terminated"}
  /\ UNCHANGED <<at, mayContinue, buffers, iTotalRows, subscripts, spin_,
                 output, ep, outcome, history>>

iFetch(k) ==
  \/ TestContinues(k) \/ TestLeaves(k) \/ vPreBulkAction(k)
  \/ iStmtFetch2(k) \/ FetchIsCancelled(k) \/ FetchRaises(k)
  \/ Convert(k) \/ Lock(k) \/ Put(k) \/ PutCrashes(k) \/ PutEnds(k)
  \/ PutRaises(k) \/ Caught(k) \/ Keep(k) \/ KeepInVain(k)

(* cRtn::vBreak of another thread: a signal, or another unloader's fetch.  *)
vBreak ==
  /\ ~Over
  /\ mayContinue
  /\ mayContinue' = FALSE
  /\ UNCHANGED <<pc, at, thread, buffers, iTotalRows, subscripts, spin_,
                 output, ep, outcome, history>>

Next ==
  \/ Caller
  \/ \E k \in Stmts : iFetch(k)
  \/ vBreak

(* The operating system runs every thread; calls of the database return.   *)
Fairness ==
  /\ WF_vars(Caller)
  /\ \A k \in Stmts : WF_vars(iFetch(k))

Spec == Init /\ [][Next]_vars
FairSpec == Spec /\ Fairness

-----------------------------------------------------------------------------
(* Properties.                                                             *)

(* The states the unloader's variables range over: the calls, ...          *)
ControlTypes ==
  /\ pc \in {"open", "execute", "unwind", "launch", "join", "control",
             "returned", "raised", "terminated"}
  /\ at \in 1..(NumStmts + 1)
  /\ thread \in [Stmts -> {"none", "test", "pre", "fetch", "convert", "lock",
                          "put", "caught", "keep", "ended"}]
  /\ ep \in Stmts \cup {None}
  /\ failed \in SUBSET Stmts

(* ... what they count, ...                                                *)
CounterTypes ==
  /\ mayContinue \in BOOLEAN
  /\ numRows \in [Stmts -> 0..MaxRows]
  /\ left \in [Stmts -> 0..MaxRows]
  /\ iNumIter \in [Stmts -> 0..iBulkSize]
  /\ iRow \in [Stmts -> 0..(iBulkSize + 1)]
  /\ noData \in [Stmts -> BOOLEAN]
  /\ iTotalRows \in [Stmts -> Nat]
  /\ iTls_ \in Nat
  /\ oTls_ \in [Stmts -> Stmts \cup {None}]
  /\ spin_ \in Stmts \cup {None}
  /\ iTotal \in Nat
  /\ action \in {"none", "vPostRepeatAction", "vNotFoundAction"}

(* ... and the way of the rows.                                            *)
BufferTypes ==
  /\ define \in [Stmts -> [1..iBulkSize -> 0..MaxRows]]
  /\ oRowBuf_ \in [Stmts -> [1..iBulkSize -> Seq(Stmts \X (0..MaxRows))]]
  /\ st_data_ \in {"none", "open", "bad", "closed", "cut"}
  /\ file \in Seq(Seq(Stmts \X (0..MaxRows)))
  /\ written \in Nat

TypeOK == ControlTypes /\ CounterTypes /\ BufferTypes

(* Every thread that has a subscript has that of its own statement: the    *)
(* threads came to their first vPreBulkAction in the order of oCont_.      *)
InOrder == \A k \in Stmts : oTls_[k] \in {None, k}

Row(k, r) == << <<k, r>> >>

(* The lines of statement k that are in the data file.                     *)
Lines(k) == {i \in 1..written : \E r \in 1..MaxRows : file[i] = Row(k, r)}

(* The row that follows row r of statement k within one fetch.             *)
MidBatch(r, k) == r % iBulkSize # 0 /\ r < numRows[k]

(* As long as the subscripts are in order the stream has, at any moment,   *)
(* taken the header followed by lines of one row each; the rows of a       *)
(* statement are there in their order and without a gap, and the rows of   *)
(* one fetch are not interleaved with those of another thread - whatever   *)
(* the threads' speed, and up to the point where writing fails or a cancel *)
(* cuts a fetch.                                                           *)
FileIsFaithful ==
  InOrder /\ file # <<>> =>
    /\ file[1] = Header
    /\ \A i \in 2..Len(file) : \E k \in Stmts :
         \E r \in 1..numRows[k] :
           /\ file[i] = Row(k, r)
           /\ r > 1 => \E j \in 2..(i - 1) : file[j] = Row(k, r - 1)
           /\ \A j \in 2..(i - 1) : file[j] # Row(k, r)
           /\ MidBatch(r, k) /\ i < Len(file) /\ mayContinue
                => file[i + 1] = Row(k, r + 1)

(* A call that returns without a cancel has brought every row its          *)
(* statements selected into the data file, provided the subscripts were in *)
(* order and but for the one failure nobody notices, that of the last      *)
(* flush.  A comment says that this flush "can not be omitted", because    *)
(* "the end of the data is lost"; it is made, may fail, and then it is.    *)
RowsAreComplete ==
  pc = "returned" /\ mayContinue /\ InOrder /\ st_data_ # "cut"
    => \A k \in Stmts : Cardinality(Lines(k)) = numRows[k]

(* An exception caught in a fetch thread reaches the caller.               *)
RaisedIsRethrown == pc = "returned" => failed = {}

(* No fetch thread survives the call, whose ep and stream it refers to:    *)
(* nobody sees the call return or raise while one runs.  Only when a later *)
(* statement raises is the frame left with the threads of earlier ones     *)
(* running, against the documentation of vExecuteAndFetch, by which the    *)
(* streams are closed "Finally"; that call is never seen to end, the       *)
(* process is terminated.                                                  *)
NoThreadSurvives ==
  pc \in {"unwind", "control", "returned", "raised"}
    => \A k \in Stmts : Running(k) => FrameLost /\ k < at

(* "Mutually exclusive execution": vPostRepeatAction is called only if the *)
(* stream has taken rows, and vNotFoundAction only if it has taken none or *)
(* a thread has failed.                                                    *)
ActionFollowsTheFile ==
  /\ action = "vPostRepeatAction" => Len(file) > 1
  /\ action = "vNotFoundAction" /\ failed = {} => Len(file) <= 1

(* The call ends; no thread waits for ever for the spin lock.              *)
CallEnds == <>Over

(* The documentation of oCont_ says "Every array element is associated     *)
(* with SQL-Select", and that of oTls_ that it maintains the context of a  *)
(* thread: what a call that returns without a cancel has written is every  *)
(* row of every statement.  The code breaks it: the subscripts follow the  *)
(* order in which the threads arrive.                                      *)
EveryRowIsUnloaded ==
  pc = "returned" /\ mayContinue
    => \A k \in Stmts : \A r \in 1..numRows[k] :
         \E i \in DOMAIN file : file[i] = Row(k, r)

-----------------------------------------------------------------------------
(* The inductive invariant behind RaisedIsRethrown and NoThreadSurvives.   *)

(* The statements from at on have no thread yet.                           *)
LaunchedInOrder ==
  /\ pc = "open" => at = 1
  /\ pc \in {"open", "execute", "launch", "unwind"} =>
       at \in Stmts /\ \A k \in Stmts : k >= at => thread[k] = "none"

(* The threads before at have been joined.                                 *)
JoinedInOrder ==
  pc = "join" =>
    \A k \in Stmts : k < at => thread[k] \in {"none", "ended"}

(* A thread that has failed is in its catch clause or has seen ep set.     *)
FailuresAreKept ==
  pc \in {"open", "execute", "launch", "join", "control", "returned"} =>
    \A k \in failed : \/ thread[k] \in {"caught", "keep"}
                      \/ thread[k] = "ended" /\ ep # None

CallInv ==
  /\ ControlTypes
  /\ LaunchedInOrder
  /\ JoinedInOrder
  /\ NoThreadSurvives
  /\ FailuresAreKept
  /\ pc = "returned" => ep = None

-----------------------------------------------------------------------------
(* The inductive invariant behind TypeOK.                                  *)

(* The threads that have a subscript have been counted, and one that works *)
(* with the row buffers has one.                                           *)
SubscriptsAreCounted ==
  /\ iTls_ = 1 + Cardinality({k \in Stmts : oTls_[k] # None})
  /\ \A k \in Stmts :
       thread[k] \in {"fetch", "convert", "lock", "put"} => oTls_[k] # None

(* What a thread has fetched of its statement, in this fetch and before.   *)
FetchesAreBounded ==
  \A k \in Stmts :
    /\ left[k] + iNumIter[k] <= numRows[k]
    /\ thread[k] = "none" => left[k] = numRows[k]
    /\ thread[k] \in {"convert", "lock", "put"} => iNumIter[k] > 0
    /\ thread[k] = "put" => iRow[k] \in 1..(iNumIter[k] + 1)

TypeInv == TypeOK /\ SubscriptsAreCounted /\ FetchesAreBounded

-----------------------------------------------------------------------------
(* The inductive invariant behind ActionFollowsTheFile.                    *)

(* The thread that writes has the lock.                                    *)
WriterHasTheLock == \A k \in Stmts : thread[k] = "put" => spin_ = k

(* Where the stream is, as long as the caller has not left it.             *)
StreamFollowsTheCall ==
  /\ pc = "open" => st_data_ = "none" /\ file = <<>>
  /\ pc \in {"execute", "launch", "join"} => st_data_ \in {"open", "bad"}
  /\ pc \in {"control", "returned"} => st_data_ \in {"closed", "cut"}
  /\ st_data_ = "closed" => written = Len(file)
  /\ pc = "launch" \/ (pc = "execute" /\ at # 1) => Len(file) >= 1
  /\ (\E k \in Stmts : Launched(k)) => Len(file) >= 1
  /\ pc \in {"open", "execute", "unwind", "launch", "join"} => action = "none"

(* A stream that is bad has a thread that will raise, or one that has.     *)
BadIsNoticed ==
  /\ st_data_ = "bad" => failed # {} \/ \E k \in Stmts : thread[k] = "put"
  /\ \A k \in Stmts : thread[k] \in {"caught", "keep"} => k \in failed

(* The results of the threads say whether there are rows in the file.      *)
ResultsFollowTheFile ==
  /\ \A k \in Stmts :
       /\ thread[k] = "none" => iTotalRows[k] = 0
       /\ iTotalRows[k] > 0 => Len(file) > 1
       /\ thread[k] = "put" /\ iRow[k] > 1 /\ st_data_ = "open"
            => Len(file) > 1
  /\ Len(file) > 1 =>
       \/ failed # {}
       \/ \E k \in Stmts : iTotalRows[k] > 0 \/ thread[k] = "put"

(* The caller has added up the results of the threads it has joined.       *)
SumOfTheJoined ==
  /\ iTotal > 0 => Len(file) > 1
  /\ pc # "join" /\ action = "none" => iTotal = 0
  /\ pc = "join" =>
       \A k \in Stmts : k < at /\ iTotalRows[k] > 0 => iTotal > 0

ResultInv ==
  /\ TypeInv
  /\ CallInv
  /\ WriterHasTheLock
  /\ StreamFollowsTheCall
  /\ BadIsNoticed
  /\ ResultsFollowTheFile
  /\ SumOfTheJoined
  /\ ActionFollowsTheFile

-----------------------------------------------------------------------------
(* The inductive invariant behind FileIsFaithful and RowsAreComplete.      *)

(* The rows of k fetched so far, those of them before the current fetch,   *)
(* and those a stream that has not failed has taken.                       *)
NumFetched(k) == numRows[k] - left[k]
BatchStart(k) == NumFetched(k) - iNumIter[k]
NumWritten(k) ==
  IF thread[k] \in {"convert", "lock"} THEN BatchStart(k)
  ELSE IF thread[k] = "put" THEN BatchStart(k) + iRow[k] - 1
  ELSE NumFetched(k)

(* The first n rows of k, and no others of k, are in the file.             *)
WrittenUpTo(k, n) ==
  \A r \in 1..numRows[k] :
    r <= n <=> \E i \in 2..Len(file) : file[i] = Row(k, r)

(* The buffers of a thread hold the rows of its last fetch.                *)
BuffersHoldTheFetch ==
  \A k \in Stmts :
    /\ thread[k] \in {"fetch", "convert"} =>
         \A i \in 1..iBulkSize : oRowBuf_[k][i] = <<>>
    /\ thread[k] = "convert" =>
         \A i \in 1..iNumIter[k] : define[k][i] = BatchStart(k) + i
    /\ thread[k] \in {"lock", "put"} =>
         \A i \in 1..iNumIter[k] : oRowBuf_[k][i] = Row(k, BatchStart(k) + i)

(* Without a cancel a fetch begins behind a number of full ones, and is    *)
(* full itself or the last.                                                *)
FetchesAreAligned ==
  mayContinue => \A k \in Stmts :
    /\ thread[k] \in {"convert", "lock", "put"} =>
         /\ BatchStart(k) % iBulkSize = 0
         /\ iNumIter[k] = iBulkSize \/ left[k] = 0
    /\ noData[k] => left[k] = 0
    /\ left[k] > 0 => NumFetched(k) % iBulkSize = 0

(* Every thread has written what it has fetched, up to the current fetch.  *)
LinesAreFetched ==
  st_data_ = "open" \/ (pc \in {"control", "returned"} /\ failed = {})
    => \A k \in Stmts : WrittenUpTo(k, NumWritten(k))

(* The thread whose fetch the last line cuts is the one that writes.       *)
CutFetchGoesOn ==
  st_data_ = "open" /\ mayContinue /\ Len(file) > 1 =>
    \A k \in Stmts : \A r \in 1..numRows[k] :
      file[Len(file)] = Row(k, r) /\ MidBatch(r, k)
        => thread[k] = "put" /\ iRow[k] <= iNumIter[k]

(* Without a cancel or a failure every thread is started, and ends when    *)
(* there is no data left.                                                  *)
ThreadsEndWithoutData ==
  /\ pc \in {"execute", "launch"} => \A k \in Stmts : k < at => Launched(k)
  /\ mayContinue /\ pc \in {"join", "control", "returned"}
       => \A k \in Stmts : Launched(k)
  /\ mayContinue =>
       \A k \in Stmts : thread[k] = "ended" => noData[k] \/ k \in failed

RowInv ==
  /\ ResultInv
  /\ ThreadsEndWithoutData
  /\ FetchesAreAligned
  /\ InOrder =>
       /\ BuffersHoldTheFetch
       /\ LinesAreFetched
       /\ CutFetchGoesOn
       /\ FileIsFaithful
=============================================================================
