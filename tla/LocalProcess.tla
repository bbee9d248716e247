---------------------------- MODULE LocalProcess ----------------------------
(***************************************************************************)
(* lib/nsStreamLocator/cLocalProcess.cpp and cAsyncRedirector.cpp: an      *)
(* output stream that is the standard input of a command of its own.  The  *)
(* constructor makes three pipes and forks under a static spin lock, then  *)
(* starts a thread for each output of the child, which collects it until   *)
(* its end; the destructor closes the child's input, waits for it, joins   *)
(* the threads and closes what is left.                                    *)
(*                                                                         *)
(* Every stream is opened, written and closed by one thread, any number of *)
(* them at a time.  No descriptor is closed on exec, so a child keeps each *)
(* one that is open when it is forked; descriptors are numbers, and a new  *)
(* pipe gets the lowest that are free.                                     *)
(***************************************************************************)
EXTENDS Naturals, FiniteSets

CONSTANTS NumStreams, NumFds

ASSUME LocalProcessAssumption ==
  /\ NumStreams \in Nat \ {0}
  /\ NumFds \in Nat

None    == 0
Streams == 1..NumStreams
Fds     == 1..NumFds
Outputs == {"out", "err"}

(* An end of a pipe: whose it is, which pipe, reading or writing.          *)
Ends == Streams \X {"in", "out", "err"} \X {"r", "w"}
Free == <<None, "", "">>

(* The two sides, the child's and the parent's.                            *)
ChildSide(s) == {<<s, "in", "r">>, <<s, "out", "w">>, <<s, "err", "w">>}
Input(s)     == <<s, "in", "w">>
ReadEnds(s)  == {<<s, "out", "r">>, <<s, "err", "r">>}

VARIABLES
  pc,          (* Where the thread of each stream is.                      *)
  oPipeSafe_,  (* The stream whose thread holds the spin lock.             *)
  fds,         (* The descriptors of the process.                          *)
  oSrc_,       (* The numbers each redirector was given.                   *)
  reader,      (* The thread of each redirector, ...                       *)
  posted,      (* ... and the streams and outputs it has work for.         *)
  child,       (* External: the child of each stream, ...                  *)
  held,        (* ... the ends it keeps open, ...                          *)
  loud,        (* ... and what it writes more to than a pipe holds.        *)
  lost         (* History: open ends closed by another stream.             *)

readers  == <<reader, posted>>
children == <<child, held, loud>>
vars == <<pc, oPipeSafe_, fds, oSrc_, readers, children, lost>>

Open == {fds[n] : n \in Fds} \ {Free}
Running == {s \in Streams : child[s] = "running"}

(* Whether no process has the end open.                                    *)
AllClosed(e) == e \notin Open /\ \A c \in Running : e \notin held[c]

(* A redirector's thread that runs while its io_service is destroyed.      *)
Astray ==
  \E s \in Streams, p \in Outputs :
    pc[s] \in {"abandon", "abandoned"} /\ reader[s][p] \in {"started", "reading"}

(* What a program does with another's descriptors, or with what has been   *)
(* destroyed, is not modelled.                                             *)
Over == lost # {} \/ Astray

Goto(s, from, to) == ~Over /\ pc[s] = from /\ pc' = [pc EXCEPT ![s] = to]
Acquire(s) == oPipeSafe_ = None /\ oPipeSafe_' = s
Release    == oPipeSafe_' = None
Close(ends) == fds' = [n \in Fds |-> IF fds[n] \in ends THEN Free ELSE fds[n]]

-----------------------------------------------------------------------------
Init ==
  /\ pc = [s \in Streams |-> "open"]
  /\ oPipeSafe_ = None
  /\ fds = [n \in Fds |-> Free]
  /\ oSrc_ = [s \in Streams |-> {}]
  /\ reader = [s \in Streams |-> [p \in Outputs |-> "none"]]
  /\ posted = {}
  /\ child = [s \in Streams |-> "none"]
  /\ held = [s \in Streams |-> {}]
  /\ loud \in [Streams -> SUBSET Outputs]
  /\ lost = {}

-----------------------------------------------------------------------------
(* The constructor.                                                        *)

(* Fault: the lock is not taken.                                           *)
LockIgnored(s) ==
  /\ Goto(s, "open", "pipes")
  /\ UNCHANGED <<oPipeSafe_, fds, oSrc_, readers, children, lost>>

Lock(s) ==
  /\ Goto(s, "open", "pipes")
  /\ Acquire(s)
  /\ UNCHANGED <<fds, oSrc_, readers, children, lost>>

(* The end the k-th descriptor of Pipe pipes[3] is: pipe() makes a reading *)
(* end and a writing one.                                                  *)
PipeEnd(s, k) ==
  <<s, [i \in 1..6 |-> IF i <= 2 THEN "in" ELSE IF i <= 4 THEN "out"
                       ELSE "err"][k],
       IF k % 2 = 1 THEN "r" ELSE "w">>

FreeUpTo(n) == {m \in 1..n : fds[m] = Free}

Pipes(s) ==
  /\ Goto(s, "pipes", "fork")
  /\ Cardinality(FreeUpTo(NumFds)) >= 6
  /\ fds' = [n \in Fds |->
               LET k == Cardinality(FreeUpTo(n))
               IN  IF fds[n] = Free /\ k \in 1..6 THEN PipeEnd(s, k)
                   ELSE fds[n]]
  /\ UNCHANGED <<oPipeSafe_, oSrc_, readers, children, lost>>

(* pipe or fork fails: the pipes made are released.                        *)
OpenRaises(s) ==
  /\ \E from \in {"pipes", "fork"} : Goto(s, from, "failed")
  /\ Close({s} \X {"in", "out", "err"} \X {"r", "w"})
  /\ Release
  /\ UNCHANGED <<oSrc_, readers, children, lost>>

(* The child attaches and releases its own pipes; the rest it keeps.       *)
Fork(s) ==
  /\ Goto(s, "fork", "detach")
  /\ child' = [child EXCEPT ![s] = "running"]
  /\ held' = [held EXCEPT ![s] =
                {e \in Open : e[1] # s} \union ChildSide(s)]
  /\ UNCHANGED <<oPipeSafe_, fds, oSrc_, readers, loud, lost>>

Detach(s) ==
  /\ Goto(s, "detach", "start_out")
  /\ Close(ChildSide(s))
  /\ Release
  /\ UNCHANGED <<oSrc_, readers, children, lost>>

-----------------------------------------------------------------------------
(* cAsyncRedirectorImpl::vReadAsync: the thread is started first, ...      *)
StartReader(s, p) ==
  /\ IF p = "out" THEN Goto(s, "start_out", "post_out")
                  ELSE Goto(s, "start_err", "post_err")
  /\ oSrc_' = [oSrc_ EXCEPT ![s] =
                 @ \union {n \in Fds : fds[n] = <<s, p, "r">>}]
  /\ reader' = [reader EXCEPT ![s][p] = "started"]
  /\ UNCHANGED <<oPipeSafe_, fds, posted, children, lost>>

(* ... then it is given its work.                                          *)
PostReader(s, p) ==
  /\ IF p = "out" THEN Goto(s, "post_out", "start_err")
                  ELSE Goto(s, "post_err", "write")
  /\ posted' = posted \union {<<s, p>>}
  /\ UNCHANGED <<oPipeSafe_, fds, oSrc_, reader, children, lost>>

(* The thread cannot be made.  The constructor raises, so the destructor is*)
(* not run, and nobody waits for the child; the members are destroyed: the *)
(* redirectors close the numbers they were given, ...                      *)
StartRaises(s, p) ==
  /\ Goto(s, IF p = "out" THEN "start_out" ELSE "start_err", "abandon")
  /\ oSrc_' = [oSrc_ EXCEPT ![s] = @ \union {n \in Fds : fds[n] = <<s, p, "r">>}]
  /\ fds' = [n \in Fds |-> IF n \in oSrc_'[s] THEN Free ELSE fds[n]]
  /\ UNCHANGED <<oPipeSafe_, readers, children, lost>>

(* ... out_ and err_ close theirs, which may be the same, and the buffer   *)
(* closes the input.                                                       *)
Abandon(s) ==
  /\ Goto(s, "abandon", "abandoned")
  /\ lost' = {fds[n] : n \in oSrc_[s]} \ {Free}
  /\ fds' = [n \in Fds |-> IF n \in oSrc_[s] \/ fds[n] \in ReadEnds(s) \cup {Input(s)}
                           THEN Free ELSE fds[n]]
  /\ oSrc_' = [oSrc_ EXCEPT ![s] = {}]
  /\ UNCHANGED <<oPipeSafe_, readers, children>>

(* io_service::run in the thread.  When it finds no work it returns, and   *)
(* what is posted later is not run.                                        *)
Run(s, p) ==
  /\ ~Over
  /\ reader[s][p] = "started"
  /\ reader' = [reader EXCEPT ![s][p] =
                  IF <<s, p>> \in posted THEN "reading" ELSE "gone"]
  /\ UNCHANGED <<pc, oPipeSafe_, fds, oSrc_, posted, children, lost>>

EndOfOutput(s, p) ==
  /\ ~Over
  /\ reader[s][p] = "reading"
  /\ AllClosed(<<s, p, "w">>)
  /\ reader' = [reader EXCEPT ![s][p] = "done"]
  /\ UNCHANGED <<pc, oPipeSafe_, fds, oSrc_, posted, children, lost>>

-----------------------------------------------------------------------------
(* The destructor.                                                         *)

LockAgain(s) ==
  /\ Goto(s, "write", "close")
  /\ Acquire(s)
  /\ UNCHANGED <<fds, oSrc_, readers, children, lost>>

(* Fault: the child is waited for with its input open.                     *)
WaitFirst(s) ==
  /\ Goto(s, "close", "wait")
  /\ Release
  /\ UNCHANGED <<fds, oSrc_, readers, children, lost>>

(* The end of the input, then vWaitForChild, which releases the lock, ...  *)
CloseInput(s) ==
  /\ Goto(s, "close", "wait")
  /\ Close({Input(s)})
  /\ Release
  /\ UNCHANGED <<oSrc_, readers, children, lost>>

(* ... returns from waitpid ...                                            *)
Reap(s) ==
  /\ Goto(s, "wait", "relock")
  /\ child[s] = "ended"
  /\ child' = [child EXCEPT ![s] = "reaped"]
  /\ UNCHANGED <<oPipeSafe_, fds, oSrc_, readers, held, loud, lost>>

(* ... and takes the lock again.                                           *)
Relock(s) ==
  /\ Goto(s, "relock", "join")
  /\ Acquire(s)
  /\ UNCHANGED <<fds, oSrc_, readers, children, lost>>

(* cAsyncRedirectorImpl::vWait of both outputs, whose text is then logged. *)
Join(s) ==
  /\ Goto(s, "join", "outputs")
  /\ \A p \in Outputs : reader[s][p] \in {"done", "gone"}
  /\ UNCHANGED <<oPipeSafe_, fds, oSrc_, readers, children, lost>>

CloseOutputs(s) ==
  /\ Goto(s, "outputs", "members")
  /\ Close(ReadEnds(s))
  /\ Release
  /\ UNCHANGED <<oSrc_, readers, children, lost>>

(* The members: oSrc_ of each redirector closes its number, which out_ and *)
(* err_ have closed.                                                       *)
DestroyMembers(s) ==
  /\ Goto(s, "members", "closed")
  /\ lost' = {fds[n] : n \in oSrc_[s]} \ {Free}
  /\ fds' = [n \in Fds |-> IF n \in oSrc_[s] THEN Free ELSE fds[n]]
  /\ oSrc_' = [oSrc_ EXCEPT ![s] = {}]
  /\ UNCHANGED <<oPipeSafe_, readers, children>>

-----------------------------------------------------------------------------
(* External: a child reads its input to the end, writes its outputs, and   *)
(* ends; one that writes much is stopped by a full pipe nobody reads, and  *)
(* ended by one nobody can read.                                           *)
ChildEnds(s) ==
  /\ ~Over
  /\ child[s] = "running"
  /\ AllClosed(Input(s))
  /\ \A p \in loud[s] : reader[s][p] = "reading" \/ AllClosed(<<s, p, "r">>)
  /\ child' = [child EXCEPT ![s] = "ended"]
  /\ UNCHANGED <<pc, oPipeSafe_, fds, oSrc_, readers, held, loud, lost>>

Constructor(s) ==
  \/ Lock(s) \/ Pipes(s) \/ OpenRaises(s) \/ Fork(s) \/ Detach(s)
  \/ \E p \in Outputs : StartReader(s, p) \/ StartRaises(s, p) \/ PostReader(s, p)
  \/ Abandon(s)

Destructor(s) ==
  \/ LockAgain(s) \/ CloseInput(s) \/ Reap(s) \/ Relock(s) \/ Join(s)
  \/ CloseOutputs(s) \/ DestroyMembers(s)

Redirector(s) == \E p \in Outputs : Run(s, p) \/ EndOfOutput(s, p)

Next ==
  \E s \in Streams :
    Constructor(s) \/ Destructor(s) \/ Redirector(s) \/ ChildEnds(s)

(* Threads are scheduled, a stream that was opened is closed, children     *)
(* end.  Nobody takes a step twice, so no thread can keep another from one *)
(* for ever: to go on is all that has to be asked.                         *)
Fairness == WF_vars(Next)

Spec == Init /\ [][Next]_vars /\ Fairness

-----------------------------------------------------------------------------
Stages == {"open", "pipes", "fork", "detach", "start_out", "post_out",
           "start_err", "post_err", "write", "close", "wait", "relock",
           "join", "outputs", "members", "closed", "failed", "abandon", "abandoned"}

TypeOK ==
  /\ pc \in [Streams -> Stages]
  /\ oPipeSafe_ \in Streams \union {None}
  /\ fds \in [Fds -> Ends \union {Free}]
  /\ oSrc_ \in [Streams -> SUBSET Fds]
  /\ reader \in [Streams ->
                 [Outputs -> {"none", "started", "reading", "done", "gone"}]]
  /\ posted \subseteq Streams \X Outputs
  /\ child \in [Streams -> {"none", "running", "ended", "reaped"}]
  /\ held \in [Streams -> SUBSET Ends]
  /\ loud \in [Streams -> SUBSET Outputs]
  /\ lost \subseteq Ends

(* A child that waits for the end of its input may have to wait for other  *)
(* children, which have inherited the writing end.  They never wait for    *)
(* each other: of any children that run, one has an input that no other of *)
(* them keeps open.  That is what forking under the static lock is for:    *)
(* without it two children could each inherit the input of the other.      *)
NoCircularWait ==
  \A S \in SUBSET Running :
    S # {} => \E c \in S : \A d \in S : Input(c) \notin held[d]

(* The writing ends of a child's outputs are inherited by no other child:  *)
(* the thread that collects them sees their end when this child ends, and  *)
(* the destructor, which joins the thread with the lock held, waits for no *)
(* other child.                                                            *)
OutputIsItsOwn ==
  \A s, c \in Streams, p \in Outputs :
    child[c] # "none" /\ <<s, p, "w">> \in held[c] => c = s
=============================================================================
