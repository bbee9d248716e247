------------------------------ MODULE MetaFetch ------------------------------
(***************************************************************************)
(* How getmeta reads the dictionary (cGetMetaImpl::vRun, lines 130-429).   *)
(* Every describer has a reader: a statement, the raw array of BulkSize    *)
(* rows that is bound to it, and the describer's list, to which the rows   *)
(* of the array are added after every fetch.  The first readers, of the    *)
(* key columns and of the columns, are executed by the main thread; the    *)
(* others are put in a queue and executed by vSynchronize, iConcurrency at *)
(* a time.  The script is written when all have been joined.               *)
(*                                                                         *)
(* The array is a static member of the reader's class.  cAllConsColumns is *)
(* used twice, so two readers of the queue are bound to the same array.    *)
(* A row is one step of the server, the copying of an array is one step.   *)
(* The sorting of a full list, which moves no row in or out, is left out.  *)
(***************************************************************************)
EXTENDS Integers, Sequences, FiniteSets

CONSTANTS
  Readers,       (* The readers.                                           *)
  oQueue,        (* The readers in the order in which they are submitted.  *)
  NumInstant,    (* The first so many are executed at once.                *)
  Cloned,        (* The reader whose describer is copied before the rest.  *)
  Arrays,        (* The static arrays ...                                  *)
  rTable,        (* ... and the one of every reader.                       *)
  Rows,          (* The result of every reader's query.                    *)
  BulkSize,      (* The number of rows an array holds.                     *)
  iConcurrency   (* "parallelism".                                         *)

ASSUME QueueAssumption ==
  /\ oQueue \in Seq(Readers)
  /\ \A i, j \in DOMAIN oQueue : oQueue[i] = oQueue[j] => i = j
  /\ \A r \in Readers : \E i \in DOMAIN oQueue : oQueue[i] = r
  /\ NumInstant \in 0..Len(oQueue)
  /\ Cloned \in Readers
ASSUME RowsAssumption ==
  /\ rTable \in [Readers -> Arrays]
  /\ \A r \in Readers : Rows[r] \in Seq(Int)
ASSUME SizeAssumption == BulkSize \in Nat \ {0} /\ iConcurrency \in Nat \ {0}

VARIABLES
  pc,            (* Where the main thread is.                              *)
  head,          (* The next reader of the queue.                          *)
  progress,      (* Where every reader is.                                 *)
  sent,          (* How many rows the server has sent to it.               *)
  iNumIter,      (* How many of them the current fetch has put into array. *)
  array,         (* The contents of the static arrays.                     *)
  oList,         (* The lists of the describers.                           *)
  cont_,         (* cRtn::iCotinue.                                        *)
  ep             (* A reader has raised, and vSynchronize can see it.      *)

readerVars == <<progress, sent, iNumIter, array, oList>>
fetchVars == <<pc, head, readerVars, cont_, ep>>

Running == {r \in Readers : progress[r] \in {"started", "fetching"}}

(* A reader that shares its array with no other, or not at the same time.  *)
HasOwnArray(r) == \A q \in Readers \ {r} : rTable[q] # rTable[r]
IsUndisturbed(r) == HasOwnArray(r) \/ iConcurrency = 1

NoRow == 0

FetchInit ==
  /\ pc = "instant"
  /\ head = 1
  /\ progress = [r \in Readers |-> "queued"]
  /\ sent = [r \in Readers |-> 0]
  /\ iNumIter = [r \in Readers |-> 0]
  /\ array = [a \in Arrays |-> [i \in 1..BulkSize |-> NoRow]]
  /\ oList = [r \in Readers |-> <<>>]
  /\ cont_ = TRUE
  /\ ep = FALSE

(* --- The main thread --------------------------------------------------- *)

Start ==
  /\ progress' = [progress EXCEPT ![oQueue[head]] = "started"]
  /\ head' = head + 1
  /\ UNCHANGED <<sent, iNumIter, array, oList>>

(* pop_back and vExecuteAndFetch: nobody asks whether to go on.            *)
ExecuteInstantly ==
  /\ pc = "instant" /\ head <= NumInstant /\ Running = {}
  /\ Start
  /\ UNCHANGED <<pc, cont_, ep>>

(* Cloning oAllTabColumns: a describer is cloneable when its query has     *)
(* returned a row.                                                         *)
Clone ==
  /\ pc = "instant" /\ head > NumInstant /\ Running = {}
  /\ pc' = IF oList[Cloned] = <<>> THEN "raised" ELSE "loop"
  /\ UNCHANGED <<head, readerVars, cont_, ep>>

(* while (!oTasks.empty() && rtn_.iCotinue()), and the test of ep behind it*)
Test ==
  /\ pc = "loop"
  /\ pc' = IF head <= Len(oQueue) /\ cont_ THEN "pop"
           ELSE IF ep THEN "rethrow" ELSE "join"
  /\ UNCHANGED <<head, readerVars, cont_, ep>>

(* A thread is taken from the pool and started; an exception that has been *)
(* kept by then cancels the rest.                                          *)
Submit ==
  /\ pc = "pop" /\ Cardinality(Running) < iConcurrency
  /\ Start
  /\ pc' = "loop"
  /\ cont_' = (cont_ /\ ~ep)
  /\ UNCHANGED ep

(* What a faulty exit would do: it does not wait.                          *)
JoinAtOnce ==
  /\ pc \in {"join", "rethrow"}
  /\ pc' = IF pc = "join" THEN "script" ELSE "raised"
  /\ UNCHANGED <<head, readerVars, cont_, ep>>

(* The scope exit of vSynchronize waits for all readers; then the script   *)
(* is written, or the exception goes on.                                   *)
Join ==
  /\ pc \in {"join", "rethrow"} /\ Running = {}
  /\ pc' = IF pc = "join" THEN "script" ELSE "raised"
  /\ UNCHANGED <<head, readerVars, cont_, ep>>

Main == ExecuteInstantly \/ Clone \/ Test \/ Submit \/ Join

(* --- A reader ---------------------------------------------------------- *)

(* vExecute, and the first test of the loop in iFetch.                     *)
Execute(r) ==
  /\ progress[r] = "started"
  /\ progress' = [progress EXCEPT ![r] = IF cont_ THEN "fetching" ELSE "done"]
  /\ UNCHANGED <<pc, head, sent, iNumIter, array, oList, cont_, ep>>

(* iStmtFetch2 puts one more row into the array.                           *)
Receive(r) ==
  /\ progress[r] = "fetching" /\ iNumIter[r] < BulkSize /\ sent[r] < Len(Rows[r])
  /\ sent' = [sent EXCEPT ![r] = sent[r] + 1]
  /\ iNumIter' = [iNumIter EXCEPT ![r] = iNumIter[r] + 1]
  /\ array' = [array EXCEPT ![rTable[r]][iNumIter[r] + 1] = Rows[r][sent[r] + 1]]
  /\ UNCHANGED <<pc, head, progress, oList, cont_, ep>>

(* What a faulty loop would do: add the whole array, and not only the rows *)
(* of this fetch; or go on at the end of the data.                         *)
TakeArray(r) ==
  /\ progress[r] = "fetching" /\ (iNumIter[r] = BulkSize \/ sent[r] = Len(Rows[r]))
  /\ oList' = [oList EXCEPT ![r] = @ \o array[rTable[r]]]
  /\ iNumIter' = [iNumIter EXCEPT ![r] = 0]
  /\ progress' = [progress EXCEPT ![r] =
                    IF cont_ /\ iNumIter[r] = BulkSize THEN "fetching" ELSE "done"]
  /\ UNCHANGED <<pc, head, sent, array, cont_, ep>>

(* It returns, vPostBulkAction adds what the array holds to the list, and  *)
(* the loop is left at the end of the data or when the program is told to  *)
(* stop: the list then lacks the rest, and vExecuteAndFetch goes on.       *)
TakeBulk(r) ==
  /\ progress[r] = "fetching" /\ (iNumIter[r] = BulkSize \/ sent[r] = Len(Rows[r]))
  /\ oList' = [oList EXCEPT ![r] = @ \o SubSeq(array[rTable[r]], 1, iNumIter[r])]
  /\ iNumIter' = [iNumIter EXCEPT ![r] = 0]
  /\ progress' = [progress EXCEPT ![r] =
                    IF cont_ /\ iNumIter[r] = BulkSize THEN "fetching" ELSE "done"]
  /\ UNCHANGED <<pc, head, sent, array, cont_, ep>>

(* The execution or a fetch fails.  The exception of a reader the main     *)
(* thread executes is its own; vSynchronize looks at ep no more once its   *)
(* loop has been left.                                                     *)
ReaderRaises(r) ==
  /\ progress[r] \in {"started", "fetching"}
  /\ progress' = [progress EXCEPT ![r] = "failed"]
  /\ IF pc = "instant" THEN pc' = "raised" /\ UNCHANGED ep
     ELSE UNCHANGED pc /\ ep' = (ep \/ pc \in {"loop", "pop"})
  /\ UNCHANGED <<head, sent, iNumIter, array, oList, cont_>>

Work(r) == Execute(r) \/ Receive(r) \/ TakeBulk(r)

Reader(r) == Work(r) \/ ReaderRaises(r)

(* --- The signal thread ------------------------------------------------- *)

Interrupt ==
  /\ cont_ /\ pc \notin {"script", "raised"}
  /\ cont_' = FALSE
  /\ UNCHANGED <<pc, head, readerVars, ep>>

FetchEnded == pc \in {"script", "raised"} /\ UNCHANGED fetchVars

FetchNext == Main \/ (\E r \in Readers : Reader(r)) \/ Interrupt \/ FetchEnded

FetchSpec == FetchInit /\ [][FetchNext]_fetchVars

(* --- Properties -------------------------------------------------------- *)

TypeOK ==
  /\ pc \in {"instant", "loop", "pop", "join", "rethrow", "script", "raised"}
  /\ head \in 1..(Len(oQueue) + 1)
  /\ progress \in [Readers -> {"queued", "started", "fetching", "done", "failed"}]
  /\ sent \in [Readers -> Nat]
  /\ \A r \in Readers : sent[r] <= Len(Rows[r])
  /\ iNumIter \in [Readers -> 0..BulkSize]
  /\ array \in [Arrays -> [1..BulkSize -> Int]]
  /\ oList \in [Readers -> Seq(Int)]
  /\ cont_ \in BOOLEAN /\ ep \in BOOLEAN

(* At any time a list is the beginning of its own query's result: no row   *)
(* is lost, repeated or another reader's, for every describer whose array  *)
(* is its own, whatever the others do at the same time; and for all of     *)
(* them when readers run one after the other.  (cAllConsColumns.cpp:124 is *)
(* the array that two readers share.)                                      *)
ListsAreTheirQueries ==
  \A r \in Readers :
    IsUndisturbed(r) =>
      \E n \in 0..sent[r] : oList[r] = SubSeq(Rows[r], 1, n)

(* A script is written from whole lists, unless the program was told to    *)
(* stop, or a reader failed that was still running when vSynchronize had   *)
(* left its loop (its exception is lost).                                  *)
ScriptIsWhole ==
  pc = "script" /\ cont_ =>
    \A r \in Readers :
      progress[r] # "failed" /\ IsUndisturbed(r) => oList[r] = Rows[r]

(* --- The inductive invariant behind them ------------------------------- *)

(* What has not been reached waits; and whoever reads alone is alone.      *)
ReadersAreTaken ==
  /\ \A i \in DOMAIN oQueue : progress[oQueue[i]] = "queued" <=> i >= head
  /\ pc = "pop" => head <= Len(oQueue)
  /\ iConcurrency = 1 => \A q, r \in Running : q = r

(* The list has every row the server has sent, but for those of the fetch  *)
(* that is under way, which are in the array.                              *)
Taken(r) == sent[r] - iNumIter[r]

ListIsTheBeginning(r) ==
  /\ Taken(r) >= 0
  /\ oList[r] = SubSeq(Rows[r], 1, Taken(r))
  /\ progress[r] = "fetching" =>
       \A i \in 1..iNumIter[r] : array[rTable[r]][i] = Rows[r][Taken(r) + i]

NothingIsReadBefore ==
  \A r \in Readers :
    progress[r] \in {"queued", "started"} => sent[r] = 0 /\ iNumIter[r] = 0

(* As long as the program is not told to stop, a reader is done when its   *)
(* data have come to an end, and the main thread when its queue has.       *)
DoneIsComplete ==
  /\ cont_ =>
       /\ \A r \in Readers :
            progress[r] = "done" => sent[r] = Len(Rows[r]) /\ iNumIter[r] = 0
       /\ pc \in {"join", "script"} => head = Len(oQueue) + 1
  /\ pc = "script" => Running = {}

FetchInv ==
  /\ TypeOK
  /\ ReadersAreTaken
  /\ NothingIsReadBefore
  /\ \A r \in Readers : IsUndisturbed(r) => ListIsTheBeginning(r)
  /\ DoneIsComplete
==============================================================================
