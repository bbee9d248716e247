--------------------------- MODULE UnloaderProofs ---------------------------
(* What the caller of cUnloader::vExecuteAndFetch can rely on, for every   *)
(* number of statements, every fetch size and every number of rows: the    *)
(* proofs about Unloader.                                                  *)
EXTENDS Unloader, FiniteSetTheorems, SequenceTheorems, TLAPS

USE DEF Stmts, None

(* What a step of a fetch thread leaves alone: the caller's position, the  *)
(* other threads, and of its own state more than the place in the code.    *)
LEMMA FetchMoves ==
  ASSUME CallInv, NEW k \in Stmts, iFetch(k)
  PROVE  /\ thread[k] \notin {"none", "ended"}
         /\ thread' \in [Stmts -> {"none", "test", "pre", "fetch", "convert",
                                   "lock", "put", "caught", "keep", "ended"}]
         /\ \A j \in Stmts : j # k => thread'[j] = thread[j]
         /\ at' = at
         /\ pc' = pc \/ pc' = "terminated"
         /\ pc \notin {"returned", "raised", "terminated"}
<1> USE DEF CallInv, ControlTypes, Step, Over
<1>1. CASE TestContinues(k) BY <1>1 DEF TestContinues
<1>2. CASE TestLeaves(k) BY <1>2 DEF TestLeaves
<1>3. CASE vPreBulkAction(k) BY <1>3 DEF vPreBulkAction
<1>4. CASE iStmtFetch2(k) BY <1>4 DEF iStmtFetch2, Fetched
<1>5. CASE FetchIsCancelled(k) BY <1>5 DEF FetchIsCancelled, Fetched
<1>6. CASE FetchRaises(k) BY <1>6 DEF FetchRaises
<1>7. CASE Convert(k) BY <1>7 DEF Convert
<1>8. CASE Lock(k) BY <1>8 DEF Lock
<1>9. CASE Put(k) BY <1>9 DEF Put
<1>10. CASE PutCrashes(k) BY <1>10 DEF PutCrashes, Goto
<1>11. CASE PutEnds(k) BY <1>11 DEF PutEnds
<1>12. CASE PutRaises(k) BY <1>12 DEF PutRaises
<1>13. CASE Caught(k) BY <1>13 DEF Caught
<1>14. CASE Keep(k) \/ KeepInVain(k) BY <1>14 DEF Keep, KeepInVain
<1>15. QED
  BY <1>1, <1>2, <1>3, <1>4, <1>5, <1>6, <1>7, <1>8, <1>9, <1>10, <1>11,
     <1>12, <1>13, <1>14 DEF iFetch

(* An exception in a fetch thread leads to its catch clause, and that to   *)
(* an ep that is set, as long as there is an ep; ep stays set.             *)
LEMMA FetchKeepsFailures ==
  ASSUME CallInv, NEW k \in Stmts, iFetch(k)
  PROVE  /\ ep' \in Stmts \cup {None}
         /\ ep # None => ep' # None
         /\ failed' \in SUBSET Stmts
         /\ \A j \in failed' : j \in failed \/ (j = k /\ thread'[k] = "caught")
         /\ k \in failed /\ ~FrameLost
              => \/ thread'[k] \in {"caught", "keep"}
                 \/ thread'[k] = "ended" /\ ep' # None
<1> USE DEF CallInv, ControlTypes, FailuresAreKept, Step, Over, FrameLost,
            history
<1>1. CASE TestContinues(k) BY <1>1 DEF TestContinues
<1>2. CASE TestLeaves(k) BY <1>2 DEF TestLeaves
<1>3. CASE vPreBulkAction(k) BY <1>3 DEF vPreBulkAction
<1>4. CASE iStmtFetch2(k) BY <1>4 DEF iStmtFetch2, Fetched
<1>5. CASE FetchIsCancelled(k) BY <1>5 DEF FetchIsCancelled, Fetched
<1>6. CASE FetchRaises(k) BY <1>6 DEF FetchRaises
<1>7. CASE Convert(k) BY <1>7 DEF Convert
<1>8. CASE Lock(k) BY <1>8 DEF Lock
<1>9. CASE Put(k) BY <1>9 DEF Put
<1>10. CASE PutCrashes(k) BY <1>10 DEF PutCrashes, Goto
<1>11. CASE PutEnds(k) BY <1>11 DEF PutEnds
<1>12. CASE PutRaises(k) BY <1>12 DEF PutRaises
<1>13. CASE Caught(k) BY <1>13 DEF Caught
<1>14. CASE Keep(k) BY <1>14 DEF Keep
<1>15. CASE KeepInVain(k) BY <1>15 DEF KeepInVain
<1>16. QED
  BY <1>1, <1>2, <1>3, <1>4, <1>5, <1>6, <1>7, <1>8, <1>9, <1>10, <1>11,
     <1>12, <1>13, <1>14, <1>15 DEF iFetch

LEMMA InitCall == Init => CallInv
<1> SUFFICES ASSUME Init PROVE CallInv
  OBVIOUS
<1>1. ControlTypes
  BY UnloaderAssumption DEF Init, ControlTypes
<1>2. LaunchedInOrder
  BY UnloaderAssumption DEF Init, LaunchedInOrder
<1>3. QED
  BY <1>1, <1>2 DEF Init, CallInv, JoinedInOrder, NoThreadSurvives,
                    FailuresAreKept

(* A step of a fetch thread preserves the invariant.                       *)
LEMMA FetchPreserves ==
  ASSUME CallInv, NEW k \in Stmts, iFetch(k) PROVE CallInv'
<1>1. ControlTypes'
  BY FetchMoves, FetchKeepsFailures DEF CallInv, ControlTypes
<1>2. LaunchedInOrder'
  BY FetchMoves DEF CallInv, LaunchedInOrder
<1>3. JoinedInOrder'
  BY FetchMoves DEF CallInv, JoinedInOrder
<1>4. NoThreadSurvives'
  BY FetchMoves DEF CallInv, NoThreadSurvives, Running, FrameLost
<1>5. FailuresAreKept'
  BY FetchMoves, FetchKeepsFailures DEF CallInv, ControlTypes, FailuresAreKept,
                                        FrameLost
<1>6. (pc = "returned" => ep = None)'
  BY FetchMoves
<1>7. QED
  BY <1>1, <1>2, <1>3, <1>4, <1>5, <1>6 DEF CallInv

(* A step of the calling thread preserves the invariant.                   *)
LEMMA CallerPreserves == ASSUME CallInv, Caller PROVE CallInv'
<1> USE DEF CallInv, ControlTypes, LaunchedInOrder, JoinedInOrder,
            NoThreadSurvives, FailuresAreKept, Running, FrameLost, Goto,
            history
<1>1. CASE OpenData BY <1>1 DEF OpenData
<1>2. CASE OpenRaises BY <1>2 DEF OpenRaises
<1>3. CASE Execute BY <1>3 DEF Execute
<1>4. CASE ExecuteRaises BY <1>4 DEF ExecuteRaises
<1>5. CASE Unwind BY <1>5 DEF Unwind, Launched
<1>6. CASE Launch
  <2>1. thread[at] = "none" /\ at \in Stmts
    BY <1>6 DEF Launch
  <2>2. at \notin failed
    BY <1>6, <2>1 DEF Launch
  <2>3. QED
    BY <1>6, <2>1, <2>2, UnloaderAssumption DEF Launch
<1>7. CASE Break
  <2>1. at' \in Nat /\ \A k \in Stmts : ~(k < at')
    BY <1>7 DEF Break
  <2>2. QED
    BY <1>7, <2>1, UnloaderAssumption DEF Break
<1>8. CASE Join
  <2>1. \A k \in Stmts : k < at' => k < at \/ k = at
    BY <1>8 DEF Join
  <2>2. QED
    BY <1>8, <2>1, UnloaderAssumption DEF Join
<1>9. CASE CloseData
  <2>1. \A k \in Stmts : at # 0 => k < at
    BY <1>9, UnloaderAssumption DEF CloseData
  <2>2. QED
    BY <1>9, <2>1 DEF CloseData
<1>10. CASE ControlRaises BY <1>10 DEF ControlRaises
<1>11. CASE Report BY <1>11 DEF Report
<1>12. QED
  BY <1>1, <1>2, <1>3, <1>4, <1>5, <1>6, <1>7, <1>8, <1>9, <1>10, <1>11
     DEF Caller

LEMMA CallNext == ASSUME CallInv, [Next]_vars PROVE CallInv'
<1>1. CASE Caller
  BY <1>1, CallerPreserves
<1>2. CASE \E k \in Stmts : iFetch(k)
  BY <1>2, FetchPreserves
<1>3. CASE vBreak \/ UNCHANGED vars
  BY <1>3 DEF vBreak, vars, history, CallInv, ControlTypes, LaunchedInOrder,
              JoinedInOrder, NoThreadSurvives, FailuresAreKept, Running,
              FrameLost
<1>4. QED
  BY <1>1, <1>2, <1>3 DEF Next

(* The invariant holds whatever the threads, the database, the stream and  *)
(* the cancellation do.                                                    *)
THEOREM InvariantHolds == Spec => []CallInv
<1>1. Init => CallInv
  BY InitCall
<1>2. CallInv /\ [Next]_vars => CallInv'
  BY CallNext
<1>3. QED
  BY <1>1, <1>2, PTL DEF Spec

(* Nobody sees vExecuteAndFetch return or raise while a fetch thread uses  *)
(* the statements, the buffers and the stream.  The one way out of the     *)
(* frame with threads running, a later statement that raises, leaves only  *)
(* threads of earlier statements, and ends in the end of the process.      *)
THEOREM ThreadsEndBeforeTheCall == Spec => []NoThreadSurvives
<1>1. CallInv => NoThreadSurvives
  BY DEF CallInv
<1>2. QED
  BY <1>1, InvariantHolds, PTL

(* An exception caught in any fetch thread leaves vExecuteAndFetch as an   *)
(* exception: the unsynchronised test of ep cannot lose them all.          *)
THEOREM ExceptionsAreRethrown == Spec => []RaisedIsRethrown
<1>1. CallInv => RaisedIsRethrown
  BY DEF CallInv, ControlTypes, NoThreadSurvives, FailuresAreKept,
         RaisedIsRethrown, Running, FrameLost
<1>2. QED
  BY <1>1, InvariantHolds, PTL

-----------------------------------------------------------------------------
(* Types.                                                                  *)

LEMMA MinOfTwo ==
  ASSUME NEW a \in Nat, NEW b \in Nat
  PROVE  /\ Min({a, b}) \in {a, b}
         /\ Min({a, b}) <= a
         /\ Min({a, b}) <= b
<1>1. \E x \in {a, b} : \A y \in {a, b} : x <= y
  OBVIOUS
<1>2. QED
  BY <1>1 DEF Min

LEMMA Updated ==
  ASSUME NEW S, NEW T, NEW f \in [S -> T], NEW x \in S, NEW v \in T
  PROVE  [f EXCEPT ![x] = v] \in [S -> T]
OBVIOUS

(* The types of the counters, one by one.                                  *)
LEMMA CounterFunctions ==
  ASSUME CounterTypes
  PROVE  /\ numRows \in [Stmts -> 0..MaxRows]
         /\ left \in [Stmts -> 0..MaxRows]
         /\ iNumIter \in [Stmts -> 0..iBulkSize]
         /\ iRow \in [Stmts -> 0..(iBulkSize + 1)]
         /\ noData \in [Stmts -> BOOLEAN]
         /\ iTotalRows \in [Stmts -> Nat]
         /\ oTls_ \in [Stmts -> Stmts \cup {None}]
BY Zenon DEF CounterTypes

LEMMA Counters ==
  ASSUME CounterTypes, NEW k \in Stmts
  PROVE  /\ numRows[k] \in 0..MaxRows
         /\ left[k] \in 0..MaxRows
         /\ iNumIter[k] \in 0..iBulkSize
         /\ iRow[k] \in 0..(iBulkSize + 1)
         /\ noData[k] \in BOOLEAN
         /\ iTotalRows[k] \in Nat
         /\ oTls_[k] \in Stmts \cup {None}
BY CounterFunctions, Zenon

(* What the two ways a fetch can end have in common: n more rows in the    *)
(* define buffer; without a cancel fewer than asked for are the last.      *)
LEMMA FetchStores ==
  ASSUME CounterTypes, NEW k \in Stmts, iStmtFetch2(k) \/ FetchIsCancelled(k)
  PROVE  \E n \in 0..iBulkSize :
           /\ n <= left[k]
           /\ thread[k] = "fetch" /\ ~Over
           /\ Fetched(k, n)
           /\ \/ /\ noData' = [noData EXCEPT ![k] = n < iBulkSize]
                 /\ n = iBulkSize \/ n = left[k]
                 /\ mayContinue' = mayContinue
              \/ /\ noData' = [noData EXCEPT ![k] = TRUE]
                 /\ mayContinue' = FALSE
           /\ UNCHANGED <<pc, at, iRow, oRowBuf_, iTotalRows, subscripts,
                          spin_, output, ep, outcome, history>>
<1>1. left[k] \in Nat /\ iBulkSize \in Nat
  BY Counters, UnloaderAssumption
<1> DEFINE n0 == Min({iBulkSize, left[k]})
<1>2. n0 \in Nat /\ n0 <= iBulkSize /\ n0 <= left[k]
       /\ (n0 = iBulkSize \/ n0 = left[k])
  BY <1>1, MinOfTwo
<1> HIDE DEF n0
<1>3. CASE iStmtFetch2(k)
  <2>1. /\ Fetched(k, n0) /\ thread[k] = "fetch" /\ ~Over
        /\ noData' = [noData EXCEPT ![k] = n0 < iBulkSize]
        /\ UNCHANGED <<pc, at, mayContinue, iRow, oRowBuf_, iTotalRows,
                       subscripts, spin_, output, ep, outcome, history>>
    BY <1>3, Zenon DEF iStmtFetch2, n0
  <2>2. n0 \in 0..iBulkSize
    BY <1>1, <1>2
  <2>3. QED
    BY <2>1, <2>2, <1>2
<1>4. CASE FetchIsCancelled(k)
  <2>1. PICK n \in 0..n0 : Fetched(k, n)
    BY <1>4 DEF FetchIsCancelled, n0
  <2>2. n \in 0..iBulkSize /\ n <= left[k]
    BY <1>1, <1>2, <2>1
  <2>3. /\ thread[k] = "fetch" /\ ~Over
        /\ noData' = [noData EXCEPT ![k] = TRUE]
        /\ mayContinue' = FALSE
        /\ UNCHANGED <<pc, at, iRow, oRowBuf_, iTotalRows, subscripts,
                       spin_, output, ep, outcome, history>>
    BY <1>4 DEF FetchIsCancelled
  <2>4. QED
    BY <2>1, <2>2, <2>3
<1>5. QED
  BY <1>3, <1>4

(* A thread whose element of oCont_ has no subscript yet finds one free.   *)
LEMMA FreshSubscript ==
  ASSUME TypeInv, NEW k \in Stmts
  PROVE  iTls_ \in Stmts \/ oTls_[k] # None
<1> DEFINE S == {j \in Stmts : oTls_[j] # None}
<1>1. IsFiniteSet(Stmts) /\ Cardinality(Stmts) = NumStmts
  BY FS_Interval, UnloaderAssumption
<1>2. SUFFICES ASSUME oTls_[k] = None PROVE iTls_ \in Stmts
  OBVIOUS
<1>3. S \in SUBSET Stmts /\ S # Stmts
  BY <1>2
<1> HIDE DEF S
<1>4. /\ IsFiniteSet(S) /\ Cardinality(S) <= NumStmts
      /\ Cardinality(S) # NumStmts
  BY <1>1, <1>3, FS_Subset
<1>5. Cardinality(S) \in Nat
  BY <1>4, FS_CardinalityType
<1>6. iTls_ = 1 + Cardinality(S)
  BY DEF TypeInv, SubscriptsAreCounted, S
<1>7. QED
  BY <1>4, <1>5, <1>6, UnloaderAssumption

LEMMA FetchCounts ==
  ASSUME TypeInv, NEW k \in Stmts, iFetch(k)
  PROVE  CounterTypes'
<1> USE UnloaderAssumption
<1>t. CounterTypes
  BY DEF TypeInv, TypeOK
<1>0. CASE iStmtFetch2(k) \/ FetchIsCancelled(k)
  <2>1. PICK n \in 0..iBulkSize :
           /\ n <= left[k]
           /\ Fetched(k, n)
           /\ \/ noData' = [noData EXCEPT ![k] = n < iBulkSize]
              \/ noData' = [noData EXCEPT ![k] = TRUE]
           /\ mayContinue' \in {FALSE, mayContinue}
           /\ UNCHANGED <<iRow, iTotalRows, iTls_, oTls_, spin_, iTotal,
                          action, numRows>>
    BY <1>t, <1>0, FetchStores DEF history, subscripts, outcome
  <2>2. left[k] - n \in 0..MaxRows
    BY <1>t, <2>1, Counters
  <2>3. left' \in [Stmts -> 0..MaxRows]
    BY <1>t, <2>1, <2>2, CounterFunctions DEF Fetched
  <2>4. iNumIter' \in [Stmts -> 0..iBulkSize]
    BY <1>t, <2>1, CounterFunctions DEF Fetched
  <2>5. noData' \in [Stmts -> BOOLEAN] /\ mayContinue' \in BOOLEAN
    <3>1. noData' \in [Stmts -> BOOLEAN]
      <4>1. (n < iBulkSize) \in BOOLEAN
        OBVIOUS
      <4>2. ASSUME NEW b \in BOOLEAN
            PROVE  [noData EXCEPT ![k] = b] \in [Stmts -> BOOLEAN]
        BY <1>t, CounterFunctions, Updated
      <4>3. CASE noData' = [noData EXCEPT ![k] = n < iBulkSize]
        BY <4>1, <4>2, <4>3, Zenon
      <4>4. CASE noData' = [noData EXCEPT ![k] = TRUE]
        BY <4>2, <4>4, Zenon
      <4>5. QED
        BY <2>1, <4>3, <4>4
    <3>2. QED
      BY <1>t, <2>1, <3>1, Zenon DEF CounterTypes
  <2>6. QED
    BY <2>1, <2>3, <2>4, <2>5, <1>t, Zenon DEF CounterTypes
<1> USE DEF buffers, subscripts, outcome, history
<1>1. CASE TestContinues(k) BY <1>1, <1>t, Zenon DEF TestContinues,
                                                     CounterTypes
<1>2. CASE TestLeaves(k) BY <1>2, <1>t, Zenon DEF TestLeaves, CounterTypes
<1>3. CASE vPreBulkAction(k)
  <2>1. iTls_' \in Nat
    <3>1. iTls_ \in Nat
      BY <1>t, Zenon DEF CounterTypes
    <3>2. QED
      BY <1>3, <3>1 DEF vPreBulkAction
  <2>2. oTls_' \in [Stmts -> Stmts \cup {None}]
    <3>1. iTls_ \in Stmts \/ oTls_[k] # None
      BY FreshSubscript
    <3>2. QED
      BY <1>t, <1>3, <3>1, CounterFunctions DEF vPreBulkAction
  <2>3. QED
    BY <1>3, <2>1, <2>2, <1>t, Zenon DEF vPreBulkAction, CounterTypes
<1>6. CASE FetchRaises(k) BY <1>6, <1>t, Zenon DEF FetchRaises, CounterTypes
<1>7. CASE Convert(k) BY <1>7, <1>t, Zenon DEF Convert, CounterTypes
<1>8. CASE Lock(k)
  <2>1. iRow' \in [Stmts -> 0..(iBulkSize + 1)]
    <3>1. 1 \in 0..(iBulkSize + 1)
      OBVIOUS
    <3>2. QED
      BY <1>t, <1>8, <3>1, CounterFunctions, Updated, Zenon DEF Lock
  <2>2. QED
    BY <1>8, <2>1, <1>t, Zenon DEF Lock, CounterTypes
<1>9. CASE Put(k)
  <2>1. iRow' \in [Stmts -> 0..(iBulkSize + 1)]
    <3>1. iRow[k] + 1 \in 0..(iBulkSize + 1)
      BY <1>t, <1>9, Counters DEF Put
    <3>2. QED
      BY <1>t, <1>9, <3>1, CounterFunctions DEF Put
  <2>2. QED
    BY <1>9, <2>1, <1>t, Zenon DEF Put, CounterTypes
<1>10. CASE PutCrashes(k) BY <1>10, <1>t, Zenon DEF PutCrashes, CounterTypes
<1>11. CASE PutEnds(k)
  <2>1. iTotalRows' \in [Stmts -> Nat]
    <3>1. iTotalRows[k] + iNumIter[k] \in Nat
      BY <1>t, Counters
    <3>2. QED
      BY <1>t, <1>11, <3>1, CounterFunctions DEF PutEnds
  <2>2. spin_' \in Stmts \cup {None}
    BY <1>11, <1>t, Zenon DEF PutEnds
  <2>3. QED
    BY <1>11, <2>1, <2>2, <1>t, Zenon DEF PutEnds, CounterTypes
<1>12. CASE PutRaises(k) BY <1>12, <1>t, Zenon DEF PutRaises, CounterTypes
<1>13. CASE Caught(k)
  <2>1. iTotalRows' \in [Stmts -> Nat]
    BY <1>t, <1>13, CounterFunctions DEF Caught
  <2>2. QED
    BY <1>13, <2>1, <1>t, Zenon DEF Caught, CounterTypes
<1>14. CASE Keep(k) \/ KeepInVain(k)
  BY <1>14, <1>t, Zenon DEF Keep, KeepInVain, CounterTypes
<1>16. QED
  BY <1>0, <1>1, <1>2, <1>3, <1>6, <1>7, <1>8, <1>9, <1>10, <1>11,
     <1>12, <1>13, <1>14 DEF iFetch

(* A fetch thread leaves the state of the others alone.                    *)
LEMMA OthersUnchanged ==
  ASSUME TypeInv, NEW k \in Stmts, iFetch(k), NEW j \in Stmts, j # k
  PROVE  /\ thread'[j] = thread[j]
         /\ left'[j] = left[j]
         /\ iNumIter'[j] = iNumIter[j]
         /\ iRow'[j] = iRow[j]
         /\ noData'[j] = noData[j]
         /\ iTotalRows'[j] = iTotalRows[j]
         /\ oTls_'[j] = oTls_[j]
         /\ define'[j] = define[j]
<1>1. /\ DOMAIN thread = Stmts /\ DOMAIN left = Stmts
      /\ DOMAIN iNumIter = Stmts /\ DOMAIN iRow = Stmts
      /\ DOMAIN noData = Stmts /\ DOMAIN iTotalRows = Stmts
      /\ DOMAIN oTls_ = Stmts /\ DOMAIN define = Stmts
  BY CounterFunctions, Zenon DEF TypeInv, TypeOK, ControlTypes, BufferTypes
<1> USE <1>1 DEF Step, buffers, subscripts, outcome, history
<1>2. CASE TestContinues(k) BY <1>2 DEF TestContinues
<1>3. CASE TestLeaves(k) BY <1>3 DEF TestLeaves
<1>4. CASE vPreBulkAction(k) BY <1>4 DEF vPreBulkAction
<1>5. CASE iStmtFetch2(k) BY <1>5 DEF iStmtFetch2, Fetched
<1>6. CASE FetchIsCancelled(k) BY <1>6 DEF FetchIsCancelled, Fetched
<1>7. CASE FetchRaises(k) BY <1>7 DEF FetchRaises
<1>8. CASE Convert(k) BY <1>8 DEF Convert
<1>9. CASE Lock(k) BY <1>9 DEF Lock
<1>10. CASE Put(k) BY <1>10 DEF Put
<1>11. CASE PutCrashes(k) BY <1>11 DEF PutCrashes
<1>12. CASE PutEnds(k) BY <1>12 DEF PutEnds
<1>13. CASE PutRaises(k) BY <1>13 DEF PutRaises
<1>14. CASE Caught(k) BY <1>14 DEF Caught
<1>15. CASE Keep(k) \/ KeepInVain(k) BY <1>15 DEF Keep, KeepInVain
<1>16. QED
  BY <1>2, <1>3, <1>4, <1>5, <1>6, <1>7, <1>8, <1>9, <1>10, <1>11, <1>12,
     <1>13, <1>14, <1>15 DEF iFetch

LEMMA FetchBounds ==
  ASSUME TypeInv, NEW k \in Stmts, iFetch(k)
  PROVE  FetchesAreBounded'
<1> DEFINE Bounded(j) ==
      /\ left[j] + iNumIter[j] <= numRows[j]
      /\ thread[j] = "none" => left[j] = numRows[j]
      /\ thread[j] \in {"convert", "lock", "put"} => iNumIter[j] > 0
      /\ thread[j] = "put" => iRow[j] \in 1..(iNumIter[j] + 1)
<1>1. \A j \in Stmts : Bounded(j)
  BY Zenon DEF TypeInv, FetchesAreBounded
<1>2. numRows' = numRows
  BY DEF iFetch, TestContinues, TestLeaves, vPreBulkAction, iStmtFetch2,
         FetchIsCancelled, FetchRaises, Convert, Lock, Put, PutCrashes,
         PutEnds, PutRaises, Caught, Keep, KeepInVain, history
<1>3. \A j \in Stmts \ {k} : Bounded(j)'
  BY <1>1, <1>2, OthersUnchanged
<1>4. Bounded(k)'
  <2>1. /\ k \in DOMAIN thread /\ k \in DOMAIN left
        /\ k \in DOMAIN iNumIter /\ k \in DOMAIN iRow
    BY CounterFunctions, Zenon DEF TypeInv, TypeOK, ControlTypes
  <2>2. Bounded(k)
    BY <1>1
  <2>3. /\ left[k] \in Nat /\ numRows[k] \in Nat
        /\ iNumIter[k] \in Nat /\ iRow[k] \in Nat
    BY Counters, UnloaderAssumption DEF TypeInv, TypeOK
  <2> USE <1>2, <2>1, <2>2, <2>3 DEF Step, buffers
  <2>4. CASE iStmtFetch2(k) \/ FetchIsCancelled(k)
    <3>1. PICK n \in 0..iBulkSize : n <= left[k] /\ Fetched(k, n)
      BY <2>4, FetchStores DEF TypeInv, TypeOK
    <3>2. left'[k] = left[k] - n /\ iNumIter'[k] = n
      BY <3>1 DEF Fetched
    <3>3. thread'[k] = IF n = 0 THEN "test" ELSE "convert"
      BY <3>1 DEF Fetched
    <3>4. QED
      BY <3>1, <3>2, <3>3
  <2>5. CASE Convert(k) BY <2>5 DEF Convert
  <2>6. CASE Lock(k) BY <2>6 DEF Lock
  <2>7. CASE Put(k) BY <2>7 DEF Put
  <2>8. CASE TestContinues(k) BY <2>8 DEF TestContinues
  <2>9. CASE TestLeaves(k) BY <2>9 DEF TestLeaves
  <2>10. CASE vPreBulkAction(k) BY <2>10 DEF vPreBulkAction
  <2>11. CASE FetchRaises(k) BY <2>11 DEF FetchRaises
  <2>12. CASE PutCrashes(k) BY <2>12 DEF PutCrashes
  <2>13. CASE PutEnds(k) BY <2>13 DEF PutEnds
  <2>14. CASE PutRaises(k) BY <2>14 DEF PutRaises
  <2>15. CASE Caught(k) BY <2>15 DEF Caught
  <2>16. CASE Keep(k) \/ KeepInVain(k) BY <2>16 DEF Keep, KeepInVain
  <2>17. QED
    BY <2>4, <2>5, <2>6, <2>7, <2>8, <2>9, <2>10, <2>11, <2>12, <2>13, <2>14,
       <2>15, <2>16 DEF iFetch
<1>5. QED
  BY <1>3, <1>4 DEF FetchesAreBounded

LEMMA FetchKeepsSubscripts ==
  ASSUME TypeInv, NEW k \in Stmts, iFetch(k)
  PROVE  SubscriptsAreCounted'
<1>1. /\ k \in DOMAIN thread /\ k \in DOMAIN oTls_
      /\ DOMAIN oTls_ = Stmts
  BY CounterFunctions, Zenon DEF TypeInv, TypeOK, ControlTypes
<1>2. /\ iTls_ = 1 + Cardinality({j \in Stmts : oTls_[j] # None})
      /\ \A j \in Stmts :
           thread[j] \in {"fetch", "convert", "lock", "put"} => oTls_[j] # None
  BY Zenon DEF TypeInv, SubscriptsAreCounted
<1>3. CASE vPreBulkAction(k) /\ oTls_[k] = None
  <2> DEFINE S == {j \in Stmts : oTls_[j] # None}
             T == {j \in Stmts : oTls_'[j] # None}
  <2>1. IsFiniteSet(S) /\ Cardinality(S) \in Nat
    <3>1. IsFiniteSet(Stmts) /\ S \in SUBSET Stmts
      BY FS_Interval, UnloaderAssumption
    <3>2. QED
      BY <3>1, FS_Subset, FS_CardinalityType
  <2>2. iTls_ # None
    BY <1>2, <2>1
  <2>3. oTls_' = [oTls_ EXCEPT ![k] = iTls_] /\ iTls_' = iTls_ + 1
    BY <1>3, <1>1 DEF vPreBulkAction
  <2>4. T = S \cup {k} /\ k \notin S
    BY <1>1, <1>3, <2>2, <2>3
  <2>5. Cardinality(T) = Cardinality(S) + 1
    <3> HIDE DEF S, T
    <3>1. QED
      BY <2>1, <2>4, FS_AddElement
  <2>6. iTls_' = 1 + Cardinality(T)
    BY <1>2, <2>1, <2>3, <2>5
  <2>7. \A j \in Stmts : thread'[j] \in {"fetch", "convert", "lock", "put"}
                           => oTls_'[j] # None
    <3>1. \A j \in Stmts \ {k} : thread'[j] = thread[j] /\ oTls_'[j] = oTls_[j]
      BY OthersUnchanged
    <3>2. oTls_'[k] # None
      BY <1>1, <2>2, <2>3
    <3>3. QED
      BY <1>2, <3>1, <3>2
  <2>8. QED
    BY <2>6, <2>7, Zenon DEF SubscriptsAreCounted
<1>4. CASE ~(vPreBulkAction(k) /\ oTls_[k] = None)
  <2>1. oTls_' = oTls_ /\ iTls_' = iTls_
    <3>1. CASE vPreBulkAction(k)
      <4>1. oTls_ \in [Stmts -> Stmts \cup {None}]
        BY CounterFunctions DEF TypeInv, TypeOK
      <4>2. QED
        BY <1>4, <3>1, <4>1 DEF vPreBulkAction
    <3>2. CASE ~vPreBulkAction(k)
      BY <3>2 DEF iFetch, TestContinues, TestLeaves, iStmtFetch2,
         FetchIsCancelled, FetchRaises, Convert, Lock, Put, PutCrashes,
         PutEnds, PutRaises, Caught, Keep, KeepInVain, subscripts
    <3>3. QED
      BY <3>1, <3>2
  <2>2. thread'[k] \in {"fetch", "convert", "lock", "put"} => oTls_[k] # None
    <3> USE <1>1, <1>2 DEF Step
    <3>1. CASE iStmtFetch2(k) BY <3>1 DEF iStmtFetch2
    <3>2. CASE FetchIsCancelled(k) BY <3>2 DEF FetchIsCancelled
    <3>3. CASE Convert(k) BY <3>3 DEF Convert
    <3>4. CASE Lock(k) BY <3>4 DEF Lock
    <3>5. CASE Put(k) BY <3>5 DEF Put
    <3>6. CASE PutCrashes(k) BY <3>6 DEF PutCrashes
    <3>7. CASE vPreBulkAction(k) BY <1>4, <3>7
    <3>8. CASE \/ TestContinues(k) \/ TestLeaves(k) \/ FetchRaises(k)
               \/ PutEnds(k) \/ PutRaises(k) \/ Caught(k) \/ Keep(k)
               \/ KeepInVain(k)
      BY <3>8 DEF TestContinues, TestLeaves, FetchRaises, PutEnds, PutRaises,
                  Caught, Keep, KeepInVain
    <3>9. QED
      BY <3>1, <3>2, <3>3, <3>4, <3>5, <3>6, <3>7, <3>8 DEF iFetch
  <2>3. \A j \in Stmts \ {k} : thread'[j] = thread[j]
    BY OthersUnchanged
  <2>4. QED
    BY <1>2, <2>1, <2>2, <2>3 DEF SubscriptsAreCounted
<1>5. QED
  BY <1>3, <1>4

LEMMA FetchKeepsBuffers ==
  ASSUME TypeInv, NEW k \in Stmts, iFetch(k)
  PROVE  BufferTypes'
<1> DEFINE Texts == Seq(Stmts \X (0..MaxRows))
<1>1. /\ define \in [Stmts -> [1..iBulkSize -> 0..MaxRows]]
      /\ oRowBuf_ \in [Stmts -> [1..iBulkSize -> Texts]]
      /\ st_data_ \in {"none", "open", "bad", "closed", "cut"}
      /\ file \in Seq(Texts)
      /\ written \in Nat
  BY Zenon DEF TypeInv, TypeOK, BufferTypes
<1>2. /\ numRows[k] \in 0..MaxRows /\ left[k] \in 0..MaxRows
      /\ iNumIter[k] \in 0..iBulkSize
      /\ left[k] + iNumIter[k] <= numRows[k]
  BY Counters DEF TypeInv, TypeOK, FetchesAreBounded
<1>3. thread[k] \in {"fetch", "convert", "lock", "put"} => oTls_[k] \in Stmts
  <2>1. oTls_[k] \in Stmts \cup {None}
    BY Counters DEF TypeInv, TypeOK
  <2>2. QED
    BY <2>1 DEF TypeInv, SubscriptsAreCounted
<1>4. CASE iStmtFetch2(k) \/ FetchIsCancelled(k)
  <2>1. PICK n \in 0..iBulkSize : n <= left[k] /\ Fetched(k, n)
                                  /\ UNCHANGED <<oRowBuf_, output>>
    BY <1>4, FetchStores DEF TypeInv, TypeOK
  <2> DEFINE d == [i \in 1..iBulkSize |->
                  IF i <= n THEN numRows[k] - left[k] + i ELSE define[k][i]]
  <2>2. d \in [1..iBulkSize -> 0..MaxRows]
    <3>1. ASSUME NEW i \in 1..iBulkSize
          PROVE  (IF i <= n THEN numRows[k] - left[k] + i ELSE define[k][i])
                   \in 0..MaxRows
      <4>1. CASE i <= n
        BY <1>2, <2>1, <4>1, UnloaderAssumption
      <4>2. CASE ~(i <= n)
        BY <1>1, <4>2
      <4>3. QED
        BY <4>1, <4>2
    <3>2. QED
      BY <3>1, Zenon
  <2>3. define' = [define EXCEPT ![k] = d]
    BY <2>1, Zenon DEF Fetched
  <2>4. define' \in [Stmts -> [1..iBulkSize -> 0..MaxRows]]
    <3> HIDE DEF d
    <3>1. QED
      BY <1>1, <2>2, <2>3, Updated, Zenon
  <2>5. QED
    BY <1>1, <2>1, <2>4, Zenon DEF BufferTypes, output
<1>5. CASE vPreBulkAction(k)
  <2>1. oTls_'[k] \in Stmts
    <3>1. SubscriptsAreCounted' /\ oTls_'[k] \in Stmts \cup {None}
      BY FetchKeepsSubscripts, FetchCounts, CounterFunctions DEF CounterTypes
    <3>2. thread'[k] = "fetch"
      BY <1>5 DEF vPreBulkAction, Step, TypeInv, TypeOK, ControlTypes
    <3>3. QED
      BY <3>1, <3>2 DEF SubscriptsAreCounted
  <2>2. [i \in 1..iBulkSize |-> <<>>] \in [1..iBulkSize -> Texts]
    OBVIOUS
  <2>3. oRowBuf_' \in [Stmts -> [1..iBulkSize -> Texts]]
    BY <1>1, <1>5, <2>1, <2>2, Updated, Zenon DEF vPreBulkAction
  <2>4. QED
    BY <1>1, <1>5, <2>3, Zenon DEF BufferTypes, output, vPreBulkAction
<1>6. CASE Convert(k)
  <2> DEFINE s == oTls_[k]
             b == [i \in 1..iBulkSize |->
                     IF i <= iNumIter[k]
                       THEN Append(oRowBuf_[s][i], <<s, define[s][i]>>)
                       ELSE oRowBuf_[s][i]]
  <2>1. s \in Stmts
    BY <1>3, <1>6 DEF Convert, Step
  <2>2. b \in [1..iBulkSize -> Texts]
    <3>1. ASSUME NEW i \in 1..iBulkSize
          PROVE  /\ oRowBuf_[s][i] \in Texts
                 /\ Append(oRowBuf_[s][i], <<s, define[s][i]>>) \in Texts
      <4>1. <<s, define[s][i]>> \in Stmts \X (0..MaxRows)
        BY <1>1, <2>1
      <4>2. oRowBuf_[s][i] \in Texts
        BY <1>1, <2>1
      <4>3. QED
        BY <4>1, <4>2, AppendProperties
    <3>2. QED
      BY <3>1
  <2>3. oRowBuf_' = [oRowBuf_ EXCEPT ![s] = b]
    BY <1>6, Zenon DEF Convert
  <2>4. oRowBuf_' \in [Stmts -> [1..iBulkSize -> Texts]]
    <3> HIDE DEF b
    <3>1. QED
      BY <1>1, <2>1, <2>2, <2>3, Updated, Zenon
  <2>5. QED
    BY <1>1, <1>6, <2>4, Zenon DEF BufferTypes, output, Convert
<1>7. CASE Put(k)
  <2>1. oTls_[k] \in Stmts
    BY <1>3, <1>7 DEF Put
  <2>2. iRow[k] \in 1..iBulkSize
    <3>1. iRow[k] \in 1..(iNumIter[k] + 1) /\ iRow[k] <= iNumIter[k]
      BY <1>7 DEF Put, TypeInv, FetchesAreBounded
    <3>2. QED
      BY <1>2, <3>1, UnloaderAssumption
  <2>3. oRowBuf_[oTls_[k]][iRow[k]] \in Texts
    BY <1>1, <2>1, <2>2
  <2>4. file' \in Seq(Texts)
    <3>1. Append(file, oRowBuf_[oTls_[k]][iRow[k]]) \in Seq(Texts)
      BY <1>1, <2>3, AppendProperties
    <3>2. QED
      BY <1>1, <1>7, <3>1, Zenon DEF Put
  <2>5. st_data_' \in {"none", "open", "bad", "closed", "cut"}
    BY <1>1, <1>7 DEF Put
  <2>6. written' \in Nat
    BY <1>1, <1>7 DEF Put
  <2>7. QED
    BY <1>1, <1>7, <2>4, <2>5, <2>6, Zenon DEF BufferTypes, Put
<1>8. CASE \/ TestContinues(k) \/ TestLeaves(k) \/ FetchRaises(k) \/ Lock(k)
           \/ PutCrashes(k) \/ PutEnds(k) \/ PutRaises(k) \/ Caught(k)
           \/ Keep(k) \/ KeepInVain(k)
  <2>1. UNCHANGED <<define, oRowBuf_, output>>
    BY <1>8 DEF TestContinues, TestLeaves, FetchRaises, Lock, PutCrashes,
                PutEnds, PutRaises, Caught, Keep, KeepInVain, buffers
  <2>2. QED
    BY <1>1, <2>1, Zenon DEF BufferTypes, output
<1>9. QED
  BY <1>4, <1>5, <1>6, <1>7, <1>8 DEF iFetch

(* The calling thread counts what the others have written, and has no      *)
(* buffers of its own.                                                     *)
LEMMA CallerKeepsTypes ==
  ASSUME TypeInv, CallInv, Caller
  PROVE  TypeInv'
<1>1. ControlTypes'
  BY CallerPreserves DEF CallInv
<1>2. UNCHANGED <<buffers, mayContinue, numRows, iTotalRows, iTls_, oTls_,
                  spin_>>
  BY DEF Caller, OpenData, OpenRaises, Execute, ExecuteRaises, Unwind, Launch,
         Break, Join, CloseData, ControlRaises, Report, subscripts, history
<1>3. CounterTypes'
  <2>0. CounterTypes
    BY DEF TypeInv, TypeOK
  <2>1. iTotal' \in Nat
    <3>0. iTotal \in Nat
      BY <2>0, Zenon DEF CounterTypes
    <3>1. CASE Join
      <4>1. iTotalRows[at] \in Nat
        BY <2>0, <3>1, Counters DEF Join
      <4>2. QED
        BY <3>0, <3>1, <4>1 DEF Join
    <3>2. CASE ~Join
      BY <3>0, <3>2 DEF Caller, OpenData, OpenRaises, Execute, ExecuteRaises,
           Unwind, Launch, Break, CloseData, ControlRaises, Report, outcome
    <3>3. QED
      BY <3>1, <3>2
  <2>2. action' \in {"none", "vPostRepeatAction", "vNotFoundAction"}
    <3>0. action \in {"none", "vPostRepeatAction", "vNotFoundAction"}
      BY <2>0, Zenon DEF CounterTypes
    <3>1. QED
      BY <3>0 DEF Caller, OpenData, OpenRaises, Execute, ExecuteRaises,
           Unwind, Launch, Break, Join, CloseData, ControlRaises, Report,
           outcome
  <2>3. QED
    BY <1>2, <2>0, <2>1, <2>2, Zenon DEF CounterTypes, buffers
<1>4. BufferTypes'
  <2>0. BufferTypes
    BY DEF TypeInv, TypeOK
  <2>1. st_data_' \in {st_data_, "open", "closed", "cut"}
    BY DEF Caller, OpenData, OpenRaises, Execute, ExecuteRaises, Unwind,
           Launch, Break, Join, CloseData, ControlRaises, Report, FlushAndDelete,
           output
  <2>2. file' \in {file, <<Header>>}
    BY DEF Caller, OpenData, OpenRaises, Execute, ExecuteRaises, Unwind,
           Launch, Break, Join, CloseData, ControlRaises, Report, FlushAndDelete,
           output
  <2>3. <<Header>> \in Seq(Seq(Stmts \X (0..MaxRows)))
    BY DEF Header
  <2>4. written' \in Nat
    <3>1. written \in Nat /\ Len(file) \in Nat
      BY <2>0, LenProperties, Zenon DEF BufferTypes
    <3>2. CASE ExecuteRaises \/ CloseData
      BY <3>1, <3>2 DEF ExecuteRaises, CloseData, FlushAndDelete
    <3>3. CASE ~ExecuteRaises /\ ~CloseData
      BY <3>1, <3>3 DEF Caller, OpenData, OpenRaises, Execute, Unwind, Launch,
                        Break, Join, ControlRaises, Report, output
    <3>4. QED
      BY <3>2, <3>3
  <2>5. QED
    BY <1>2, <2>0, <2>1, <2>2, <2>3, <2>4, Zenon DEF BufferTypes, buffers
<1>5. SubscriptsAreCounted' /\ FetchesAreBounded'
  <2>0. TypeInv /\ thread \in [Stmts -> {"none", "test", "pre", "fetch",
              "convert", "lock", "put", "caught", "keep", "ended"}]
    BY DEF CallInv, ControlTypes
  <2>1. \A j \in Stmts : thread'[j] = thread[j] \/ thread'[j] = "test"
    BY <2>0 DEF Caller, OpenData, OpenRaises, Execute, ExecuteRaises, Unwind,
           Launch, Break, Join, CloseData, ControlRaises, Report
  <2>2. QED
    BY <1>2, <2>0, <2>1 DEF TypeInv, SubscriptsAreCounted, FetchesAreBounded,
                            buffers
<1>6. QED
  BY <1>1, <1>3, <1>4, <1>5 DEF TypeInv, TypeOK

LEMMA InitTypes == Init => TypeInv
<1> SUFFICES ASSUME Init PROVE TypeInv
  OBVIOUS
<1>1. ControlTypes
  BY InitCall DEF CallInv
<1>2. CounterTypes
  <2>1. left = numRows /\ numRows \in [Stmts -> 0..MaxRows]
    BY DEF Init
  <2>2. QED
    BY <2>1, UnloaderAssumption DEF Init, CounterTypes
<1>3. BufferTypes
  BY UnloaderAssumption DEF Init, BufferTypes
<1>4. SubscriptsAreCounted
  <2>1. {j \in Stmts : oTls_[j] # None} = {}
    BY DEF Init
  <2>2. iTls_ = 1 + Cardinality({j \in Stmts : oTls_[j] # None})
    <3>1. iTls_ = 1
      BY DEF Init
    <3>2. QED
      BY <2>1, <3>1, FS_EmptySet
  <2>3. \A j \in Stmts : thread[j] = "none"
    BY DEF Init
  <2>4. QED
    BY <2>2, <2>3 DEF SubscriptsAreCounted
<1>5. FetchesAreBounded
  BY UnloaderAssumption DEF Init, FetchesAreBounded
<1>6. QED
  BY <1>1, <1>2, <1>3, <1>4, <1>5 DEF TypeInv, TypeOK

LEMMA TypesNext ==
  ASSUME TypeInv, CallInv, [Next]_vars PROVE TypeInv'
<1>1. CASE Caller
  BY <1>1, CallerKeepsTypes
<1>2. CASE \E k \in Stmts : iFetch(k)
  <2>1. ControlTypes'
    BY CallNext DEF CallInv
  <2>2. QED
    BY <1>2, <2>1, FetchCounts, FetchBounds, FetchKeepsSubscripts,
       FetchKeepsBuffers DEF TypeInv, TypeOK
<1>3. CASE vBreak \/ UNCHANGED vars
  <2>1. ControlTypes'
    BY CallNext DEF CallInv
  <2>2. UNCHANGED <<thread, buffers, iTotalRows, subscripts, spin_, output,
                    outcome, history>>
    BY <1>3 DEF vBreak, vars
  <2>7. mayContinue' \in {mayContinue, FALSE}
    BY <1>3, Zenon DEF vBreak, vars
  <2>3. CounterTypes'
    BY <2>2, <2>7, Zenon DEF TypeInv, TypeOK, CounterTypes, buffers,
                             subscripts, outcome, history
  <2>4. BufferTypes'
    BY <2>2, Zenon DEF TypeInv, TypeOK, BufferTypes, buffers, output
  <2>5. SubscriptsAreCounted' /\ FetchesAreBounded'
    BY <2>2 DEF TypeInv, SubscriptsAreCounted, FetchesAreBounded, buffers,
                subscripts, history
  <2>6. QED
    BY <2>1, <2>3, <2>4, <2>5 DEF TypeInv, TypeOK
<1>4. QED
  BY <1>1, <1>2, <1>3 DEF Next

(* Every variable stays in its range: a thread never gets a subscript      *)
(* beyond the last element of oCont_, and never a row beyond a buffer.     *)
THEOREM TypeCorrect == Spec => []TypeOK
<1>1. Init => TypeInv
  BY InitTypes
<1>2. TypeInv /\ CallInv /\ [Next]_vars => TypeInv'
  BY TypesNext
<1>3. TypeInv => TypeOK
  BY DEF TypeInv
<1>4. QED
  BY <1>1, <1>2, <1>3, InvariantHolds, PTL DEF Spec

-----------------------------------------------------------------------------
(* The final action.                                                       *)

(* Only vPutRowsToDataFile touches the stream.                             *)
LEMMA OnlyPutWrites ==
  ASSUME TypeInv, NEW k \in Stmts, iFetch(k)
  PROVE  /\ ~Put(k) => UNCHANGED output
         /\ Put(k) => /\ st_data_ \in {"open", "bad"}
                      /\ st_data_' \in {st_data_, "bad"}
                      /\ st_data_' = "open" =>
                           file' = Append(file, oRowBuf_[oTls_[k]][iRow[k]])
                      /\ st_data_' # "open" => file' = file
         /\ Len(file) \in Nat /\ Len(file') \in Nat
         /\ Len(file') >= Len(file)
         /\ Put(k) /\ st_data_' = "open" => Len(file') = Len(file) + 1
<1>1. ~Put(k) => UNCHANGED output
  BY DEF iFetch, TestContinues, TestLeaves, vPreBulkAction, iStmtFetch2,
         FetchIsCancelled, FetchRaises, Convert, Lock, PutCrashes, PutEnds,
         PutRaises, Caught, Keep, KeepInVain
<1>2. Put(k) => /\ st_data_ \in {"open", "bad"}
                /\ st_data_' \in {st_data_, "bad"}
                /\ st_data_' = "open" =>
                     file' = Append(file, oRowBuf_[oTls_[k]][iRow[k]])
                /\ st_data_' # "open" => file' = file
  BY DEF Put
<1>3. file \in Seq(Seq(Stmts \X (0..MaxRows)))
  BY Zenon DEF TypeInv, TypeOK, BufferTypes
<1>4. file' \in Seq(Seq(Stmts \X (0..MaxRows)))
  BY FetchKeepsBuffers, Zenon DEF BufferTypes
<1>5. Len(file) \in Nat /\ Len(file') \in Nat
  BY <1>3, <1>4
<1>6. CASE Put(k) /\ st_data_' = "open"
  <2>1. file' = Append(file, oRowBuf_[oTls_[k]][iRow[k]])
    BY <1>2, <1>6
  <2>2. oRowBuf_[oTls_[k]][iRow[k]] \in Seq(Stmts \X (0..MaxRows))
    <3>1. oTls_[k] \in Stmts /\ iRow[k] \in 1..iBulkSize
      <4>1. thread[k] = "put" /\ iRow[k] <= iNumIter[k]
        BY <1>6 DEF Put
      <4>2. oTls_[k] \in Stmts \cup {None} /\ iNumIter[k] \in 0..iBulkSize
        BY Counters DEF TypeInv, TypeOK
      <4>3. oTls_[k] # None /\ iRow[k] \in 1..(iNumIter[k] + 1)
        BY <4>1 DEF TypeInv, SubscriptsAreCounted, FetchesAreBounded
      <4>4. QED
        BY <4>1, <4>2, <4>3, UnloaderAssumption
    <3>2. QED
      BY <3>1, Zenon DEF TypeInv, TypeOK, BufferTypes
  <2>3. Len(file') = Len(file) + 1
    BY <1>3, <2>1, <2>2, AppendProperties
  <2>4. QED
    BY <1>1, <1>2, <1>5, <2>3
<1>7. CASE ~(Put(k) /\ st_data_' = "open")
  <2>1. file' = file
    BY <1>1, <1>2, <1>7 DEF output
  <2>2. QED
    BY <1>1, <1>2, <1>5, <1>7, <2>1
<1>8. QED
  BY <1>6, <1>7

LEMMA FetchKeepsTheLock ==
  ASSUME TypeInv, WriterHasTheLock, NEW k \in Stmts, iFetch(k)
  PROVE  WriterHasTheLock'
<1>1. k \in DOMAIN thread
  BY Zenon DEF TypeInv, TypeOK, ControlTypes
<1>2. \A j \in Stmts \ {k} : thread'[j] = thread[j]
  BY OthersUnchanged
<1>3. CASE Lock(k)
  <2>1. \A j \in Stmts : thread[j] # "put"
    BY <1>3 DEF Lock, WriterHasTheLock
  <2>2. QED
    BY <1>2, <1>3, <2>1 DEF Lock, WriterHasTheLock
<1>4. CASE PutEnds(k) \/ PutRaises(k)
  <2>1. thread[k] = "put" /\ thread'[k] # "put"
    BY <1>1, <1>4 DEF PutEnds, PutRaises, Step
  <2>2. \A j \in Stmts : thread[j] = "put" => j = k
    BY <2>1 DEF WriterHasTheLock
  <2>3. QED
    BY <1>2, <2>1, <2>2 DEF WriterHasTheLock
<1>5. CASE Put(k) \/ PutCrashes(k)
  BY <1>2, <1>5 DEF Put, PutCrashes, WriterHasTheLock
<1>6. CASE \/ TestContinues(k) \/ TestLeaves(k) \/ vPreBulkAction(k)
           \/ iStmtFetch2(k) \/ FetchIsCancelled(k) \/ FetchRaises(k)
           \/ Convert(k) \/ Caught(k) \/ Keep(k) \/ KeepInVain(k)
  <2>1. thread'[k] # "put" /\ spin_' = spin_
    BY <1>1, <1>6 DEF TestContinues, TestLeaves, vPreBulkAction, iStmtFetch2,
         FetchIsCancelled, Fetched, FetchRaises, Convert, Caught, Keep,
         KeepInVain, Step
  <2>2. QED
    BY <1>2, <2>1 DEF WriterHasTheLock
<1>7. QED
  BY <1>3, <1>4, <1>5, <1>6 DEF iFetch

LEMMA FetchKeepsTheStream ==
  ASSUME TypeInv, CallInv, StreamFollowsTheCall, NEW k \in Stmts, iFetch(k)
  PROVE  StreamFollowsTheCall'
<1>1. pc' = pc \/ pc' = "terminated"
  BY FetchMoves
<1>2. \A j \in Stmts : thread'[j] # "none" => \E i \in Stmts : Launched(i)
  BY FetchMoves DEF Launched
<1>3. UNCHANGED <<action>>
  BY DEF iFetch, TestContinues, TestLeaves, vPreBulkAction, iStmtFetch2,
         FetchIsCancelled, FetchRaises, Convert, Lock, Put, PutCrashes,
         PutEnds, PutRaises, Caught, Keep, KeepInVain, outcome
<1>4. Len(file) >= 1
  <2>1. Launched(k)
    BY FetchMoves DEF Launched
  <2>2. QED
    BY <2>1 DEF StreamFollowsTheCall
<1>5. Put(k) => pc # "open"
  BY DEF Put, StreamFollowsTheCall
<1>6. Len(file') >= 1
  BY <1>4, OnlyPutWrites
<1>7. /\ Put(k) => /\ st_data_ \in {"open", "bad"}
                   /\ st_data_' \in {st_data_, "bad"}
      /\ ~Put(k) => /\ st_data_' = st_data_
                    /\ file' = file
                    /\ written' = written
  BY OnlyPutWrites DEF output
<1>8. /\ st_data_' = "closed" => written' = Len(file')
      /\ pc' \notin {"control", "returned"}
  <2>1. pc \notin {"control", "returned"}
    BY FetchMoves DEF CallInv, NoThreadSurvives, Running, FrameLost
  <2>2. QED
    BY <1>1, <1>7, <2>1 DEF StreamFollowsTheCall
<1>9. QED
  BY <1>1, <1>3, <1>5, <1>6, <1>7, <1>8 DEF StreamFollowsTheCall

LEMMA FetchNoticesBad ==
  ASSUME TypeInv, BadIsNoticed, NEW k \in Stmts, iFetch(k)
  PROVE  BadIsNoticed'
<1>1. k \in DOMAIN thread
  BY Zenon DEF TypeInv, TypeOK, ControlTypes
<1>2. \A j \in Stmts \ {k} : thread'[j] = thread[j]
  BY OthersUnchanged
<1> USE DEF Step, history, output
<1>3. /\ failed \subseteq failed'
      /\ (thread'[k] \in {"caught", "keep"} => k \in failed')
  <2>0. thread[k] \in {"caught", "keep"} => k \in failed
    BY DEF BadIsNoticed
  <2>1. CASE FetchRaises(k) \/ PutRaises(k)
    BY <2>1 DEF FetchRaises, PutRaises
  <2>2. CASE \/ TestContinues(k) \/ TestLeaves(k) \/ vPreBulkAction(k)
             \/ iStmtFetch2(k) \/ FetchIsCancelled(k) \/ Convert(k) \/ Lock(k)
             \/ Put(k) \/ PutCrashes(k) \/ PutEnds(k) \/ Caught(k) \/ Keep(k)
             \/ KeepInVain(k)
    BY <1>1, <2>0, <2>2 DEF TestContinues, TestLeaves, vPreBulkAction,
         iStmtFetch2, FetchIsCancelled, Fetched, Convert, Lock, Put,
         PutCrashes, PutEnds, Caught, Keep, KeepInVain
  <2>3. QED
    BY <2>1, <2>2 DEF iFetch
<1>4. st_data_' = "bad" =>
        failed' # {} \/ \E j \in Stmts : thread'[j] = "put"
  <2>1. CASE Put(k)
    BY <2>1 DEF Put
  <2>2. CASE PutRaises(k)
    BY <2>2 DEF PutRaises
  <2>3. CASE PutEnds(k)
    BY <2>3 DEF PutEnds
  <2>4. CASE PutCrashes(k)
    BY <2>4 DEF PutCrashes
  <2>5. CASE \/ TestContinues(k) \/ TestLeaves(k) \/ vPreBulkAction(k)
             \/ iStmtFetch2(k) \/ FetchIsCancelled(k) \/ FetchRaises(k)
             \/ Convert(k) \/ Lock(k) \/ Caught(k) \/ Keep(k) \/ KeepInVain(k)
    <3>1. thread[k] # "put" /\ st_data_' = st_data_
      BY <2>5 DEF TestContinues, TestLeaves, vPreBulkAction, iStmtFetch2,
           FetchIsCancelled, FetchRaises, Convert, Lock, Caught, Keep,
           KeepInVain
    <3>2. QED
      BY <1>2, <1>3, <3>1 DEF BadIsNoticed
  <2>6. QED
    BY <2>1, <2>2, <2>3, <2>4, <2>5 DEF iFetch
<1>5. QED
  BY <1>2, <1>3, <1>4 DEF BadIsNoticed

LEMMA FetchKeepsResults ==
  ASSUME TypeInv, CallInv, StreamFollowsTheCall, BadIsNoticed,
         ResultsFollowTheFile, NEW k \in Stmts, iFetch(k)
  PROVE  ResultsFollowTheFile'
<1>1. /\ k \in DOMAIN thread /\ k \in DOMAIN iRow /\ k \in DOMAIN iTotalRows
  BY CounterFunctions, Zenon DEF TypeInv, TypeOK, ControlTypes
<1>2. \A j \in Stmts \ {k} : /\ thread'[j] = thread[j]
                             /\ iRow'[j] = iRow[j]
                             /\ iTotalRows'[j] = iTotalRows[j]
  BY OthersUnchanged
<1>3. iTotalRows[k] \in Nat /\ iNumIter[k] \in Nat /\ iRow[k] \in Nat
  BY Counters, UnloaderAssumption DEF TypeInv, TypeOK
<1>4. Len(file) >= 1
  <2>1. Launched(k)
    BY FetchMoves DEF Launched
  <2>2. QED
    BY <2>1 DEF StreamFollowsTheCall
<1>5. thread'[k] # "none"
  BY FetchMoves, <1>1 DEF iFetch, TestContinues, TestLeaves, vPreBulkAction,
     iStmtFetch2, FetchIsCancelled, Fetched, FetchRaises, Convert, Lock, Put,
     PutCrashes, PutEnds, PutRaises, Caught, Keep, KeepInVain, Step
<1> USE DEF Step, history, output, buffers
<1>6. CASE PutEnds(k)
  <2>1. iNumIter[k] > 0 /\ iRow[k] > 1 /\ st_data_ = "open"
    BY <1>3, <1>6 DEF PutEnds, TypeInv, FetchesAreBounded
  <2>2. Len(file) > 1
    BY <1>6, <2>1 DEF PutEnds, ResultsFollowTheFile
  <2>3. iTotalRows'[k] > 0 /\ thread'[k] = "test" /\ UNCHANGED output
    BY <1>1, <1>3, <1>6, <2>1 DEF PutEnds
  <2>4. QED
    BY <1>2, <2>1, <2>2, <2>3 DEF ResultsFollowTheFile
<1>7. CASE Put(k)
  <2>1. thread'[k] = "put" /\ iTotalRows' = iTotalRows
    BY <1>7 DEF Put
  <2>2. st_data_' = "open" => Len(file') > 1
    BY <1>4, <1>7, OnlyPutWrites
  <2>3. \A j \in Stmts : iTotalRows[j] > 0 => Len(file') > 1
    BY OnlyPutWrites DEF ResultsFollowTheFile
  <2>4. QED
    BY <1>2, <2>1, <2>2, <2>3 DEF ResultsFollowTheFile
<1>8. CASE Caught(k)
  <2>1. failed' = failed /\ k \in failed
    BY <1>8 DEF Caught, BadIsNoticed
  <2>2. iTotalRows'[k] = 0 /\ thread'[k] # "put" /\ UNCHANGED output
    BY <1>1, <1>8 DEF Caught
  <2>3. QED
    BY <1>2, <1>5, <2>1, <2>2 DEF ResultsFollowTheFile
<1>9. CASE PutRaises(k)
  <2>1. failed' # {} /\ iTotalRows' = iTotalRows /\ UNCHANGED output
    BY <1>9 DEF PutRaises
  <2>2. thread'[k] = "caught"
    BY <1>1, <1>9 DEF PutRaises
  <2>3. QED
    BY <1>2, <2>1, <2>2 DEF ResultsFollowTheFile
<1>10. CASE \/ TestContinues(k) \/ TestLeaves(k) \/ vPreBulkAction(k)
            \/ iStmtFetch2(k) \/ FetchIsCancelled(k) \/ FetchRaises(k)
            \/ Convert(k) \/ Keep(k) \/ KeepInVain(k)
  <2>1. /\ thread[k] # "put" /\ thread'[k] # "put"
        /\ iTotalRows' = iTotalRows /\ UNCHANGED output
        /\ failed \subseteq failed'
    BY <1>1, <1>10 DEF TestContinues, TestLeaves, vPreBulkAction,
         iStmtFetch2, FetchIsCancelled, Fetched, FetchRaises, Convert, Keep,
         KeepInVain
  <2>2. QED
    BY <1>2, <1>5, <2>1 DEF ResultsFollowTheFile
<1>11. CASE Lock(k)
  <2>1. /\ thread[k] # "put" /\ iRow'[k] = 1
        /\ iTotalRows' = iTotalRows /\ UNCHANGED output
        /\ failed' = failed
    BY <1>1, <1>11 DEF Lock
  <2>2. QED
    BY <1>2, <1>5, <2>1 DEF ResultsFollowTheFile
<1>12. CASE PutCrashes(k)
  BY <1>12 DEF PutCrashes, ResultsFollowTheFile
<1>13. QED
  BY <1>6, <1>7, <1>8, <1>9, <1>10, <1>11, <1>12 DEF iFetch

LEMMA FetchKeepsTheSum ==
  ASSUME TypeInv, CallInv, StreamFollowsTheCall, SumOfTheJoined,
         ActionFollowsTheFile, NEW k \in Stmts, iFetch(k)
  PROVE  SumOfTheJoined' /\ ActionFollowsTheFile'
<1>1. /\ pc' = pc \/ pc' = "terminated"
      /\ at' = at
      /\ thread[k] \notin {"none", "ended"}
      /\ pc \notin {"returned", "raised", "terminated"}
  BY FetchMoves
<1>2. UNCHANGED <<iTotal, action>>
  BY DEF iFetch, TestContinues, TestLeaves, vPreBulkAction, iStmtFetch2,
         FetchIsCancelled, FetchRaises, Convert, Lock, Put, PutCrashes,
         PutEnds, PutRaises, Caught, Keep, KeepInVain, outcome
<1>3. action = "none"
  <2>1. pc # "control"
    BY <1>1 DEF CallInv, NoThreadSurvives, Running, FrameLost
  <2>2. QED
    BY <1>1, <2>1 DEF CallInv, ControlTypes, StreamFollowsTheCall
<1>4. pc' = "terminated" => pc # "join"
  <2>1. pc' = "terminated" => PutCrashes(k) \/ KeepInVain(k)
    BY <1>1 DEF iFetch, TestContinues, TestLeaves, vPreBulkAction, iStmtFetch2,
         FetchIsCancelled, FetchRaises, Convert, Lock, Put,
         PutEnds, PutRaises, Caught, Keep
  <2>2. QED
    BY <2>1 DEF PutCrashes, KeepInVain, FrameLost, StreamFollowsTheCall
<1>5. pc = "join" =>
        \A j \in Stmts : j < at => iTotalRows'[j] = iTotalRows[j]
  BY <1>1, OthersUnchanged DEF CallInv, JoinedInOrder
<1>6. iTotal > 0 => Len(file') > 1
  BY OnlyPutWrites DEF SumOfTheJoined
<1>7. QED
  BY <1>1, <1>2, <1>3, <1>4, <1>5, <1>6
     DEF SumOfTheJoined, ActionFollowsTheFile

(* The calling thread: it starts threads, and leaves what they have alone. *)
LEMMA CallerMoves ==
  ASSUME CallInv, Caller
  PROVE  /\ UNCHANGED <<spin_, iRow, iTotalRows, failed>>
         /\ \A k \in Stmts :
              \/ thread'[k] = thread[k]
              \/ thread[k] = "none" /\ thread'[k] = "test"
         /\ ~Launch => thread' = thread
         /\ ~(Execute /\ at = 1) => file' = file
         /\ ~OpenData => st_data_' \in {st_data_, "closed", "cut"}
         /\ pc \notin {"returned", "raised", "terminated"}
<1>1. UNCHANGED <<spin_, iRow, iTotalRows, failed>>
  BY DEF Caller, OpenData, OpenRaises, Execute, ExecuteRaises, Unwind, Launch,
         Break, Join, CloseData, ControlRaises, Report, buffers, history
<1>2. \A k \in Stmts :
        thread'[k] = thread[k] \/ (thread[k] = "none" /\ thread'[k] = "test")
  <2>1. CASE Launch
    <3>1. thread[at] = "none" /\ thread' = [thread EXCEPT ![at] = "test"]
          /\ at \in Stmts /\ DOMAIN thread = Stmts
      BY <2>1, UnloaderAssumption
         DEF Launch, CallInv, ControlTypes, LaunchedInOrder
    <3>2. QED
      BY <3>1
  <2>2. CASE ~Launch
    BY <2>2 DEF Caller, OpenData, OpenRaises, Execute, ExecuteRaises, Unwind,
         Break, Join, CloseData, ControlRaises, Report
  <2>3. QED
    BY <2>1, <2>2
<1>3. ~Launch => thread' = thread
  BY DEF Caller, OpenData, OpenRaises, Execute, ExecuteRaises, Unwind,
         Break, Join, CloseData, ControlRaises, Report
<1>4. ~(Execute /\ at = 1) => file' = file
  BY DEF Caller, OpenData, OpenRaises, Execute, ExecuteRaises, Unwind,
         Launch, Break, Join, CloseData, ControlRaises, Report, FlushAndDelete,
           output
<1>5. ~OpenData => st_data_' \in {st_data_, "closed", "cut"}
  BY DEF Caller, OpenRaises, Execute, ExecuteRaises, Unwind,
         Launch, Break, Join, CloseData, ControlRaises, Report, FlushAndDelete,
           output
<1>6. pc \notin {"returned", "raised", "terminated"}
  BY DEF Caller, OpenData, OpenRaises, Execute, ExecuteRaises, Unwind,
         Launch, Break, Join, CloseData, ControlRaises, Report
<1>7. QED
  BY <1>1, <1>2, <1>3, <1>4, <1>5, <1>6

(* At the first statement, and before it, there is no thread.              *)
LEMMA NoThreadBeforeTheFirst ==
  ASSUME CallInv, OpenData \/ (Execute /\ at = 1)
  PROVE  \A k \in Stmts : thread[k] = "none"
BY UnloaderAssumption
   DEF OpenData, Execute, CallInv, ControlTypes, LaunchedInOrder

LEMMA CallerKeepsTheStream ==
  ASSUME TypeInv, CallInv, StreamFollowsTheCall, Caller
  PROVE  StreamFollowsTheCall'
<1>1. Launch => pc = "launch" /\ file' = file
  BY DEF Launch, output
<1>2. /\ pc' = "open" => FALSE
      /\ pc' \in {"execute", "launch", "join"} =>
           \/ pc \in {"execute", "launch", "join"} /\ st_data_' = st_data_
           \/ OpenData /\ st_data_' = "open"
      /\ pc' \in {"execute", "unwind", "launch", "join"} =>
           pc \in {"open", "execute", "unwind", "launch", "join"}
           /\ action' = action
      /\ pc' = "launch" => Execute
      /\ pc' = "execute" => (OpenData /\ at' = at /\ pc = "open") \/ Launch
  BY DEF Caller, OpenData, OpenRaises, Execute, ExecuteRaises, Unwind,
         Launch, Break, Join, CloseData, ControlRaises, Report, Goto, output,
         outcome
<1>3. Execute /\ at = 1 => Len(file') = 1
  BY DEF Execute, Header
<1>4. Execute /\ at # 1 => Len(file') >= 1
  BY DEF Execute, StreamFollowsTheCall
<1>5. OpenData => at = 1
  BY DEF OpenData, CallInv, LaunchedInOrder
<1>6. (\E k \in Stmts : thread'[k] # "none") => Len(file') >= 1
  <2>1. CASE Launch
    BY <1>1, <2>1 DEF StreamFollowsTheCall
  <2>2. CASE Execute /\ at = 1
    BY <1>3, <2>2
  <2>3. CASE ~Launch /\ ~(Execute /\ at = 1)
    BY <2>3, CallerMoves DEF StreamFollowsTheCall, Launched
  <2>4. QED
    BY <2>1, <2>2, <2>3
<1>7. Launch => Len(file') >= 1
  BY <1>1 DEF StreamFollowsTheCall
<1>8. /\ pc' = "launch" \/ (pc' = "execute" /\ at' # 1) => Len(file') >= 1
  BY <1>2, <1>3, <1>4, <1>5, <1>7
<1>9. pc' \in {"execute", "launch", "join"} => st_data_' \in {"open", "bad"}
  BY <1>2 DEF StreamFollowsTheCall
<1>10. pc' \in {"open", "execute", "unwind", "launch", "join"}
         => action' = "none"
  BY <1>2 DEF StreamFollowsTheCall
<1>11. /\ st_data_' = "closed" => written' = Len(file')
       /\ pc' \in {"control", "returned"} => st_data_' \in {"closed", "cut"}
  <2> USE DEF Goto
  <2>1. CASE ExecuteRaises \/ CloseData
    BY <2>1 DEF ExecuteRaises, CloseData, FlushAndDelete
  <2>2. CASE Execute
    BY <2>2 DEF Execute, StreamFollowsTheCall
  <2>3. CASE OpenData
    BY <2>3 DEF OpenData
  <2>4. CASE ~ExecuteRaises /\ ~CloseData /\ ~Execute /\ ~OpenData
    BY <2>4 DEF Caller, OpenRaises, Unwind, Launch, Break, Join, ControlRaises,
                Report, output, StreamFollowsTheCall
  <2>5. QED
    BY <2>1, <2>2, <2>3, <2>4
<1>12. QED
  BY <1>2, <1>6, <1>8, <1>9, <1>10, <1>11 DEF StreamFollowsTheCall, Launched

LEMMA CallerKeepsTheSum ==
  ASSUME TypeInv, CallInv, StreamFollowsTheCall, ResultsFollowTheFile,
         SumOfTheJoined, ActionFollowsTheFile, Caller
  PROVE  SumOfTheJoined' /\ ActionFollowsTheFile'
<1>1. iTotal \in Nat /\ iTotalRows \in [Stmts -> Nat]
  BY CounterFunctions, Zenon DEF TypeInv, TypeOK, CounterTypes
<1>2. at \in Nat \ {0}
  BY UnloaderAssumption DEF CallInv, ControlTypes
<1>3. Len(file) \in Nat
  BY LenProperties, Zenon DEF TypeInv, TypeOK, BufferTypes
<1>4. CASE Join
  <2>1. /\ at \in Stmts /\ at' = at + 1 /\ iTotal' = iTotal + iTotalRows[at]
        /\ UNCHANGED <<pc, iTotalRows, file, failed, action>>
        /\ pc = "join"
    BY <1>4 DEF Join, output, history
  <2>2. iTotalRows[at] \in Nat
    BY <1>1, <2>1
  <2>3. iTotalRows[at] > 0 => Len(file) > 1
    BY <2>1 DEF ResultsFollowTheFile
  <2>4. \A k \in Stmts : k < at' => k < at \/ k = at
    BY <1>2, <2>1
  <2>5. iTotal' > 0 => Len(file') > 1
    BY <1>1, <2>1, <2>2, <2>3 DEF SumOfTheJoined
  <2>6. \A k \in Stmts : k < at' /\ iTotalRows'[k] > 0 => iTotal' > 0
    BY <1>1, <2>1, <2>2, <2>4 DEF SumOfTheJoined
  <2>7. QED
    BY <2>1, <2>5, <2>6 DEF SumOfTheJoined, ActionFollowsTheFile
<1>5. CASE CloseData
  <2>1. \A k \in Stmts : k < at /\ thread[k] \in {"none", "ended"}
    BY <1>2, <1>5, UnloaderAssumption
       DEF CloseData, CallInv, ControlTypes, JoinedInOrder
  <2>2. iTotal = 0 => \A k \in Stmts : ~(iTotalRows[k] > 0)
    BY <1>5, <2>1 DEF CloseData, SumOfTheJoined
  <2>3. iTotal = 0 /\ failed = {} => ~(Len(file) > 1)
    BY <2>1, <2>2 DEF ResultsFollowTheFile
  <2>4. /\ pc' = "control" /\ UNCHANGED <<file, iTotal, failed>>
        /\ action' = IF iTotal > 0 THEN "vPostRepeatAction"
                                   ELSE "vNotFoundAction"
    BY <1>5 DEF CloseData, Goto, history
  <2>5. QED
    BY <1>1, <1>3, <2>3, <2>4 DEF SumOfTheJoined, ActionFollowsTheFile
<1>6. CASE Launch \/ Break
  <2>1. /\ UNCHANGED <<file, iTotal, failed, action>> /\ pc = "launch"
        /\ pc' = "join" => at' = 1
    BY <1>6 DEF Launch, Break, Goto, output, outcome, history
  <2>2. iTotal = 0
    BY <2>1 DEF SumOfTheJoined, StreamFollowsTheCall
  <2>3. pc' = "join" => \A k \in Stmts : ~(k < at')
    BY <2>1
  <2>4. QED
    BY <2>1, <2>2, <2>3 DEF SumOfTheJoined, ActionFollowsTheFile
<1>7. CASE Execute
  <2>1. /\ UNCHANGED <<iTotal, action>> /\ pc' = "launch" /\ pc = "execute"
    BY <1>7 DEF Execute, Goto, outcome
  <2>2. iTotal = 0 /\ action = "none"
    BY <2>1 DEF SumOfTheJoined, StreamFollowsTheCall
  <2>3. QED
    BY <2>1, <2>2 DEF SumOfTheJoined, ActionFollowsTheFile
<1>8. CASE \/ OpenData \/ OpenRaises \/ ExecuteRaises \/ Unwind
           \/ ControlRaises \/ Report
  <2>1. UNCHANGED <<file, iTotal, failed, action, iTotalRows>>
        /\ pc # "join" /\ pc' # "join"
    BY <1>8 DEF OpenData, OpenRaises, ExecuteRaises, Unwind, ControlRaises,
                Report, Goto, output, outcome, history
  <2>2. QED
    BY <2>1 DEF SumOfTheJoined, ActionFollowsTheFile
<1>9. QED
  BY <1>4, <1>5, <1>6, <1>7, <1>8 DEF Caller

LEMMA CallerKeepsResults ==
  ASSUME ResultInv, Caller
  PROVE  ResultInv'
<1>1. TypeInv /\ CallInv
  BY DEF ResultInv
<1>2. TypeInv' /\ CallInv'
  BY <1>1, CallerKeepsTypes, CallerPreserves
<1>3. WriterHasTheLock'
  BY <1>1, CallerMoves DEF ResultInv, WriterHasTheLock
<1>4. StreamFollowsTheCall'
  BY <1>1, CallerKeepsTheStream DEF ResultInv
<1>5. BadIsNoticed'
  <2>1. st_data_' = "bad" => st_data_ = "bad"
    BY <1>1, CallerMoves DEF OpenData
  <2>2. QED
    BY <1>1, <2>1, CallerMoves DEF ResultInv, BadIsNoticed
<1>6. ResultsFollowTheFile'
  <2>1. CASE Execute /\ at = 1
    <3>1. \A k \in Stmts : thread'[k] = "none" /\ iTotalRows'[k] = 0
      BY <1>1, <2>1, NoThreadBeforeTheFirst
         DEF ResultInv, ResultsFollowTheFile, Execute
    <3>2. Len(file') = 1
      BY <2>1 DEF Execute, Header
    <3>3. QED
      BY <3>1, <3>2 DEF ResultsFollowTheFile
  <2>2. CASE OpenData
    <3>1. \A k \in Stmts : thread'[k] = "none" /\ thread[k] = "none"
      BY <1>1, <2>2, NoThreadBeforeTheFirst DEF OpenData
    <3>2. UNCHANGED <<file, iTotalRows, failed>>
      BY <2>2 DEF OpenData, history
    <3>3. QED
      BY <3>1, <3>2 DEF ResultInv, ResultsFollowTheFile
  <2>3. CASE ~(Execute /\ at = 1) /\ ~OpenData
    <3>1. UNCHANGED <<file, iTotalRows, iRow, failed>>
          /\ st_data_' \in {st_data_, "closed", "cut"}
      BY <1>1, <2>3, CallerMoves
    <3>2. QED
      BY <1>1, <3>1, CallerMoves DEF ResultInv, ResultsFollowTheFile
  <2>4. QED
    BY <2>1, <2>2, <2>3
<1>7. SumOfTheJoined' /\ ActionFollowsTheFile'
  BY <1>1, CallerKeepsTheSum DEF ResultInv
<1>8. QED
  BY <1>2, <1>3, <1>4, <1>5, <1>6, <1>7 DEF ResultInv

LEMMA InitResults == Init => ResultInv
<1> SUFFICES ASSUME Init PROVE ResultInv
  OBVIOUS
<1>1. TypeInv /\ CallInv
  BY InitTypes, InitCall
<1>2. WriterHasTheLock /\ StreamFollowsTheCall /\ BadIsNoticed
  BY DEF Init, WriterHasTheLock, StreamFollowsTheCall, BadIsNoticed, Launched
<1>3. ResultsFollowTheFile /\ SumOfTheJoined /\ ActionFollowsTheFile
  BY DEF Init, ResultsFollowTheFile, SumOfTheJoined, ActionFollowsTheFile
<1>4. QED
  BY <1>1, <1>2, <1>3 DEF ResultInv

LEMMA ResultsNext == ASSUME ResultInv, [Next]_vars PROVE ResultInv'
<1>1. CASE Caller
  BY <1>1, CallerKeepsResults
<1>2. ASSUME NEW k \in Stmts, iFetch(k) PROVE ResultInv'
  <2>1. TypeInv' /\ CallInv'
    BY TypesNext, CallNext DEF ResultInv
  <2>2. QED
    BY <1>2, <2>1, FetchKeepsTheLock, FetchKeepsTheStream, FetchNoticesBad,
       FetchKeepsResults, FetchKeepsTheSum DEF ResultInv
<1>3. CASE vBreak \/ UNCHANGED vars
  <2>1. TypeInv' /\ CallInv'
    BY TypesNext, CallNext DEF ResultInv
  <2>2. UNCHANGED <<pc, at, thread, iRow, iTotalRows, spin_, st_data_, file,
                    written, iTotal, action, failed>>
    BY <1>3 DEF vBreak, vars, buffers, output, outcome, history
  <2>3. /\ WriterHasTheLock' /\ StreamFollowsTheCall' /\ BadIsNoticed'
        /\ ResultsFollowTheFile' /\ SumOfTheJoined' /\ ActionFollowsTheFile'
    BY <2>2 DEF ResultInv, WriterHasTheLock, StreamFollowsTheCall,
                BadIsNoticed, ResultsFollowTheFile, SumOfTheJoined,
                ActionFollowsTheFile, Launched
  <2>4. QED
    BY <2>1, <2>3 DEF ResultInv
<1>4. QED
  BY <1>1, <1>2, <1>3 DEF Next

LEMMA ResultsHold == Spec => []ResultInv
<1>1. Init => ResultInv
  BY InitResults
<1>2. ResultInv /\ [Next]_vars => ResultInv'
  BY ResultsNext
<1>3. QED
  BY <1>1, <1>2, PTL DEF Spec

(* The caller is told of rows exactly if there are rows, however many      *)
(* threads wrote them and whichever of them failed: "not found" needs a    *)
(* file without rows or a thread that has raised.                          *)
THEOREM ActionIsRight == Spec => []ActionFollowsTheFile
<1>1. ResultInv => ActionFollowsTheFile
  BY DEF ResultInv
<1>2. QED
  BY <1>1, ResultsHold, PTL

-----------------------------------------------------------------------------
(* The rows.                                                               *)

(* A number of full fetches and one more are a number of full fetches.     *)
LEMMA OneMoreFetch ==
  ASSUME NEW n \in Nat, n % iBulkSize = 0
  PROVE  (n + iBulkSize) % iBulkSize = 0
<1>1. \A q \in Nat : (q * iBulkSize) % iBulkSize = 0
  BY UnloaderAssumption
<1>2. PICK q \in Nat : n = q * iBulkSize
  BY UnloaderAssumption
<1>3. n + iBulkSize = (q + 1) * iBulkSize
  BY <1>2, UnloaderAssumption
<1>4. q + 1 \in Nat
  OBVIOUS
<1>5. QED
  BY <1>1, <1>3, <1>4

(* The numbers of a thread, and what a step that is neither a fetch nor a  *)
(* write leaves of them.                                                   *)
LEMMA Numbers ==
  ASSUME TypeInv, NEW k \in Stmts
  PROVE  /\ numRows[k] \in Nat /\ left[k] \in Nat /\ iNumIter[k] \in Nat
         /\ iRow[k] \in Nat /\ iNumIter[k] <= iBulkSize
         /\ left[k] + iNumIter[k] <= numRows[k]
         /\ NumFetched(k) \in Nat /\ BatchStart(k) \in Nat
         /\ NumFetched(k) = BatchStart(k) + iNumIter[k]
         /\ NumFetched(k) + left[k] = numRows[k]
<1>1. /\ numRows[k] \in Nat /\ left[k] \in Nat /\ iNumIter[k] \in Nat
      /\ iRow[k] \in Nat /\ iNumIter[k] <= iBulkSize
  BY Counters, UnloaderAssumption DEF TypeInv, TypeOK
<1>2. left[k] + iNumIter[k] <= numRows[k]
  BY DEF TypeInv, FetchesAreBounded
<1>3. QED
  BY <1>1, <1>2 DEF NumFetched, BatchStart

LEMMA OnlyFetchesFetch ==
  ASSUME TypeInv, NEW k \in Stmts, iFetch(k)
  PROVE  /\ numRows' = numRows
         /\ mayContinue' => mayContinue
         /\ ~iStmtFetch2(k) /\ ~FetchIsCancelled(k) =>
              /\ UNCHANGED <<left, iNumIter, noData, define, mayContinue>>
              /\ thread'[k] \in {"convert", "lock", "put"} =>
                   thread[k] \in {"convert", "lock", "put"}
<1>1. k \in DOMAIN thread
  BY Zenon DEF TypeInv, TypeOK, ControlTypes
<1> USE <1>1 DEF Step, buffers, history
<1>2. CASE TestContinues(k) BY <1>2 DEF TestContinues
<1>3. CASE TestLeaves(k) BY <1>3 DEF TestLeaves
<1>4. CASE vPreBulkAction(k) BY <1>4 DEF vPreBulkAction
<1>5. CASE iStmtFetch2(k) BY <1>5 DEF iStmtFetch2
<1>6. CASE FetchIsCancelled(k) BY <1>6 DEF FetchIsCancelled
<1>7. CASE FetchRaises(k) BY <1>7 DEF FetchRaises
<1>8. CASE Convert(k) BY <1>8 DEF Convert
<1>9. CASE Lock(k) BY <1>9 DEF Lock
<1>10. CASE Put(k) BY <1>10 DEF Put
<1>11. CASE PutCrashes(k) BY <1>11 DEF PutCrashes
<1>12. CASE PutEnds(k) BY <1>12 DEF PutEnds
<1>13. CASE PutRaises(k) BY <1>13 DEF PutRaises
<1>14. CASE Caught(k) BY <1>14 DEF Caught
<1>15. CASE Keep(k) \/ KeepInVain(k) BY <1>15 DEF Keep, KeepInVain
<1>16. QED
  BY <1>2, <1>3, <1>4, <1>5, <1>6, <1>7, <1>8, <1>9, <1>10, <1>11, <1>12,
     <1>13, <1>14, <1>15 DEF iFetch

(* What a fetch does to the thread's own numbers.                          *)
LEMMA FetchAdds ==
  ASSUME TypeInv, NEW k \in Stmts, iStmtFetch2(k) \/ FetchIsCancelled(k)
  PROVE  \E n \in Nat :
           /\ n <= left[k] /\ thread[k] = "fetch"
           /\ left'[k] = left[k] - n /\ iNumIter'[k] = n
           /\ numRows' = numRows
           /\ thread'[k] = IF n = 0 THEN "test" ELSE "convert"
           /\ \A i \in 1..n : i \in 1..iBulkSize =>
                define'[k][i] = NumFetched(k) + i
           /\ NumFetched(k)' = NumFetched(k) + n
           /\ BatchStart(k)' = NumFetched(k)
           /\ mayContinue' => (n = iBulkSize \/ n = left[k])
                              /\ (noData'[k] => n < iBulkSize)
           /\ UNCHANGED <<pc, at, iRow, oRowBuf_, spin_, output, oTls_,
                          failed>>
<1>1. PICK n \in 0..iBulkSize :
           /\ n <= left[k]
           /\ thread[k] = "fetch"
           /\ Fetched(k, n)
           /\ \/ /\ noData' = [noData EXCEPT ![k] = n < iBulkSize]
                 /\ n = iBulkSize \/ n = left[k]
              \/ mayContinue' = FALSE
           /\ UNCHANGED <<pc, at, iRow, oRowBuf_, spin_, output, oTls_,
                          numRows, failed>>
  BY FetchStores DEF TypeInv, TypeOK, history, subscripts
<1>2. /\ k \in DOMAIN thread /\ k \in DOMAIN left /\ k \in DOMAIN iNumIter
      /\ k \in DOMAIN noData /\ k \in DOMAIN define
  BY CounterFunctions, Zenon DEF TypeInv, TypeOK, ControlTypes, BufferTypes
<1>3. n \in Nat
  OBVIOUS
<1>4. /\ left'[k] = left[k] - n /\ iNumIter'[k] = n
      /\ thread'[k] = IF n = 0 THEN "test" ELSE "convert"
  BY <1>1, <1>2 DEF Fetched
<1>5. \A i \in 1..n : i \in 1..iBulkSize => define'[k][i] = NumFetched(k) + i
  BY <1>1, <1>2 DEF Fetched, NumFetched
<1>6. NumFetched(k)' = NumFetched(k) + n /\ BatchStart(k)' = NumFetched(k)
  BY <1>1, <1>3, <1>4, Numbers DEF NumFetched, BatchStart
<1>7. mayContinue' => (n = iBulkSize \/ n = left[k])
                      /\ (noData'[k] => n < iBulkSize)
  BY <1>1, <1>2
<1>8. QED
  BY <1>1, <1>3, <1>4, <1>5, <1>6, <1>7

LEMMA FetchKeepsAlignment ==
  ASSUME TypeInv, FetchesAreAligned, NEW k \in Stmts, iFetch(k)
  PROVE  FetchesAreAligned'
<1> SUFFICES ASSUME mayContinue' PROVE FetchesAreAligned'
  BY DEF FetchesAreAligned
<1> DEFINE Aligned(j) ==
      /\ thread[j] \in {"convert", "lock", "put"} =>
           /\ BatchStart(j) % iBulkSize = 0
           /\ iNumIter[j] = iBulkSize \/ left[j] = 0
      /\ noData[j] => left[j] = 0
      /\ left[j] > 0 => NumFetched(j) % iBulkSize = 0
<1>1. \A j \in Stmts : Aligned(j)
  BY OnlyFetchesFetch DEF FetchesAreAligned
<1>2. ASSUME NEW j \in Stmts, j # k PROVE Aligned(j)'
  <2>1. /\ thread'[j] = thread[j] /\ left'[j] = left[j]
        /\ noData'[j] = noData[j]
        /\ iNumIter'[j] = iNumIter[j] /\ numRows' = numRows
    BY <1>2, OthersUnchanged, OnlyFetchesFetch
  <2>2. NumFetched(j)' = NumFetched(j) /\ BatchStart(j)' = BatchStart(j)
    BY <2>1 DEF NumFetched, BatchStart
  <2>3. QED
    BY <1>1, <2>1, <2>2
<1>3. Aligned(k)'
  <2>1. CASE iStmtFetch2(k) \/ FetchIsCancelled(k)
    <3>1. PICK n \in Nat :
             /\ n <= left[k]
             /\ left'[k] = left[k] - n /\ iNumIter'[k] = n
             /\ thread'[k] = IF n = 0 THEN "test" ELSE "convert"
             /\ NumFetched(k)' = NumFetched(k) + n
             /\ BatchStart(k)' = NumFetched(k)
             /\ n = iBulkSize \/ n = left[k]
             /\ (noData'[k] => n < iBulkSize)
      BY <2>1, FetchAdds
    <3>2. left[k] \in Nat /\ NumFetched(k) \in Nat
      BY Numbers
    <3>3. left[k] > 0 => NumFetched(k) % iBulkSize = 0
      BY <1>1
    <3>4. n > 0 => BatchStart(k)' % iBulkSize = 0
      BY <3>1, <3>2, <3>3
    <3>5. n = iBulkSize \/ left'[k] = 0
      BY <3>1, <3>2
    <3>6. noData'[k] => left'[k] = 0
      BY <3>1, <3>2, UnloaderAssumption
    <3>7. left'[k] > 0 => NumFetched(k)' % iBulkSize = 0
      BY <3>1, <3>2, <3>3, <3>5, OneMoreFetch, UnloaderAssumption
    <3>8. QED
      BY <3>1, <3>4, <3>5, <3>6, <3>7
  <2>2. CASE ~iStmtFetch2(k) /\ ~FetchIsCancelled(k)
    <3>1. /\ UNCHANGED <<left, iNumIter, noData, numRows>>
          /\ thread'[k] \in {"convert", "lock", "put"} =>
               thread[k] \in {"convert", "lock", "put"}
      BY <2>2, OnlyFetchesFetch
    <3>2. NumFetched(k)' = NumFetched(k) /\ BatchStart(k)' = BatchStart(k)
      BY <3>1 DEF NumFetched, BatchStart
    <3>3. QED
      BY <1>1, <3>1, <3>2
  <2>3. QED
    BY <2>1, <2>2
<1>4. QED
  BY <1>2, <1>3 DEF FetchesAreAligned

(* Subscripts that are in order have always been.                          *)
LEMMA OrderIsOld ==
  ASSUME TypeInv, NEW k \in Stmts, iFetch(k), InOrder'
  PROVE  InOrder
<1>1. k \in DOMAIN oTls_
  BY CounterFunctions, Zenon DEF TypeInv, TypeOK
<1>2. \A j \in Stmts : oTls_[j] = None \/ oTls_'[j] = oTls_[j]
  <2>1. \A j \in Stmts \ {k} : oTls_'[j] = oTls_[j]
    BY OthersUnchanged
  <2>2. oTls_[k] = None \/ oTls_'[k] = oTls_[k]
    <3>1. CASE vPreBulkAction(k)
      BY <1>1, <3>1 DEF vPreBulkAction
    <3>2. CASE ~vPreBulkAction(k)
      BY <3>2 DEF iFetch, TestContinues, TestLeaves, iStmtFetch2,
         FetchIsCancelled, FetchRaises, Convert, Lock, Put, PutCrashes,
         PutEnds, PutRaises, Caught, Keep, KeepInVain, subscripts
    <3>3. QED
      BY <3>1, <3>2
  <2>3. QED
    BY <2>1, <2>2
<1>3. QED
  BY <1>2 DEF InOrder

LEMMA OwnSubscript ==
  ASSUME TypeInv, InOrder, NEW k \in Stmts,
         thread[k] \in {"fetch", "convert", "lock", "put"}
  PROVE  oTls_[k] = k
BY DEF TypeInv, SubscriptsAreCounted, InOrder

(* In order, a thread touches no row buffer but its own.                   *)
LEMMA OthersKeepTheirBuffers ==
  ASSUME TypeInv, NEW k \in Stmts, iFetch(k), InOrder',
         NEW j \in Stmts, j # k
  PROVE  oRowBuf_'[j] = oRowBuf_[j]
<1>1. DOMAIN oRowBuf_ = Stmts /\ k \in DOMAIN thread
  BY Zenon DEF TypeInv, TypeOK, BufferTypes, ControlTypes
<1>2. InOrder
  BY OrderIsOld
<1>3. CASE vPreBulkAction(k)
  <2>1. thread'[k] = "fetch"
    BY <1>1, <1>3 DEF vPreBulkAction, Step
  <2>2. oTls_'[k] = k
    BY <2>1, FetchKeepsSubscripts DEF SubscriptsAreCounted, InOrder
  <2>3. QED
    BY <1>1, <1>3, <2>2 DEF vPreBulkAction
<1>4. CASE Convert(k)
  <2>1. oTls_[k] = k
    BY <1>2, <1>4, OwnSubscript DEF Convert, Step
  <2>2. QED
    BY <1>1, <1>4, <2>1 DEF Convert
<1>5. CASE ~vPreBulkAction(k) /\ ~Convert(k)
  BY <1>5 DEF iFetch, TestContinues, TestLeaves, iStmtFetch2,
     FetchIsCancelled, FetchRaises, Lock, Put, PutCrashes,
     PutEnds, PutRaises, Caught, Keep, KeepInVain, buffers
<1>6. QED
  BY <1>3, <1>4, <1>5

LEMMA FetchFillsBuffers ==
  ASSUME TypeInv, BuffersHoldTheFetch, NEW k \in Stmts, iFetch(k), InOrder'
  PROVE  BuffersHoldTheFetch'
<1> DEFINE Holds(j) ==
      /\ thread[j] \in {"fetch", "convert"} =>
           \A i \in 1..iBulkSize : oRowBuf_[j][i] = <<>>
      /\ thread[j] = "convert" =>
           \A i \in 1..iNumIter[j] : define[j][i] = BatchStart(j) + i
      /\ thread[j] \in {"lock", "put"} =>
           \A i \in 1..iNumIter[j] : oRowBuf_[j][i] = Row(j, BatchStart(j) + i)
<1>1. \A j \in Stmts : Holds(j)
  BY Zenon DEF BuffersHoldTheFetch
<1>2. /\ DOMAIN thread = Stmts /\ DOMAIN oRowBuf_ = Stmts
      /\ oRowBuf_ \in [Stmts -> [1..iBulkSize -> Seq(Stmts \X (0..MaxRows))]]
  BY Zenon DEF TypeInv, TypeOK, ControlTypes, BufferTypes
<1>3. InOrder
  BY OrderIsOld
<1>4. ASSUME NEW j \in Stmts, j # k PROVE Holds(j)'
  <2>1. /\ thread'[j] = thread[j] /\ left'[j] = left[j]
        /\ iNumIter'[j] = iNumIter[j] /\ define'[j] = define[j]
        /\ numRows' = numRows /\ oRowBuf_'[j] = oRowBuf_[j]
    BY <1>4, OthersUnchanged, OthersKeepTheirBuffers, OnlyFetchesFetch
  <2>2. BatchStart(j)' = BatchStart(j)
    BY <2>1 DEF NumFetched, BatchStart
  <2>3. QED
    BY <1>1, <2>1, <2>2 DEF Row
<1>5. Holds(k)'
  <2>1. CASE vPreBulkAction(k)
    <3>1. thread'[k] = "fetch"
      BY <1>2, <2>1 DEF vPreBulkAction, Step
    <3>2. oTls_'[k] = k
      BY <3>1, FetchKeepsSubscripts DEF SubscriptsAreCounted, InOrder
    <3>3. oRowBuf_'[k] = [i \in 1..iBulkSize |-> <<>>]
      BY <1>2, <2>1, <3>2 DEF vPreBulkAction
    <3>4. QED
      BY <3>1, <3>3
  <2>2. CASE iStmtFetch2(k) \/ FetchIsCancelled(k)
    <3>1. PICK n \in Nat :
           /\ n <= left[k] /\ thread[k] = "fetch"
           /\ iNumIter'[k] = n
           /\ thread'[k] = IF n = 0 THEN "test" ELSE "convert"
           /\ \A i \in 1..n : i \in 1..iBulkSize =>
                define'[k][i] = NumFetched(k) + i
           /\ BatchStart(k)' = NumFetched(k)
           /\ oRowBuf_' = oRowBuf_
      BY <2>2, FetchAdds
    <3>2. n <= iBulkSize
      <4>1. CounterTypes'
        BY FetchCounts
      <4>2. iNumIter' \in [Stmts -> 0..iBulkSize]
        BY <4>1, Zenon DEF CounterTypes
      <4>3. QED
        BY <3>1, <4>2, UnloaderAssumption
    <3>3. \A i \in 1..n : define'[k][i] = BatchStart(k)' + i
      BY <3>1, <3>2, UnloaderAssumption
    <3>4. QED
      BY <1>1, <3>1, <3>3
  <2>3. CASE Convert(k)
    <3>1. thread[k] = "convert" /\ thread'[k] = "lock" /\ oTls_[k] = k
      BY <1>2, <1>3, <2>3, OwnSubscript DEF Convert, Step
    <3>2. oRowBuf_'[k] = [i \in 1..iBulkSize |->
                    IF i <= iNumIter[k]
                      THEN Append(oRowBuf_[k][i], <<k, define[k][i]>>)
                      ELSE oRowBuf_[k][i]]
      BY <1>2, <2>3, <3>1 DEF Convert
    <3>3. UNCHANGED <<iNumIter, left, numRows>>
      BY <2>3 DEF Convert, history
    <3>4. BatchStart(k)' = BatchStart(k)
      BY <3>3 DEF NumFetched, BatchStart
    <3>5. iNumIter[k] \in Nat /\ iNumIter[k] <= iBulkSize
      BY Numbers
    <3>6. ASSUME NEW i \in 1..iNumIter[k]
          PROVE  oRowBuf_'[k][i] = Row(k, BatchStart(k) + i)
      <4>1. i \in 1..iBulkSize /\ i <= iNumIter[k]
        BY <3>5, UnloaderAssumption
      <4>2. oRowBuf_[k][i] = <<>> /\ define[k][i] = BatchStart(k) + i
        BY <1>1, <3>1, <4>1
      <4>3. oRowBuf_'[k][i] = Append(<<>>, <<k, BatchStart(k) + i>>)
        BY <3>2, <4>1, <4>2
      <4>4. QED
        BY <4>3 DEF Row
    <3>7. QED
      BY <3>1, <3>3, <3>4, <3>6 DEF Row
  <2>4. CASE \/ TestContinues(k) \/ TestLeaves(k) \/ FetchRaises(k) \/ Lock(k)
             \/ Put(k) \/ PutCrashes(k) \/ PutEnds(k) \/ PutRaises(k)
             \/ Caught(k) \/ Keep(k) \/ KeepInVain(k)
    <3>1. /\ UNCHANGED <<iNumIter, left, numRows, oRowBuf_, define>>
          /\ thread'[k] \notin {"fetch", "convert"} \/ thread'[k] = thread[k]
          /\ thread'[k] \in {"lock", "put"} => thread[k] \in {"lock", "put"}
      BY <1>2, <2>4 DEF TestContinues, TestLeaves, FetchRaises, Lock, Put,
         PutCrashes, PutEnds, PutRaises, Caught, Keep, KeepInVain, Step,
         buffers, history
    <3>2. BatchStart(k)' = BatchStart(k)
      BY <3>1 DEF NumFetched, BatchStart
    <3>3. QED
      BY <1>1, <3>1, <3>2 DEF Row
  <2>5. QED
    BY <2>1, <2>2, <2>3, <2>4 DEF iFetch
<1>6. \A j \in Stmts : Holds(j)'
  BY <1>4, <1>5
<1>7. QED
  BY <1>6, Zenon DEF BuffersHoldTheFetch

LEMMA RowsAreDistinct ==
  ASSUME NEW k, NEW r, NEW j, NEW q, Row(k, r) = Row(j, q)
  PROVE  k = j /\ r = q
BY DEF Row

LEMMA FileHasAHeader ==
  ASSUME TypeInv, CallInv, StreamFollowsTheCall, NEW k \in Stmts, iFetch(k)
  PROVE  Len(file) >= 1
<1>1. Launched(k)
  BY FetchMoves DEF Launched
<1>2. QED
  BY <1>1 DEF StreamFollowsTheCall

(* What a write of a stream that has not failed does: the next row of the  *)
(* thread follows the last line.                                           *)
LEMMA PutAppends ==
  ASSUME TypeInv, CallInv, StreamFollowsTheCall, BuffersHoldTheFetch, InOrder,
         NEW k \in Stmts, Put(k), st_data_' = "open"
  PROVE  LET R == NumWritten(k) + 1 IN
         /\ R \in 1..numRows[k] /\ NumWritten(k)' = R
         /\ R = BatchStart(k) + iRow[k]
         /\ Len(file) \in Nat /\ Len(file) >= 1 /\ Len(file') = Len(file) + 1
         /\ \A i \in 1..Len(file) : file'[i] = file[i]
         /\ file'[Len(file) + 1] = Row(k, R)
<1> DEFINE R == NumWritten(k) + 1
<1>0. iFetch(k)
  BY DEF iFetch
<1>1. /\ thread[k] = "put" /\ thread'[k] = "put" /\ iRow[k] <= iNumIter[k]
      /\ iRow'[k] = iRow[k] + 1
      /\ UNCHANGED <<left, numRows, iNumIter>>
  <2>1. k \in DOMAIN iRow
    BY CounterFunctions, Zenon DEF TypeInv, TypeOK
  <2>2. QED
    BY <2>1 DEF Put, history
<1>2. /\ iRow[k] \in 1..iNumIter[k] /\ iRow[k] \in Nat /\ iNumIter[k] \in Nat
      /\ BatchStart(k) \in Nat /\ numRows[k] \in Nat /\ left[k] \in Nat
      /\ BatchStart(k) + iNumIter[k] + left[k] = numRows[k]
  <2>1. iRow[k] \in 1..(iNumIter[k] + 1)
    BY <1>1 DEF TypeInv, FetchesAreBounded
  <2>2. QED
    BY <1>1, <2>1, Numbers
<1>3. R = BatchStart(k) + iRow[k] /\ R \in 1..numRows[k]
  BY <1>1, <1>2 DEF NumWritten
<1>4. NumWritten(k)' = R
  <2>1. BatchStart(k)' = BatchStart(k)
    BY <1>1 DEF NumFetched, BatchStart
  <2>2. QED
    BY <1>1, <1>2, <1>3, <2>1 DEF NumWritten
<1>5. file' = Append(file, Row(k, R))
  <2>1. oTls_[k] = k
    BY <1>1, OwnSubscript
  <2>2. oRowBuf_[k][iRow[k]] = Row(k, R)
    BY <1>1, <1>2, <1>3 DEF BuffersHoldTheFetch
  <2>3. QED
    BY <1>0, <2>1, <2>2, OnlyPutWrites
<1>6. file \in Seq(Seq(Stmts \X (0..MaxRows)))
  BY Zenon DEF TypeInv, TypeOK, BufferTypes
<1>7. Len(file) >= 1
  BY <1>0, FileHasAHeader
<1>8. /\ Len(file) \in Nat /\ Len(file') = Len(file) + 1
      /\ \A i \in 1..Len(file) : file'[i] = file[i]
      /\ file'[Len(file) + 1] = Row(k, R)
  <2>1. Row(k, R) \in Seq(Stmts \X (0..MaxRows))
    <3>1. R \in 0..MaxRows
      <4>1. numRows[k] \in 0..MaxRows
        BY Counters DEF TypeInv, TypeOK
      <4>2. QED
        BY <1>3, <4>1, UnloaderAssumption
    <3>2. <<k, R>> \in Stmts \X (0..MaxRows)
      BY <3>1
    <3>3. QED
      BY <3>2 DEF Row
  <2>2. QED
    BY <1>5, <1>6, <2>1, AppendProperties, LenProperties
<1>9. QED
  BY <1>3, <1>4, <1>7, <1>8

(* A step that does not write changes what has been written by nobody.     *)
LEMMA NothingElseIsWritten ==
  ASSUME TypeInv, CallInv, NEW k \in Stmts, iFetch(k), ~Put(k),
         st_data_' = "open"
  PROVE  \A j \in Stmts : NumWritten(j)' = NumWritten(j)
<1>1. \A j \in Stmts \ {k} : NumWritten(j)' = NumWritten(j)
  BY OthersUnchanged, OnlyFetchesFetch DEF NumWritten, NumFetched, BatchStart
<1>2. NumWritten(k)' = NumWritten(k)
  <2>1. CASE iStmtFetch2(k) \/ FetchIsCancelled(k)
    <3>1. PICK n \in Nat :
           /\ n <= left[k] /\ thread[k] = "fetch"
           /\ thread'[k] = IF n = 0 THEN "test" ELSE "convert"
           /\ NumFetched(k)' = NumFetched(k) + n
           /\ BatchStart(k)' = NumFetched(k)
      BY <2>1, FetchAdds
    <3>2. NumFetched(k) \in Nat
      BY Numbers
    <3>3. QED
      BY <3>1, <3>2 DEF NumWritten
  <2>2. CASE ~iStmtFetch2(k) /\ ~FetchIsCancelled(k)
    <3>1. UNCHANGED <<left, iNumIter, numRows>>
      BY <2>2, OnlyFetchesFetch
    <3>2. /\ NumFetched(k)' = NumFetched(k) /\ BatchStart(k)' = BatchStart(k)
      BY <3>1 DEF NumFetched, BatchStart
    <3>3. /\ k \in DOMAIN thread /\ k \in DOMAIN iRow
      BY CounterFunctions, Zenon DEF TypeInv, TypeOK, ControlTypes
    <3>4. /\ BatchStart(k) \in Nat /\ iRow[k] \in Nat /\ iNumIter[k] \in Nat
          /\ NumFetched(k) = BatchStart(k) + iNumIter[k]
          /\ thread[k] = "put" => iRow[k] \in 1..(iNumIter[k] + 1)
      BY Numbers DEF TypeInv, FetchesAreBounded
    <3> USE <3>2, <3>3 DEF NumWritten, Step, output
    <3>5. CASE Lock(k) BY <3>4, <3>5 DEF Lock
    <3>6. CASE PutEnds(k) BY <3>4, <3>6 DEF PutEnds
    <3>7. CASE PutRaises(k) BY <3>7 DEF PutRaises
    <3>8. CASE PutCrashes(k) BY <3>8 DEF PutCrashes
    <3>9. CASE Convert(k) BY <3>9 DEF Convert
    <3>10. CASE \/ TestContinues(k) \/ TestLeaves(k) \/ vPreBulkAction(k)
                \/ FetchRaises(k) \/ Caught(k) \/ Keep(k) \/ KeepInVain(k)
      BY <3>10 DEF TestContinues, TestLeaves, vPreBulkAction, FetchRaises,
                   Caught, Keep, KeepInVain
    <3>11. QED
      BY <2>2, <3>5, <3>6, <3>7, <3>8, <3>9, <3>10 DEF iFetch
  <2>3. QED
    BY <2>1, <2>2
<1>3. QED
  BY <1>1, <1>2

LEMMA FetchWritesItsRows ==
  ASSUME TypeInv, CallInv, StreamFollowsTheCall, BuffersHoldTheFetch,
         LinesAreFetched, NEW k \in Stmts, iFetch(k), InOrder'
  PROVE  LinesAreFetched'
<1>1. (pc \notin {"control", "returned"} /\ pc' = pc) \/ pc' = "terminated"
  BY FetchMoves DEF CallInv, NoThreadSurvives, Running, FrameLost
<1>2. SUFFICES ASSUME st_data_' = "open", NEW j \in Stmts
               PROVE  WrittenUpTo(j, NumWritten(j))'
  BY <1>1 DEF LinesAreFetched
<1>3. st_data_ = "open" /\ WrittenUpTo(j, NumWritten(j))
  BY <1>2, OnlyPutWrites DEF LinesAreFetched, output
<1>4. numRows' = numRows
  BY OnlyFetchesFetch
<1>5. CASE Put(k)
  <2> DEFINE R == NumWritten(k) + 1
  <2>1. /\ R \in 1..numRows[k] /\ NumWritten(k)' = R
        /\ Len(file) \in Nat /\ Len(file) >= 1 /\ Len(file') = Len(file) + 1
        /\ \A i \in 1..Len(file) : file'[i] = file[i]
        /\ file'[Len(file) + 1] = Row(k, R)
    BY <1>2, <1>5, OrderIsOld, PutAppends
  <2> HIDE DEF R
  <2>2. \A r : (\E i \in 2..Len(file') : file'[i] = Row(j, r))
               <=> \/ \E i \in 2..Len(file) : file[i] = Row(j, r)
                   \/ Row(k, R) = Row(j, r)
    BY <2>1
  <2>3. CASE j = k
    <3>1. NumWritten(k) \in Nat /\ R = NumWritten(k) + 1
      BY <2>1, Numbers, SMTT(20) DEF R, NumWritten
    <3>2. ASSUME NEW r \in 1..numRows[k]
          PROVE  r <= R <=> \E i \in 2..Len(file') : file'[i] = Row(k, r)
      <4>1. r <= R <=> r <= NumWritten(k) \/ r = R
        BY <3>1
      <4>2. Row(k, R) = Row(k, r) <=> r = R
        BY RowsAreDistinct
      <4>3. r <= NumWritten(k) <=> \E i \in 2..Len(file) : file[i] = Row(k, r)
        BY <1>3, <2>3 DEF WrittenUpTo
      <4>4. QED
        BY <2>2, <2>3, <4>1, <4>2, <4>3
    <3>3. QED
      BY <1>4, <2>1, <2>3, <3>2 DEF WrittenUpTo
  <2>4. CASE j # k
    <3>1. NumWritten(j)' = NumWritten(j)
      BY <1>4, <2>4, OthersUnchanged DEF NumWritten, NumFetched, BatchStart
    <3>2. \A r : Row(k, R) # Row(j, r)
      BY <2>4, RowsAreDistinct
    <3>3. QED
      BY <1>3, <1>4, <2>2, <3>1, <3>2 DEF WrittenUpTo
  <2>5. QED
    BY <2>3, <2>4
<1>6. CASE ~Put(k)
  <2>1. NumWritten(j)' = NumWritten(j) /\ file' = file
    BY <1>2, <1>6, NothingElseIsWritten, OnlyPutWrites DEF output
  <2>2. QED
    BY <1>3, <1>4, <2>1 DEF WrittenUpTo
<1>7. QED
  BY <1>5, <1>6

LEMMA FetchEndsItsRows ==
  ASSUME TypeInv, CallInv, StreamFollowsTheCall, BuffersHoldTheFetch,
         FetchesAreAligned, CutFetchGoesOn,
         NEW k \in Stmts, iFetch(k), InOrder'
  PROVE  CutFetchGoesOn'
<1>1. SUFFICES ASSUME st_data_' = "open", mayContinue', Len(file') > 1,
                      NEW j \in Stmts, NEW r \in 1..numRows'[j],
                      file'[Len(file')] = Row(j, r), MidBatch(r, j)'
               PROVE  thread'[j] = "put" /\ iRow'[j] <= iNumIter'[j]
  BY DEF CutFetchGoesOn
<1>2. mayContinue /\ numRows' = numRows /\ st_data_ = "open"
  BY <1>1, OnlyFetchesFetch, OnlyPutWrites DEF output
<1>3. r % iBulkSize # 0 /\ r < numRows[j]
  BY <1>1, <1>2 DEF MidBatch
<1>4. CASE Put(k)
  <2> DEFINE R == NumWritten(k) + 1
  <2>1. /\ R \in 1..numRows[k] /\ R = BatchStart(k) + iRow[k]
        /\ Len(file) \in Nat /\ Len(file') = Len(file) + 1
        /\ file'[Len(file) + 1] = Row(k, R)
    BY <1>1, <1>4, OrderIsOld, PutAppends
  <2>2. j = k /\ r = R
    BY <1>1, <2>1, RowsAreDistinct
  <2>3. /\ thread[k] = "put" /\ thread' = thread /\ iNumIter' = iNumIter
        /\ iRow[k] <= iNumIter[k] /\ iRow'[k] = iRow[k] + 1
    <3>1. k \in DOMAIN iRow
      BY CounterFunctions, Zenon DEF TypeInv, TypeOK
    <3>2. QED
      BY <1>4, <3>1 DEF Put
  <2>4. /\ iRow[k] \in Nat /\ iNumIter[k] \in Nat /\ BatchStart(k) \in Nat
        /\ BatchStart(k) + iNumIter[k] + left[k] = numRows[k]
        /\ left[k] \in Nat
    BY Numbers
  <2>5. iRow[k] # iNumIter[k]
    <3>1. SUFFICES ASSUME iRow[k] = iNumIter[k] PROVE FALSE
      OBVIOUS
    <3>2. BatchStart(k) % iBulkSize = 0
          /\ (iNumIter[k] = iBulkSize \/ left[k] = 0)
      BY <1>2, <2>3 DEF FetchesAreAligned
    <3>3. CASE iNumIter[k] = iBulkSize
      BY <1>3, <2>1, <2>2, <2>4, <3>1, <3>2, <3>3, OneMoreFetch
    <3>4. CASE left[k] = 0
      BY <1>3, <2>1, <2>2, <2>4, <3>1, <3>4
    <3>5. QED
      BY <3>2, <3>3, <3>4
  <2>6. QED
    BY <2>2, <2>3, <2>4, <2>5
<1>5. CASE ~Put(k)
  <2>1. file' = file
    BY <1>5, OnlyPutWrites DEF output
  <2>2. thread[j] = "put" /\ iRow[j] <= iNumIter[j]
    BY <1>1, <1>2, <1>3, <2>1 DEF CutFetchGoesOn, MidBatch
  <2>3. CASE j # k
    BY <2>2, <2>3, OthersUnchanged
  <2>4. CASE j = k
    <3>1. iRow[k] \in Nat /\ iNumIter[k] \in Nat
      BY Numbers
    <3>2. ~PutEnds(k) /\ ~PutRaises(k) /\ ~PutCrashes(k)
      <4>1. ~(iRow[k] > iNumIter[k])
        BY <2>2, <2>4, <3>1
      <4>2. st_data_ \notin {"closed", "cut"}
        BY <1>2
      <4>3. QED
        BY <4>1, <4>2, Zenon DEF PutEnds, PutRaises, PutCrashes
    <3>3. FALSE
      BY <1>5, <2>2, <2>4, <3>2 DEF iFetch, TestContinues, TestLeaves,
         vPreBulkAction, iStmtFetch2, FetchIsCancelled, FetchRaises, Convert,
         Lock, Caught, Keep, KeepInVain, Step
    <3>4. QED
      BY <3>3
  <2>5. QED
    BY <2>3, <2>4
<1>6. QED
  BY <1>4, <1>5

LEMMA FetchKeepsTheFile ==
  ASSUME TypeInv, CallInv, StreamFollowsTheCall, BuffersHoldTheFetch,
         LinesAreFetched, CutFetchGoesOn, WriterHasTheLock, FileIsFaithful,
         NEW k \in Stmts, iFetch(k), InOrder'
  PROVE  FileIsFaithful'
<1>0. InOrder
  BY OrderIsOld
<1>1. numRows' = numRows /\ (mayContinue' => mayContinue)
  BY OnlyFetchesFetch
<1>2. CASE Put(k) /\ st_data_' = "open"
  <2> DEFINE R == NumWritten(k) + 1
  <2>1. /\ R \in 1..numRows[k]
        /\ Len(file) \in Nat /\ Len(file) >= 1 /\ Len(file') = Len(file) + 1
        /\ \A i \in 1..Len(file) : file'[i] = file[i]
        /\ file'[Len(file) + 1] = Row(k, R)
    BY <1>0, <1>2, PutAppends
  <2>2. st_data_ = "open" /\ thread[k] = "put"
    BY <1>2 DEF Put
  <2>3. WrittenUpTo(k, NumWritten(k)) /\ NumWritten(k) \in Nat
    <3>1. WrittenUpTo(k, NumWritten(k))
      BY <2>2 DEF LinesAreFetched
    <3>2. NumWritten(k) = BatchStart(k) + iRow[k] - 1
      BY <2>2 DEF NumWritten
    <3>3. numRows[k] \in Nat /\ BatchStart(k) \in Nat /\ iRow[k] \in Nat
      BY Numbers
    <3>4. NumWritten(k) \in Int /\ NumWritten(k) + 1 >= 1
      BY <2>1, <3>2, <3>3
    <3>5. QED
      BY <3>1, <3>4
  <2> HIDE DEF R
  <2>4. file # <<>>
    BY <2>1
  <2>5. file[1] = Header /\ file'[1] = Header
    BY <1>0, <2>1, <2>4 DEF FileIsFaithful
  <2> DEFINE Faithful(i) ==
        \E j \in Stmts : \E r \in 1..numRows'[j] :
           /\ file'[i] = Row(j, r)
           /\ r > 1 => \E h \in 2..(i - 1) : file'[h] = Row(j, r - 1)
           /\ \A h \in 2..(i - 1) : file'[h] # Row(j, r)
           /\ MidBatch(r, j)' /\ i < Len(file') /\ mayContinue'
                => file'[i + 1] = Row(j, r + 1)
  <2>6. ASSUME NEW i \in 2..Len(file) PROVE Faithful(i)
    <3>0. PICK j \in Stmts : \E r \in 1..numRows[j] :
           /\ file[i] = Row(j, r)
           /\ r > 1 => \E h \in 2..(i - 1) : file[h] = Row(j, r - 1)
           /\ \A h \in 2..(i - 1) : file[h] # Row(j, r)
           /\ MidBatch(r, j) /\ i < Len(file) /\ mayContinue
                => file[i + 1] = Row(j, r + 1)
      BY <1>0, <2>4 DEF FileIsFaithful
    <3>1. PICK r \in 1..numRows[j] :
           /\ file[i] = Row(j, r)
           /\ r > 1 => \E h \in 2..(i - 1) : file[h] = Row(j, r - 1)
           /\ \A h \in 2..(i - 1) : file[h] # Row(j, r)
           /\ MidBatch(r, j) /\ i < Len(file) /\ mayContinue
                => file[i + 1] = Row(j, r + 1)
      BY <3>0
    <3>2. /\ i \in 1..Len(file) /\ i \in Nat
          /\ \A h \in 2..(i - 1) : h \in 1..Len(file)
      BY <2>1
    <3>3. /\ file'[i] = Row(j, r)
          /\ r > 1 => \E h \in 2..(i - 1) : file'[h] = Row(j, r - 1)
          /\ \A h \in 2..(i - 1) : file'[h] # Row(j, r)
      BY <2>1, <3>1, <3>2
    <3>4. ASSUME MidBatch(r, j)', i < Len(file'), mayContinue'
          PROVE  file'[i + 1] = Row(j, r + 1)
      <4>1. MidBatch(r, j) /\ mayContinue
        BY <1>1, <3>4 DEF MidBatch
      <4>2. CASE i < Len(file)
        <5>1. i + 1 \in 1..Len(file)
          BY <2>1, <3>2, <4>2
        <5>2. QED
          BY <2>1, <3>1, <4>1, <4>2, <5>1
      <4>3. CASE i = Len(file)
        <5>1. thread[j] = "put"
          <6>1. Len(file) > 1
            BY <2>1, <4>3
          <6>2. QED
            BY <2>2, <3>1, <4>1, <4>3, <6>1 DEF CutFetchGoesOn
        <5>2. j = k
          BY <2>2, <5>1 DEF WriterHasTheLock
        <5>3. r <= NumWritten(k)
          BY <2>3, <3>1, <5>2 DEF WrittenUpTo
        <5>4. ~(r + 1 <= NumWritten(k))
          <6>1. SUFFICES ASSUME r + 1 <= NumWritten(k) PROVE FALSE
            OBVIOUS
          <6>2. r + 1 \in 1..numRows[k]
            BY <2>1, <2>3, <5>2, <6>1, Numbers DEF R
          <6>3. PICK h \in 2..Len(file) : file[h] = Row(k, r + 1)
            BY <2>3, <6>1, <6>2 DEF WrittenUpTo
          <6>4. h # i
            BY <3>1, <5>2, <6>3, RowsAreDistinct
          <6>5. h < Len(file) /\ h \in 2..Len(file) /\ h \in Nat
            BY <2>1, <4>3, <6>4
          <6>6. \E j2 \in Stmts : \E r2 \in 1..numRows[j2] :
                  /\ file[h] = Row(j2, r2)
                  /\ r2 > 1 => \E g \in 2..(h - 1) : file[g] = Row(j2, r2 - 1)
            BY <1>0, <2>4, <6>5 DEF FileIsFaithful
          <6>7. r + 1 > 1 => \E g \in 2..(h - 1) : 
                       file[g] = Row(k, (r + 1) - 1)
            BY <6>3, <6>6, RowsAreDistinct
          <6>8. r \in Nat /\ r + 1 > 1 /\ (r + 1) - 1 = r
            BY <2>3, Numbers
          <6>9. PICK g \in 2..(h - 1) : file[g] = Row(k, r)
            BY <6>7, <6>8
          <6>10. g \in 2..(i - 1)
            BY <4>3, <6>5, <6>9
          <6>11. QED
            BY <3>1, <5>2, <6>9, <6>10
        <5>5. R = r + 1
          BY <2>3, <5>3, <5>4 DEF R
        <5>6. QED
          BY <2>1, <4>3, <5>2, <5>5
      <4>4. QED
        BY <2>1, <4>2, <4>3
    <3>5. QED
      BY <1>1, <3>3, <3>4
  <2>7. Faithful(Len(file) + 1)
    <3>1. /\ Len(file) + 1 \in Nat /\ ~(Len(file) + 1 < Len(file'))
          /\ (Len(file) + 1) - 1 = Len(file)
          /\ \A h \in 2..Len(file) : file'[h] = file[h]
      BY <2>1
    <3>2. R > 1 => \E h \in 2..Len(file) : file'[h] = Row(k, R - 1)
      <4>1. SUFFICES ASSUME R > 1
                     PROVE  \E h \in 2..Len(file) : file[h] = Row(k, R - 1)
        BY <3>1
      <4>2. R - 1 \in 1..numRows[k] /\ R - 1 <= NumWritten(k)
        BY <2>1, <2>3, <4>1, Numbers DEF R
      <4>3. QED
        BY <2>3, <4>2 DEF WrittenUpTo
    <3>3. \A h \in 2..Len(file) : file'[h] # Row(k, R)
      <4>1. ~(R <= NumWritten(k))
        BY <2>3 DEF R
      <4>2. QED
        BY <2>1, <2>3, <3>1, <4>1 DEF WrittenUpTo
    <3>4. QED
      BY <1>1, <2>1, <3>1, <3>2, <3>3
  <2>8. \A i \in 2..Len(file') : i \in 2..Len(file) \/ i = Len(file) + 1
    BY <2>1
  <2>9. \A i \in 2..Len(file') : Faithful(i)
    <3> HIDE DEF Faithful
    <3>1. QED
      BY <2>6, <2>7, <2>8, SMTT(20)
  <2>10. QED
    BY <2>5, <2>9 DEF FileIsFaithful
<1>3. CASE ~(Put(k) /\ st_data_' = "open")
  <2>1. file' = file
    BY <1>3, OnlyPutWrites DEF output
  <2>2. QED
    BY <1>0, <1>1, <2>1 DEF FileIsFaithful, MidBatch
<1>4. QED
  BY <1>2, <1>3

LEMMA FetchEndsThreads ==
  ASSUME TypeInv, CallInv, BadIsNoticed, ThreadsEndWithoutData,
         NEW k \in Stmts, iFetch(k)
  PROVE  ThreadsEndWithoutData'
<1>1. k \in DOMAIN thread
  BY Zenon DEF TypeInv, TypeOK, ControlTypes
<1>2. \A j \in Stmts \ {k} :
        thread'[j] = thread[j] /\ noData'[j] = noData[j]
  BY OthersUnchanged
<1>3. failed \subseteq failed' /\ (mayContinue' => mayContinue)
  <2>1. failed \subseteq failed'
    BY DEF iFetch, TestContinues, TestLeaves, vPreBulkAction, iStmtFetch2,
       FetchIsCancelled, FetchRaises, Convert, Lock, Put, PutCrashes, PutEnds,
       PutRaises, Caught, Keep, KeepInVain, history
  <2>2. QED
    BY <2>1, OnlyFetchesFetch
<1>4. thread[k] # "none" /\ thread'[k] # "none" /\ at' = at
      /\ (pc' = pc \/ pc' = "terminated")
  <2>1. thread'[k] # "none"
    BY <1>1 DEF iFetch, TestContinues, TestLeaves, vPreBulkAction, iStmtFetch2,
       FetchIsCancelled, Fetched, FetchRaises, Convert, Lock, Put, PutCrashes,
       PutEnds, PutRaises, Caught, Keep, KeepInVain, Step
  <2>2. QED
    BY <2>1, FetchMoves
<1>5. mayContinue' /\ thread'[k] = "ended" => noData'[k] \/ k \in failed'
  <2>1. CASE TestLeaves(k)
    BY <2>1 DEF TestLeaves, buffers
  <2>2. CASE Caught(k) \/ Keep(k) \/ KeepInVain(k)
    <3>1. thread[k] \in {"caught", "keep"}
      BY <2>2 DEF Caught, Keep, KeepInVain, Step
    <3>2. QED
      BY <1>3, <3>1 DEF BadIsNoticed
  <2>3. CASE \/ TestContinues(k) \/ vPreBulkAction(k) \/ iStmtFetch2(k)
             \/ FetchIsCancelled(k) \/ FetchRaises(k) \/ Convert(k) \/ Lock(k)
             \/ Put(k) \/ PutCrashes(k) \/ PutEnds(k) \/ PutRaises(k)
    BY <1>1, <2>3 DEF TestContinues, vPreBulkAction, iStmtFetch2,
       FetchIsCancelled, Fetched, FetchRaises, Convert, Lock, Put, PutCrashes,
       PutEnds, PutRaises, Step
  <2>4. QED
    BY <2>1, <2>2, <2>3 DEF iFetch
<1>6. QED
  BY <1>2, <1>3, <1>4, <1>5 DEF ThreadsEndWithoutData, Launched

-----------------------------------------------------------------------------
(* The caller does not touch the rows but for the header and the stream.   *)

LEMMA CallerFetchesNothing ==
  ASSUME Caller
  PROVE  UNCHANGED <<mayContinue, buffers, oTls_, numRows, failed>>
BY DEF Caller, OpenData, OpenRaises, Execute, ExecuteRaises, Unwind, Launch,
       Break, Join, CloseData, ControlRaises, Report, history, subscripts

LEMMA CallerEndsThreads ==
  ASSUME TypeInv, CallInv, ThreadsEndWithoutData, Caller
  PROVE  ThreadsEndWithoutData'
<1>1. UNCHANGED <<mayContinue, noData, failed>>
  BY CallerFetchesNothing DEF buffers
<1>2. \A k \in Stmts :
        thread'[k] = thread[k] \/ (thread[k] = "none" /\ thread'[k] = "test")
  BY CallerMoves
<1>3. mayContinue' =>
        \A k \in Stmts : thread'[k] = "ended" => noData'[k] \/ k \in failed'
  BY <1>1, <1>2 DEF ThreadsEndWithoutData
<1>4. at \in Nat
  BY UnloaderAssumption DEF CallInv, ControlTypes
<1>5. pc' \in {"execute", "launch"} => \A k \in Stmts : k < at' => Launched(k)'
  <2>1. CASE Launch
    <3>1. SUFFICES ASSUME pc' \in {"execute", "launch"},
                          NEW k \in Stmts, k < at'
                   PROVE  thread'[k] # "none"
      BY DEF Launched
    <3>2. at' = at + 1 /\ k <= at /\ pc = "launch"
      BY <1>4, <2>1, <3>1 DEF Launch, Goto
    <3>3. CASE k = at
      <4>1. thread' = [thread EXCEPT ![at] = "test"] /\ DOMAIN thread = Stmts
        BY <2>1, Zenon DEF Launch, CallInv, ControlTypes
      <4>2. QED
        BY <3>3, <4>1
    <3>4. CASE k < at
      BY <1>2, <3>2, <3>4 DEF ThreadsEndWithoutData, Launched
    <3>5. QED
      BY <1>4, <3>2, <3>3, <3>4
  <2>2. CASE OpenData
    <3>1. at = 1 /\ at' = at
      BY <2>2 DEF OpenData, CallInv, LaunchedInOrder
    <3>2. QED
      BY <3>1
  <2>3. CASE Execute
    BY <1>2, <2>3 DEF Execute, ThreadsEndWithoutData, Launched
  <2>4. CASE ~Launch /\ ~OpenData /\ ~Execute
    BY <2>4 DEF Caller, OpenRaises, ExecuteRaises, Unwind, Break, Join,
       CloseData, ControlRaises, Report, Goto
  <2>5. QED
    BY <2>1, <2>2, <2>3, <2>4
<1>6. mayContinue' /\ pc' \in {"join", "control", "returned"}
        => \A k \in Stmts : Launched(k)'
  <2>1. CASE Launch
    <3>1. SUFFICES ASSUME pc' = "join", NEW k \in Stmts
                   PROVE  thread'[k] # "none"
      BY <2>1 DEF Launch, Goto, Launched
    <3>2. at = NumStmts /\ pc = "launch"
      BY <2>1, <3>1 DEF Launch, Goto
    <3>3. CASE k = at
      <4>1. thread' = [thread EXCEPT ![at] = "test"] /\ DOMAIN thread = Stmts
        BY <2>1, Zenon DEF Launch, CallInv, ControlTypes
      <4>2. QED
        BY <3>3, <4>1
    <3>4. CASE k < at
      BY <1>2, <3>2, <3>4 DEF ThreadsEndWithoutData, Launched
    <3>5. QED
      BY <3>2, <3>3, <3>4, UnloaderAssumption
  <2>2. CASE Break
    BY <1>1, <2>2 DEF Break
  <2>3. CASE Join \/ CloseData \/ ControlRaises \/ Report
    <3>1. pc \in {"join", "control"} /\ thread' = thread
      BY <2>3 DEF Join, CloseData, ControlRaises, Report
    <3>2. QED
      BY <1>1, <3>1 DEF ThreadsEndWithoutData, Launched
  <2>4. CASE OpenData \/ OpenRaises \/ Execute \/ ExecuteRaises \/ Unwind
    BY <2>4 DEF OpenData, OpenRaises, Execute, ExecuteRaises, Unwind, Goto
  <2>5. QED
    BY <2>1, <2>2, <2>3, <2>4 DEF Caller
<1>7. QED
  BY <1>3, <1>5, <1>6 DEF ThreadsEndWithoutData

LEMMA CallerKeepsBuffers ==
  ASSUME CallInv, Caller
  PROVE  /\ FetchesAreAligned => FetchesAreAligned'
         /\ BuffersHoldTheFetch => BuffersHoldTheFetch'
         /\ InOrder' => InOrder
<1>1. UNCHANGED <<mayContinue, left, iNumIter, noData, define, oRowBuf_,
                  numRows, oTls_>>
  BY CallerFetchesNothing DEF buffers
<1>2. \A k \in Stmts :
        thread'[k] = thread[k] \/ (thread[k] = "none" /\ thread'[k] = "test")
  BY CallerMoves
<1>3. FetchesAreAligned => FetchesAreAligned'
  BY <1>1, <1>2 DEF FetchesAreAligned, NumFetched, BatchStart
<1>4. BuffersHoldTheFetch => BuffersHoldTheFetch'
  BY <1>1, <1>2 DEF BuffersHoldTheFetch, NumFetched, BatchStart, Row
<1>5. QED
  BY <1>1, <1>3, <1>4 DEF InOrder

(* A thread that has not begun has written nothing and fetched nothing.    *)
LEMMA NothingBeforeTheFirst ==
  ASSUME TypeInv, NEW k \in Stmts, thread[k] \in {"none", "test"},
         left[k] = numRows[k], ~(\E i \in 2..Len(file) : TRUE)
  PROVE  WrittenUpTo(k, NumWritten(k))
<1>1. NumWritten(k) = 0
  BY Numbers DEF NumWritten, NumFetched
<1>2. QED
  BY <1>1 DEF WrittenUpTo

LEMMA CallerKeepsLines ==
  ASSUME ResultInv, LinesAreFetched, Caller
  PROVE  LinesAreFetched'
<1>1. UNCHANGED <<mayContinue, left, iNumIter, iRow, numRows, failed>>
  BY CallerFetchesNothing DEF buffers
<1>2. \A k \in Stmts :
        thread'[k] = thread[k] \/ (thread[k] = "none" /\ thread'[k] = "test")
  BY CallerMoves DEF ResultInv
<1>3. \A k \in Stmts : NumWritten(k)' = NumWritten(k)
  BY <1>1, <1>2 DEF NumWritten, BatchStart, NumFetched
<1>4. CASE OpenData \/ (Execute /\ at = 1)
  <2>1. SUFFICES ASSUME NEW k \in Stmts
                 PROVE  WrittenUpTo(k, NumWritten(k))'
    BY DEF LinesAreFetched
  <2>2. thread[k] = "none"
    BY <1>4, NoThreadBeforeTheFirst DEF ResultInv
  <2>3. NumWritten(k) = 0
    BY <2>2, Numbers DEF NumWritten, NumFetched, ResultInv, TypeInv,
                         FetchesAreBounded
  <2>4. ~(\E i \in 2..Len(file') : TRUE)
    <3>1. CASE OpenData
      BY <3>1 DEF OpenData, ResultInv, StreamFollowsTheCall
    <3>2. CASE Execute /\ at = 1
      BY <3>2 DEF Execute, Header
    <3>3. QED
      BY <1>4, <3>1, <3>2
  <2>5. QED
    BY <1>1, <1>3, <2>3, <2>4 DEF WrittenUpTo
<1>5. CASE ~OpenData /\ ~(Execute /\ at = 1)
  <2>1. file' = file /\ st_data_' \in {st_data_, "closed", "cut"}
    BY <1>5, CallerMoves DEF ResultInv
  <2>2. SUFFICES ASSUME \/ st_data_' = "open"
                        \/ pc' \in {"control", "returned"} /\ failed' = {}
                 PROVE  \A k \in Stmts : WrittenUpTo(k, NumWritten(k))
    BY <1>1, <1>3, <2>1 DEF LinesAreFetched, WrittenUpTo
  <2>3. CASE CloseData
    <3>1. pc = "join" /\ failed = {} /\ at \notin Stmts
      BY <1>1, <2>2, <2>3 DEF CloseData, FlushAndDelete
    <3>2. at = NumStmts + 1
      BY <3>1, UnloaderAssumption DEF ResultInv, CallInv, ControlTypes
    <3>3. \A k \in Stmts : thread[k] \in {"none", "ended"}
      BY <3>1, <3>2, UnloaderAssumption DEF ResultInv, CallInv, JoinedInOrder
    <3>4. st_data_ # "bad"
      BY <3>1, <3>3 DEF ResultInv, BadIsNoticed
    <3>5. st_data_ = "open"
      BY <3>1, <3>4 DEF ResultInv, StreamFollowsTheCall
    <3>6. QED
      BY <3>5 DEF LinesAreFetched
  <2>4. CASE Report \/ ControlRaises
    BY <1>1, <2>1, <2>2, <2>4 DEF Report, ControlRaises, LinesAreFetched, Goto
  <2>5. CASE ~CloseData /\ ~Report /\ ~ControlRaises
    <3>1. pc' \notin {"control", "returned"}
      BY <1>5, <2>5 DEF Caller, OpenRaises, Execute, ExecuteRaises, Unwind,
         Launch, Break, Join, Goto, ResultInv, CallInv, ControlTypes
    <3>2. st_data_ = "open"
      BY <2>1, <2>2, <3>1
    <3>3. QED
      BY <3>2 DEF LinesAreFetched
  <2>6. QED
    BY <2>3, <2>4, <2>5
<1>6. QED
  BY <1>4, <1>5

LEMMA CallerKeepsTheFile ==
  ASSUME ResultInv, CutFetchGoesOn, FileIsFaithful, Caller
  PROVE  CutFetchGoesOn' /\ FileIsFaithful'
<1>1. UNCHANGED <<mayContinue, iNumIter, iRow, numRows, oTls_>>
  BY CallerFetchesNothing DEF buffers
<1>2. CASE Execute /\ at = 1
  <2>1. file' = <<Header>>
    BY <1>2 DEF Execute
  <2>2. Len(file') = 1 /\ file'[1] = Header
    BY <2>1
  <2>3. QED
    BY <2>2 DEF CutFetchGoesOn, FileIsFaithful
<1>3. CASE ~(Execute /\ at = 1)
  <2>1. file' = file
    BY <1>3, CallerMoves DEF ResultInv
  <2>2. FileIsFaithful'
    BY <1>1, <2>1 DEF FileIsFaithful, MidBatch, InOrder
  <2>3. CASE OpenData
    <3>1. file' = <<>>
      BY <2>1, <2>3 DEF OpenData, ResultInv, StreamFollowsTheCall
    <3>2. QED
      BY <2>2, <3>1 DEF CutFetchGoesOn
  <2>4. CASE ~OpenData
    <3>1. st_data_' \in {st_data_, "closed", "cut"}
      BY <2>4, CallerMoves DEF ResultInv
    <3>2. \A k \in Stmts : thread[k] = "put" => thread'[k] = "put"
      BY CallerMoves DEF ResultInv
    <3>3. CutFetchGoesOn'
      BY <1>1, <2>1, <3>1, <3>2 DEF CutFetchGoesOn, MidBatch
    <3>4. QED
      BY <2>2, <3>3
  <2>5. QED
    BY <2>2, <2>3, <2>4
<1>4. QED
  BY <1>2, <1>3

-----------------------------------------------------------------------------
(* Together.                                                               *)

LEMMA InitRows == Init => RowInv
<1> SUFFICES ASSUME Init PROVE RowInv
  OBVIOUS
<1>1. ResultInv
  BY InitResults
<1>2. ThreadsEndWithoutData
  BY DEF Init, ThreadsEndWithoutData
<1>3. \A k \in Stmts : thread[k] = "none" /\ noData[k] = FALSE
                       /\ left[k] = numRows[k]
  BY DEF Init
<1>4. \A k \in Stmts : NumFetched(k) = 0
  BY <1>1, <1>3, Numbers DEF NumFetched, ResultInv
<1>5. FetchesAreAligned
  BY <1>3, <1>4, UnloaderAssumption DEF FetchesAreAligned
<1>6. BuffersHoldTheFetch
  BY <1>3 DEF BuffersHoldTheFetch
<1>7. LinesAreFetched /\ CutFetchGoesOn
  BY DEF Init, LinesAreFetched, CutFetchGoesOn
<1>8. FileIsFaithful
  BY DEF Init, FileIsFaithful
<1>9. QED
  BY <1>1, <1>2, <1>5, <1>6, <1>7, <1>8 DEF RowInv

LEMMA RowsNext == ASSUME RowInv, [Next]_vars PROVE RowInv'
<1>1. ResultInv'
  BY ResultsNext DEF RowInv
<1>2. /\ ResultInv /\ TypeInv /\ CallInv /\ WriterHasTheLock
      /\ StreamFollowsTheCall /\ BadIsNoticed
      /\ ThreadsEndWithoutData /\ FetchesAreAligned
  BY DEF RowInv, ResultInv
<1>3. CASE Caller
  <2>1. ThreadsEndWithoutData' /\ FetchesAreAligned' /\ (InOrder' => InOrder)
    BY <1>2, <1>3, CallerEndsThreads, CallerKeepsBuffers
  <2>2. ASSUME InOrder'
        PROVE  /\ BuffersHoldTheFetch' /\ LinesAreFetched'
               /\ CutFetchGoesOn' /\ FileIsFaithful'
    <3>1. /\ BuffersHoldTheFetch /\ LinesAreFetched
          /\ CutFetchGoesOn /\ FileIsFaithful
      BY <2>1, <2>2 DEF RowInv
    <3>2. QED
      BY <1>2, <1>3, <3>1, CallerKeepsBuffers, CallerKeepsLines,
         CallerKeepsTheFile
  <2>3. QED
    BY <1>1, <2>1, <2>2 DEF RowInv
<1>4. ASSUME NEW k \in Stmts, iFetch(k) PROVE RowInv'
  <2>1. ThreadsEndWithoutData' /\ FetchesAreAligned' /\ (InOrder' => InOrder)
    BY <1>2, <1>4, FetchEndsThreads, FetchKeepsAlignment, OrderIsOld
  <2>2. ASSUME InOrder'
        PROVE  /\ BuffersHoldTheFetch' /\ LinesAreFetched'
               /\ CutFetchGoesOn' /\ FileIsFaithful'
    <3>1. /\ BuffersHoldTheFetch /\ LinesAreFetched
          /\ CutFetchGoesOn /\ FileIsFaithful
      BY <2>1, <2>2 DEF RowInv
    <3>2. BuffersHoldTheFetch'
      BY <1>2, <1>4, <2>2, <3>1, FetchFillsBuffers
    <3>3. LinesAreFetched'
      BY <1>2, <1>4, <2>2, <3>1, FetchWritesItsRows
    <3>4. CutFetchGoesOn'
      BY <1>2, <1>4, <2>2, <3>1, FetchEndsItsRows
    <3>5. FileIsFaithful'
      BY <1>2, <1>4, <2>2, <3>1, FetchKeepsTheFile
    <3>6. QED
      BY <3>2, <3>3, <3>4, <3>5
  <2>3. QED
    BY <1>1, <2>1, <2>2 DEF RowInv
<1>5. CASE vBreak \/ UNCHANGED vars
  <2>1. /\ UNCHANGED <<pc, at, thread, left, define, iNumIter, iRow, noData,
                       oTls_, oRowBuf_, st_data_, file, numRows, failed>>
        /\ mayContinue' => mayContinue
    BY <1>5 DEF vBreak, vars, buffers, subscripts, output, history
  <2>2. ThreadsEndWithoutData'
    BY <1>2, <2>1 DEF ThreadsEndWithoutData, Launched
  <2>3. FetchesAreAligned'
    BY <1>2, <2>1 DEF FetchesAreAligned, NumFetched, BatchStart
  <2>4. ASSUME InOrder' PROVE BuffersHoldTheFetch' /\ LinesAreFetched'
    <3>1. BuffersHoldTheFetch /\ LinesAreFetched
      BY <2>1, <2>4 DEF RowInv, InOrder
    <3>2. BuffersHoldTheFetch'
      BY <2>1, <3>1 DEF BuffersHoldTheFetch, BatchStart, NumFetched
    <3>3. LinesAreFetched'
      BY <2>1, <3>1 DEF LinesAreFetched, WrittenUpTo, NumWritten, BatchStart,
                        NumFetched
    <3>4. QED
      BY <3>2, <3>3
  <2>5. ASSUME InOrder' PROVE CutFetchGoesOn' /\ FileIsFaithful'
    <3>1. CutFetchGoesOn /\ FileIsFaithful
      BY <2>1, <2>5 DEF RowInv, InOrder
    <3>2. CutFetchGoesOn'
      BY <2>1, <3>1 DEF CutFetchGoesOn, MidBatch
    <3>3. InOrder
      BY <2>1, <2>5 DEF InOrder
    <3>4. FileIsFaithful'
      BY <2>1, <3>1, <3>3 DEF FileIsFaithful, MidBatch
    <3>5. QED
      BY <3>2, <3>4
  <2>6. QED
    BY <1>1, <2>2, <2>3, <2>4, <2>5 DEF RowInv
<1>6. QED
  BY <1>3, <1>4, <1>5 DEF Next

LEMMA RowsHold == Spec => []RowInv
<1>1. Init => RowInv
  BY InitRows
<1>2. RowInv /\ [Next]_vars => RowInv'
  BY RowsNext
<1>3. QED
  BY <1>1, <1>2, PTL DEF Spec

(* Whatever the number of threads and their speed, the data file is the    *)
(* header and one row a line; the rows of a statement stand in it once, in *)
(* their order and without a gap, and a fetch is not interleaved with      *)
(* another thread's.                                                       *)
THEOREM FileHoldsTheRows == Spec => []FileIsFaithful
<1>1. RowInv => FileIsFaithful
  BY DEF RowInv, FileIsFaithful
<1>2. QED
  BY <1>1, RowsHold, PTL

LEMMA SizeOfInterval ==
  ASSUME NEW n \in Nat
  PROVE  IsFiniteSet(1..n) /\ Cardinality(1..n) = n
<1>1. 1 \in Int /\ n \in Int
  OBVIOUS
<1> DEFINE Size == Cardinality(1..n)
<1>2. IsFiniteSet(1..n) /\ Size = IF 1 > n THEN 0 ELSE n - 1 + 1
  BY <1>1, FS_Interval, Zenon
<1> HIDE DEF Size
<1>3. IsFiniteSet(1..n) /\ Size = n
  BY <1>2
<1>4. QED
  BY <1>3 DEF Size

(* The lines of a statement whose rows the stream has all taken are, when  *)
(* the flush loses nothing, as many as its rows.                           *)
LEMMA LinesOfAllRows ==
  ASSUME TypeInv, FileIsFaithful, InOrder, file # <<>>, NEW k \in Stmts,
         WrittenUpTo(k, numRows[k]), written = Len(file)
  PROVE  Cardinality(Lines(k)) = numRows[k]
<1>1. numRows[k] \in Nat /\ numRows[k] <= MaxRows
  BY CounterFunctions, UnloaderAssumption DEF TypeInv, TypeOK
<1>2. Len(file) \in Nat /\ DOMAIN file = 1..Len(file)
  BY LenProperties, Zenon DEF TypeInv, TypeOK, BufferTypes
<1>3. file[1] = Header /\ \A r : Row(k, r) # Header
  BY DEF FileIsFaithful, Row, Header
<1>4. \A r \in 1..numRows[k] : \E i \in 2..Len(file) : file[i] = Row(k, r)
  BY <1>1 DEF WrittenUpTo
<1> DEFINE LineOf == [r \in 1..numRows[k] |->
                        CHOOSE i \in 2..Len(file) : file[i] = Row(k, r)]
<1>5. \A r \in 1..numRows[k] :
        LineOf[r] \in 2..Len(file) /\ file[LineOf[r]] = Row(k, r)
  BY <1>4
<1> HIDE DEF LineOf
<1>6. LineOf \in [1..numRows[k] -> Lines(k)]
  <2>1. LineOf = [r \in 1..numRows[k] |-> LineOf[r]]
    BY DEF LineOf
  <2>2. \A r \in 1..numRows[k] : LineOf[r] \in Lines(k)
    <3>1. \A r \in 1..numRows[k] : r \in 1..MaxRows
      BY <1>1, UnloaderAssumption
    <3>2. \A i \in 2..Len(file) : i \in DOMAIN file
      BY <1>2
    <3>3. QED
      BY <1>5, <3>1, <3>2 DEF Lines
  <2>3. QED
    BY <2>1, <2>2
<1>7. \A r, q \in 1..numRows[k] : LineOf[r] = LineOf[q] => r = q
  BY <1>5, RowsAreDistinct
<1>8. \A i \in Lines(k) : \E r \in 1..numRows[k] : LineOf[r] = i
  <2>1. SUFFICES ASSUME NEW i \in Lines(k)
                 PROVE  \E r \in 1..numRows[k] : LineOf[r] = i
    OBVIOUS
  <2>2. i \in 2..Len(file) /\ \E r : file[i] = Row(k, r)
    BY <1>2, <1>3 DEF Lines
  <2>3. \E j \in Stmts : \E r \in 1..numRows[j] : file[i] = Row(j, r)
    BY <2>2 DEF FileIsFaithful
  <2>4. PICK r \in 1..numRows[k] : file[i] = Row(k, r)
    <3>1. PICK q : file[i] = Row(k, q)
      BY <2>2
    <3>2. PICK j \in Stmts : \E r \in 1..numRows[j] : file[i] = Row(j, r)
      BY <2>3
    <3>3. j = k
      BY <3>1, <3>2, RowsAreDistinct
    <3>4. QED
      BY <3>2, <3>3
  <2>5. \A h \in 2..Len(file) : \A l \in 2..(h - 1) :
          file[h] = Row(k, r) => file[l] # Row(k, r)
    <3>1. SUFFICES ASSUME NEW h \in 2..Len(file), file[h] = Row(k, r),
                          NEW l \in 2..(h - 1)
                   PROVE  file[l] # Row(k, r)
      OBVIOUS
    <3>2. \E j \in Stmts : \E q \in 1..numRows[j] :
             file[h] = Row(j, q) /\ \A g \in 2..(h - 1) : file[g] # Row(j, q)
      BY DEF FileIsFaithful
    <3>3. QED
      BY <3>1, <3>2, RowsAreDistinct
  <2>6. LineOf[r] \in 2..Len(file) /\ file[LineOf[r]] = Row(k, r)
    BY <1>5
  <2>7. ~(i < LineOf[r]) /\ ~(LineOf[r] < i)
    <3>1. i < LineOf[r] => i \in 2..(LineOf[r] - 1)
      BY <1>2, <2>2, <2>6
    <3>2. LineOf[r] < i => LineOf[r] \in 2..(i - 1)
      BY <1>2, <2>2, <2>6
    <3>3. QED
      BY <2>2, <2>4, <2>5, <2>6, <3>1, <3>2
  <2>8. i = LineOf[r]
    BY <1>2, <2>2, <2>6, <2>7
  <2>9. QED
    BY <2>8
<1>9. ExistsBijection(1..numRows[k], Lines(k))
  <2>1. LineOf \in Injection(1..numRows[k], Lines(k))
    BY <1>6, <1>7, Zenon DEF Injection, IsInjective
  <2>2. LineOf \in Surjection(1..numRows[k], Lines(k))
    BY <1>6, <1>8, Zenon DEF Surjection
  <2>3. QED
    BY <2>1, <2>2, Zenon DEF Bijection, ExistsBijection
<1>10. IsFiniteSet(1..numRows[k]) /\ Cardinality(1..numRows[k]) = numRows[k]
  BY <1>1, SizeOfInterval
<1>11. QED
  BY <1>9, <1>10, FS_Bijection

(* A call that returns without a cancel has brought every row into the     *)
(* file, for every number of statements and of rows, if the threads came   *)
(* in order and the last flush, which nobody asks, did not fail.           *)
THEOREM EveryRowIsWritten == Spec => []RowsAreComplete
<1>1. RowInv => RowsAreComplete
  <2>1. SUFFICES ASSUME RowInv, pc = "returned", mayContinue, InOrder,
                        st_data_ # "cut", NEW k \in Stmts
                 PROVE  Cardinality(Lines(k)) = numRows[k]
    BY DEF RowsAreComplete
  <2>2. TypeInv /\ CallInv /\ FileIsFaithful
    BY <2>1 DEF RowInv, ResultInv
  <2>3. failed = {}
    BY <2>1, <2>2 DEF CallInv, ControlTypes, NoThreadSurvives, FailuresAreKept,
                      Running, FrameLost
  <2>4. thread[k] = "ended"
    BY <2>1, <2>2 DEF RowInv, ThreadsEndWithoutData, Launched, CallInv,
                      NoThreadSurvives, Running, FrameLost
  <2>5. left[k] = 0
    BY <2>1, <2>3, <2>4 DEF RowInv, ThreadsEndWithoutData, FetchesAreAligned
  <2>6. NumWritten(k) = numRows[k]
    BY <2>2, <2>4, <2>5, Numbers DEF NumWritten
  <2>7. WrittenUpTo(k, numRows[k])
    BY <2>1, <2>3, <2>6 DEF RowInv, LinesAreFetched
  <2>8. file # <<>>
    <3>1. Len(file) >= 1
      BY <2>1, <2>4 DEF RowInv, ResultInv, StreamFollowsTheCall, Launched
    <3>2. QED
      BY <3>1
  <2>9. written = Len(file)
    BY <2>1 DEF RowInv, ResultInv, StreamFollowsTheCall
  <2>10. QED
    BY <2>1, <2>2, <2>7, <2>8, <2>9, LinesOfAllRows
<1>2. QED
  BY <1>1, RowsHold, PTL
=============================================================================
