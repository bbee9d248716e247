--------------------------- MODULE FailoverProofs ---------------------------
(***************************************************************************)
(* Theorems about Failover for every set of connections and every value of *)
(* the bounds.                                                             *)
(***************************************************************************)
EXTENDS Failover, TLAPS

(* Type correctness of the failover's state.                               *)
THEOREM TypeCorrect == Spec => []TypeOK
<1>1. Init => TypeOK
  BY FailoverAssumption DEF Init, TypeOK, Owners, Fresh
<1>2. TypeOK /\ [Next]_vars => TypeOK'
  <2> SUFFICES ASSUME TypeOK, [Next]_vars PROVE TypeOK'
    OBVIOUS
  <2> USE FailoverAssumption DEF TypeOK, Goto, CallbackTo, ext, bounds
  <2>1. ASSUME NEW k \in Conns,
               \/ ServerVersion(k) \/ ServerVersionRaises(k) \/ Register(k)
               \/ FailoverBegins(k) \/ Checkin(k)
        PROVE  TypeOK'
    BY <2>1 DEF ServerVersion, ServerVersionRaises, Register, FailoverBegins,
                Checkin
  <2>2. ASSUME NEW k \in Conns, AlterBegins(k) \/ AlterRaises(k)
        PROVE  TypeOK'
    BY <2>2 DEF AlterBegins, AlterRaises, Lock
  <2>3. ASSUME NEW k \in Conns, AlterSucceeds(k) PROVE TypeOK'
    BY <2>3 DEF AlterSucceeds, Altered
  <2>4. ASSUME NEW k \in Conns, FailsOverUnnoticed(k) \/ FailoverEnds(k)
        PROVE  TypeOK'
    BY <2>4 DEF FailsOverUnnoticed, FailoverEnds
  <2>5. ASSUME NEW k \in Conns, FailoverAborts(k) PROVE TypeOK'
    BY <2>5 DEF FailoverAborts
  <2>6. ASSUME NEW k \in Conns, CallbackLocks(k) PROVE TypeOK'
    BY <2>6 DEF CallbackLocks, Lock
  <2>7. ASSUME NEW k \in Conns, CallbackAlters(k) PROVE TypeOK'
    BY <2>7 DEF CallbackAlters, Altered
  <2>12. ASSUME NEW k \in Conns, CallbackRaises(k) PROVE TypeOK'
    BY <2>12 DEF CallbackRaises
  <2>8. ASSUME NEW k \in Conns, Checkout(k) PROVE TypeOK'
    BY <2>8 DEF Checkout
  <2>9. ASSUME NEW k \in Conns, Dies(k) PROVE TypeOK'
    BY <2>9 DEF Dies
  <2>10. CASE ModParam
    BY <2>10 DEF ModParam, Owners
  <2>11. CASE UNCHANGED vars
    BY <2>11 DEF vars
  <2> QED
    BY <2>1, <2>2, <2>3, <2>4, <2>5, <2>6, <2>7, <2>8, <2>9, <2>10, <2>11, <2>12
       DEF Next, Step
<1> QED
  BY <1>1, <1>2, PTL DEF Spec

-----------------------------------------------------------------------------
(* What SessionInv says of one connection.                                 *)
ConnInv(k) ==
  /\ callback[k] # "none" => InCall(k) /\ registered[k]
  /\ callback[k] \in {"lock", "altering"} => alive[k]
  /\ callback[k] = "altering" => pc[k] # "altering"
  /\ pc[k] \in {"register", "using"} /\ Served(k) => session[k] = oMap
  /\ pc[k] = "using" => registered[k]

(* A step on connection k, seen from connection j.                         *)
LEMMA StepConn ==
  ASSUME TypeOK, SessionInv, NEW k \in Conns, NEW j \in Conns,
         Step(k) \/ Checkout(k) \/ Checkin(k) \/ Dies(k)
  PROVE  ConnInv(j)'
<1> USE DEF TypeOK, SessionInv, ConnInv, Goto, CallbackTo, ext, bounds, InCall,
            Served
<1>1. CASE ServerVersion(k)
  BY <1>1 DEF ServerVersion
<1>2. CASE ServerVersionRaises(k)
  BY <1>2 DEF ServerVersionRaises
<1>3. CASE AlterBegins(k)
  BY <1>3 DEF AlterBegins
<1>4. CASE AlterSucceeds(k)
  BY <1>4 DEF AlterSucceeds, Altered
<1>5. CASE AlterRaises(k)
  BY <1>5 DEF AlterRaises
<1>6. CASE Register(k)
  BY <1>6 DEF Register
<1>7. CASE FailsOverUnnoticed(k)
  BY <1>7 DEF FailsOverUnnoticed
<1>8. CASE FailoverBegins(k)
  BY <1>8 DEF FailoverBegins
<1>9. CASE FailoverAborts(k)
  BY <1>9 DEF FailoverAborts
<1>10. CASE FailoverEnds(k)
  BY <1>10 DEF FailoverEnds
<1>11. CASE CallbackLocks(k)
  BY <1>11, NoneAssumption DEF CallbackLocks, Lock, MutexFollowsAltering
<1>12. CASE CallbackAlters(k)
  BY <1>12 DEF CallbackAlters, Altered
<1>16. CASE CallbackRaises(k)
  BY <1>16 DEF CallbackRaises
<1>13. CASE Checkout(k)
  BY <1>13 DEF Checkout
<1>14. CASE Checkin(k)
  BY <1>14 DEF Checkin
<1>15. CASE Dies(k)
  BY <1>15 DEF Dies
<1> QED
  BY <1>1, <1>2, <1>3, <1>4, <1>5, <1>6, <1>7, <1>8, <1>9, <1>10, <1>11,
     <1>12, <1>13, <1>14, <1>15, <1>16 DEF Step

(* A step on connection k leaves the mutex with whoever alters.            *)
LEMMA StepMutex ==
  ASSUME TypeOK, SessionInv, NEW k \in Conns,
         Step(k) \/ Checkout(k) \/ Checkin(k) \/ Dies(k)
  PROVE  MutexFollowsAltering'
<1> USE NoneAssumption
        DEF TypeOK, SessionInv, MutexFollowsAltering, Goto, CallbackTo, InCall
<1>1. CASE ServerVersion(k) \/ ServerVersionRaises(k) \/ Register(k)
  BY <1>1 DEF ServerVersion, ServerVersionRaises, Register
<1>2. CASE AlterBegins(k)
  BY <1>2 DEF AlterBegins, Lock
<1>3. CASE AlterSucceeds(k)
  BY <1>3 DEF AlterSucceeds, Altered, Served
<1>4. CASE AlterRaises(k)
  BY <1>4 DEF AlterRaises
<1>5. CASE FailsOverUnnoticed(k) \/ FailoverBegins(k) \/ FailoverEnds(k)
  BY <1>5 DEF FailsOverUnnoticed, FailoverBegins, FailoverEnds
<1>6. CASE FailoverAborts(k)
  BY <1>6 DEF FailoverAborts
<1>7. CASE CallbackLocks(k)
  BY <1>7 DEF CallbackLocks, Lock
<1>8. CASE CallbackAlters(k)
  BY <1>8 DEF CallbackAlters, Altered
<1>10. CASE CallbackRaises(k)
  BY <1>10 DEF CallbackRaises
<1>9. CASE Checkout(k) \/ Checkin(k) \/ Dies(k)
  BY <1>9 DEF Checkout, Checkin, Dies
<1> QED
  BY <1>1, <1>2, <1>3, <1>4, <1>5, <1>6, <1>7, <1>8, <1>9, <1>10 DEF Step

(* The inductive invariant of the sessions.                                *)
THEOREM InvariantHolds == Spec => []SessionInv
<1>1. Init => SessionInv
  BY NoneAssumption
     DEF Init, SessionInv, MutexFollowsAltering, InCall, Served
<1>2. TypeOK /\ SessionInv /\ [Next]_vars => SessionInv'
  <2> SUFFICES ASSUME TypeOK, SessionInv, [Next]_vars PROVE SessionInv'
    OBVIOUS
  <2>1. ASSUME NEW k \in Conns,
               Step(k) \/ Checkout(k) \/ Checkin(k) \/ Dies(k)
        PROVE  SessionInv'
    <3>1. MutexFollowsAltering'
      BY <2>1, StepMutex
    <3>2. ASSUME NEW j \in Conns PROVE ConnInv(j)'
      BY <2>1, StepConn
    <3> QED
      BY <3>1, <3>2 DEF SessionInv, ConnInv
  <2>2. CASE ModParam
    BY <2>2 DEF ModParam, SessionInv, MutexFollowsAltering, ext, InCall, Served
  <2>3. CASE UNCHANGED vars
    BY <2>3 DEF vars, ext, SessionInv, MutexFollowsAltering, InCall, Served
  <2> QED
    BY <2>1, <2>2, <2>3 DEF Next
<1> QED
  BY <1>1, <1>2, TypeCorrect, PTL DEF Spec

(* Every statement executes in a session that carries the parameters of    *)
(* its owner, across checkouts and failovers.                              *)
THEOREM ParametersInForce == Spec => []SessionCarriesParameters
<1>1. SessionInv => SessionCarriesParameters
  BY DEF SessionInv, SessionCarriesParameters
<1> QED
  BY <1>1, InvariantHolds, PTL

(* The mutex is never left behind, whatever raised.                        *)
THEOREM MutexIsReleased == Spec => []MutexFollowsAltering
<1>1. SessionInv => MutexFollowsAltering
  BY DEF SessionInv
<1> QED
  BY <1>1, InvariantHolds, PTL
=============================================================================
