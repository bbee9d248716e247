------------------------------ MODULE Failover ------------------------------
(***************************************************************************)
(* cFailover of lib/sql/occi/cFailover.cpp: the session parameters of the  *)
(* dedicated connections.  A connection that is checked out is pinged,     *)
(* altered (alter session set ...) under mtx_ and given the TAF callback;  *)
(* when the server side of a connection dies the next call on it fails     *)
(* over inside the client library, which runs the callback in the thread   *)
(* of that call before the call goes on, and the callback alters the new   *)
(* session under the same mtx_.                                            *)
(*                                                                         *)
(* A parameter, here CURRENT_SCHEMA, changes between two vSynchronize of   *)
(* cQuery::vExpData, when every task has been joined.  A connection        *)
(* belongs to one thread at a time (ConnPool), so threads are identified   *)
(* with the connections they use.  What the library and the server do is   *)
(* external: a session dies at any moment but inside the callback, and a   *)
(* failover ends, or is aborted after the retries of FO_ERROR.             *)
(***************************************************************************)
EXTENDS Naturals, FiniteSets

CONSTANTS
  Conns,         (* The connections.                                       *)
  NumOwners,     (* The schemas vExpData goes through.                     *)
  MaxCheckouts,  (* Bound: the statements that execute.                    *)
  MaxDeaths      (* Bound: how often a session dies.                       *)

ASSUME FailoverAssumption ==
  /\ NumOwners \in Nat \ {0}
  /\ MaxCheckouts \in Nat
  /\ MaxDeaths \in Nat

CONSTANT None
ASSUME NoneAssumption == None \notin Conns

Fresh == 0    (* The parameters of a session nobody has altered.           *)

VARIABLES
  oMap,         (* The value of the session parameter to be set.           *)
  oHistMap,     (* Which connections have been altered already.            *)
  mtx_,         (* Who holds the mutex of cFailover.                       *)
  pc,           (* Where the thread using each connection is.              *)
  callback,     (* Where the TAF callback of each connection is.           *)
  registered,   (* Which connections have the callback.                    *)
  alive,        (* External: which connections have a server session ...   *)
  session,      (* ... and the parameter in force in it.                   *)
  checkouts, deaths

ext == <<alive, session>>
bounds == <<checkouts, deaths>>
vars == <<oMap, oHistMap, mtx_, pc, callback, registered, ext, bounds>>

Owners == 1..NumOwners

Init ==
  /\ oMap = 1
  /\ oHistMap = [k \in Conns |-> FALSE]
  /\ mtx_ = None
  /\ pc = [k \in Conns |-> "rest"]
  /\ callback = [k \in Conns |-> "none"]
  /\ registered = [k \in Conns |-> FALSE]
  /\ alive = [k \in Conns |-> TRUE]
  /\ session = [k \in Conns |-> Fresh]
  /\ checkouts = 0
  /\ deaths = 0

Goto(k, to) == pc' = [pc EXCEPT ![k] = to]
CallbackTo(k, to) == callback' = [callback EXCEPT ![k] = to]

(* A call of the database that goes through: no callback is under way.     *)
Served(k) == alive[k] /\ callback[k] = "none"

-----------------------------------------------------------------------------
(* vAlterSession, of the checkout and of the callback.                     *)

Lock(k) == mtx_ = None /\ mtx_' = k

(* The statement has been executed on the server.                          *)
Altered(k) ==
  /\ session' = [session EXCEPT ![k] = oMap]
  /\ oHistMap' = [oHistMap EXCEPT ![k] = TRUE]
  /\ mtx_' = None

-----------------------------------------------------------------------------
(* vCheckout.                                                              *)

(* A thread has popped the connection and calls vCheckout.                 *)
Checkout(k) ==
  /\ pc[k] = "rest"
  /\ checkouts < MaxCheckouts
  /\ checkouts' = checkouts + 1
  /\ Goto(k, "version")
  /\ UNCHANGED <<oMap, oHistMap, mtx_, callback, registered, ext, deaths>>

(* getServerVersion returned, or raised one of the ignored errors.         *)
ServerVersion(k) ==
  /\ pc[k] = "version"
  /\ Served(k)
  /\ Goto(k, "lock")
  /\ UNCHANGED <<oMap, oHistMap, mtx_, callback, registered, ext, bounds>>

(* It raised another error: vCheckout raises, the connection is lost.      *)
ServerVersionRaises(k) ==
  /\ pc[k] = "version"
  /\ callback[k] = "none"
  /\ Goto(k, "failed")
  /\ UNCHANGED <<oMap, oHistMap, mtx_, callback, registered, ext, bounds>>

(* Fault: a connection that has been altered once is not altered again.    *)
AlterBeginsOnce(k) ==
  /\ pc[k] = "lock"
  /\ mtx_ = None
  /\ mtx_' = IF oHistMap[k] THEN None ELSE k
  /\ Goto(k, IF oHistMap[k] THEN "register" ELSE "altering")
  /\ UNCHANGED <<oMap, oHistMap, callback, registered, ext, bounds>>

(* vAlterSession(conn, true) gets the mutex; iForce voids the history, so  *)
(* its early return is never taken.                                        *)
AlterBegins(k) ==
  /\ pc[k] = "lock"
  /\ Lock(k)
  /\ oHistMap' = [oHistMap EXCEPT ![k] = FALSE]
  /\ Goto(k, "altering")
  /\ UNCHANGED <<oMap, callback, registered, ext, bounds>>

AlterSucceeds(k) ==
  /\ pc[k] = "altering"
  /\ Served(k)
  /\ Altered(k)
  /\ Goto(k, "register")
  /\ UNCHANGED <<oMap, callback, registered, alive, bounds>>

(* Fault: the mutex is not released by the exception.                      *)
AlterRaisesLocked(k) ==
  /\ pc[k] = "altering"
  /\ callback[k] = "none"
  /\ Goto(k, "failed")
  /\ UNCHANGED <<oMap, oHistMap, mtx_, callback, registered, ext, bounds>>

(* alter session is not replayed: it raises, the guard unlocks.            *)
AlterRaises(k) ==
  /\ pc[k] = "altering"
  /\ callback[k] = "none"
  /\ mtx_' = None
  /\ Goto(k, "failed")
  /\ UNCHANGED <<oMap, oHistMap, callback, registered, ext, bounds>>

(* conn->setTAFNotify.                                                     *)
Register(k) ==
  /\ pc[k] = "register"
  /\ registered' = [registered EXCEPT ![k] = TRUE]
  /\ Goto(k, "using")
  /\ UNCHANGED <<oMap, oHistMap, mtx_, callback, ext, bounds>>

(* vCheckin, which does nothing: the connection goes back to the pool.     *)
Checkin(k) ==
  /\ pc[k] = "using"
  /\ callback[k] = "none"
  /\ Goto(k, "rest")
  /\ UNCHANGED <<oMap, oHistMap, mtx_, callback, registered, ext, bounds>>

-----------------------------------------------------------------------------
(* The server and the client library.                                      *)

InCall(k) == pc[k] \in {"version", "altering", "using"}

(* Instance or process failure; noticed by the next call.                  *)
Dies(k) ==
  /\ alive[k]
  /\ callback[k] = "none"
  /\ deaths < MaxDeaths
  /\ deaths' = deaths + 1
  /\ alive' = [alive EXCEPT ![k] = FALSE]
  /\ UNCHANGED <<oMap, oHistMap, mtx_, pc, callback, registered, session,
                 checkouts>>

(* Before setTAFNotify the ping fails over without a callback.             *)
FailsOverUnnoticed(k) ==
  /\ pc[k] = "version"
  /\ ~alive[k]
  /\ ~registered[k]
  /\ alive' = [alive EXCEPT ![k] = TRUE]
  /\ session' = [session EXCEPT ![k] = Fresh]
  /\ UNCHANGED <<oMap, oHistMap, mtx_, pc, callback, registered, bounds>>

(* iTafEventHandler: FO_BEGIN ...                                          *)
FailoverBegins(k) ==
  /\ InCall(k)
  /\ ~alive[k]
  /\ registered[k]
  /\ callback[k] = "none"
  /\ CallbackTo(k, "waiting")
  /\ UNCHANGED <<oMap, oHistMap, mtx_, pc, registered, ext, bounds>>

(* ... FO_ABORT: the call raises and its connection is lost, or, when it   *)
(* was in use, is given back ...                                           *)
FailoverAborts(k) ==
  /\ callback[k] = "waiting"
  /\ CallbackTo(k, "none")
  /\ Goto(k, IF pc[k] = "using" THEN "rest" ELSE "failed")
  /\ mtx_' = IF pc[k] = "altering" THEN None ELSE mtx_
  /\ UNCHANGED <<oMap, oHistMap, registered, ext, bounds>>

(* Fault: the callback does not alter the new session.                     *)
FailoverEndsOnly(k) ==
  /\ callback[k] = "waiting"
  /\ alive' = [alive EXCEPT ![k] = TRUE]
  /\ session' = [session EXCEPT ![k] = Fresh]
  /\ CallbackTo(k, "none")
  /\ UNCHANGED <<oMap, oHistMap, mtx_, pc, registered, bounds>>

(* ... or FO_END and FO_REAUTH: me->vAlterSession(conn, true) ...          *)
FailoverEnds(k) ==
  /\ callback[k] = "waiting"
  /\ alive' = [alive EXCEPT ![k] = TRUE]
  /\ session' = [session EXCEPT ![k] = Fresh]
  /\ CallbackTo(k, "lock")
  /\ UNCHANGED <<oMap, oHistMap, mtx_, pc, registered, bounds>>

CallbackLocks(k) ==
  /\ callback[k] = "lock"
  /\ Lock(k)
  /\ oHistMap' = [oHistMap EXCEPT ![k] = FALSE]
  /\ CallbackTo(k, "altering")
  /\ UNCHANGED <<oMap, pc, registered, ext, bounds>>

(* ... and the interrupted call resumes.                                   *)
CallbackAlters(k) ==
  /\ callback[k] = "altering"
  /\ Altered(k)
  /\ CallbackTo(k, "none")
  /\ UNCHANGED <<oMap, pc, registered, alive, bounds>>

(* ... or the callback's alter raises: the guard unlocks, and the exception*)
(* leaves the interrupted call (if the library does not let it pass, the   *)
(* program ends).                                                          *)
CallbackRaises(k) ==
  /\ callback[k] = "altering"
  /\ mtx_' = None
  /\ CallbackTo(k, "none")
  /\ Goto(k, IF pc[k] = "using" THEN "rest" ELSE "failed")
  /\ UNCHANGED <<oMap, oHistMap, registered, ext, bounds>>

(* vExpData calls vAlterCurrent, which calls vModParam, for the next owner *)
(* when vSynchronize has joined the tasks of the last one.                 *)
ModParam ==
  /\ \A k \in Conns : pc[k] \in {"rest", "failed"}
  /\ oMap < NumOwners
  /\ oMap' = oMap + 1
  /\ UNCHANGED <<oHistMap, mtx_, pc, callback, registered, ext, bounds>>

(* The steps that go on by themselves once a checkout has begun.           *)
Step(k) ==
  \/ ServerVersion(k) \/ ServerVersionRaises(k)
  \/ AlterBegins(k) \/ AlterSucceeds(k) \/ AlterRaises(k)
  \/ Register(k)
  \/ FailsOverUnnoticed(k) \/ FailoverBegins(k)
  \/ FailoverAborts(k) \/ FailoverEnds(k)
  \/ CallbackLocks(k) \/ CallbackAlters(k) \/ CallbackRaises(k)

Next ==
  \/ \E k \in Conns : Step(k) \/ Checkout(k) \/ Checkin(k) \/ Dies(k)
  \/ ModParam

(* Threads run, and the library and the server answer.                     *)
Fairness == \A k \in Conns : WF_vars(Step(k))

Spec == Init /\ [][Next]_vars
FairSpec == Spec /\ Fairness

-----------------------------------------------------------------------------
(* Properties.                                                             *)

(* The states the failover's variables range over.                         *)
TypeOK ==
  /\ oMap \in Owners
  /\ oHistMap \in [Conns -> BOOLEAN]
  /\ mtx_ \in Conns \cup {None}
  /\ pc \in [Conns -> {"rest", "version", "lock", "altering", "register",
                       "using", "failed"}]
  /\ callback \in [Conns -> {"none", "waiting", "lock", "altering"}]
  /\ registered \in [Conns -> BOOLEAN]
  /\ alive \in [Conns -> BOOLEAN]
  /\ session \in [Conns -> Owners \cup {Fresh}]
  /\ checkouts \in 0..MaxCheckouts
  /\ deaths \in 0..MaxDeaths

(* A statement only ever executes in the schema (and with the masks) that  *)
(* its task was queued for: a connection that was last used for another    *)
(* owner, or that has failed over since, is altered before a call returns. *)
SessionCarriesParameters ==
  \A k \in Conns : pc[k] = "using" /\ Served(k) => session[k] = oMap

(* The mutex is held by exactly the thread that alters a session, in the   *)
(* checkout or in the callback, also after either raised.                  *)
MutexFollowsAltering ==
  \A k \in Conns : mtx_ = k <=> pc[k] = "altering" \/ callback[k] = "altering"

(* A thread whose callback waits for the mutex its own checkout holds.     *)
SelfLocked(k) == pc[k] = "altering" /\ callback[k] = "lock"

(* A checkout ends, with the connection or an error, unless some thread    *)
(* has locked itself out.                                                  *)
CheckoutEndsOrSelfLock ==
  \A k \in Conns :
    pc[k] = "version"
      ~> pc[k] \in {"using", "failed"} \/ \E j \in Conns : SelfLocked(j)

(* Behind SessionCarriesParameters: what a checkout and a callback have    *)
(* achieved so far.                                                        *)
SessionInv ==
  /\ MutexFollowsAltering
  /\ \A k \in Conns :
       /\ callback[k] # "none" => InCall(k) /\ registered[k]
       /\ callback[k] \in {"lock", "altering"} => alive[k]
       /\ callback[k] = "altering" => pc[k] # "altering"
       /\ pc[k] \in {"register", "using"} /\ Served(k) => session[k] = oMap
       /\ pc[k] = "using" => registered[k]
=============================================================================
