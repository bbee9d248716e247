------------------------------ MODULE Services ------------------------------
(***************************************************************************)
(* The connection services of lib/sql/occi/cSvc.cpp around ConnPool:       *)
(* oMakeSvc makes one of three, the caller asks it for the version of the  *)
(* server, and the statements borrow connections from it.                  *)
(*                                                                         *)
(*   iDedicated  cSvcDedicatedPool: environments and connections are made  *)
(*               one by one, and lent as ConnPool shows;                   *)
(*   iShared     cSvcPooling: a pool of the client library, from which a   *)
(*               connection is created for each loan and terminated after  *)
(*               it, under a semaphore like that of the dedicated pool;    *)
(*   iNormal     cSvcNormal: one connection that everybody uses; nothing   *)
(*               is lent and nobody waits.                                 *)
(*                                                                         *)
(* The pool of the library is external: it has iNumConn connections at     *)
(* most, which are cont_ as long as no loan uses them; making one may fail,*)
(* and so may terminating it, from a deleter that must not raise.          *)
(***************************************************************************)
EXTENDS ConnPool

CONSTANTS
  Boot,         (* The caller of oMakeSvc, a client before all others.     *)
  iMinConn,     (* Connections a shared pool begins with.                  *)
  Banners       (* What a server may answer: the releases in its banner.   *)

ASSUME BootAssumption == Boot \in Clients
ASSUME MinConnAssumption == iMinConn \in 0..iNumConn
ASSUME BannerAssumption == \A b \in Banners : b \in Seq(STRING) /\ b # <<>>

Unknown == ""
Types == {"iDedicated", "iShared", "iNormal"}

VARIABLES
  type,         (* iTypeOfPool.                                            *)
  phase,        (* How far the service is made, or what became of it.      *)
  env_vct_,     (* Environments made; the member that holds them.          *)
  conn_,        (* Connections made.                                       *)
  db_version    (* The release of the server, Unknown before it was asked. *)

service == <<type, phase, env_vct_, conn_, db_version>>
allVars == <<service, vars>>

ServicesInit ==
  /\ Init
  /\ type \in Types
  /\ phase = "env"
  /\ env_vct_ = 0
  /\ conn_ = 0
  /\ db_version = Unknown

-----------------------------------------------------------------------------
(* oMakeSvc.                                                               *)

BuildEnv ==
  /\ phase = "env" /\ type = "iDedicated"
  /\ env_vct_' = env_vct_ + 1
  /\ phase' = IF env_vct_' = iNumConn THEN "conn" ELSE phase
  /\ UNCHANGED <<type, conn_, db_version, vars>>

BuildConn ==
  /\ phase = "conn"
  /\ conn_' = conn_ + 1
  /\ phase' = IF conn_' = iNumConn THEN "boot" ELSE phase
  /\ UNCHANGED <<type, env_vct_, db_version, vars>>

(* One environment, and the pool with its first connections.               *)
MakeShared ==
  /\ phase = "env" /\ type = "iShared"
  /\ env_vct_' = 1
  /\ conn_' = iMinConn
  /\ phase' = "boot"
  /\ UNCHANGED <<type, db_version, vars>>

MakeNormal ==
  /\ phase = "env" /\ type = "iNormal"
  /\ env_vct_' = 1
  /\ conn_' = 1
  /\ phase' = "boot"
  /\ UNCHANGED <<type, db_version, vars>>

(* The environments that have been made take their connections with them.  *)
MakeRaises ==
  /\ phase \in {"env", "conn"}
  /\ phase' = "raised"
  /\ env_vct_' = 0
  /\ conn_' = 0
  /\ UNCHANGED <<type, db_version, vars>>

-----------------------------------------------------------------------------
(* oGetCon and vRelCon of the two services that ConnPool does not have.    *)

(* pool_->createConnection raises, and the permit stays away.              *)
CreateRaises(c) ==
  /\ Move(c, "permitted", "failed")
  /\ UNCHANGED <<service, semVars, cont_, conn>>

(* pool_->terminateConnection raises out of the deleter of a connection.   *)
TerminateRaises(c) ==
  /\ client[c] = "using"
  /\ phase' = "terminated"
  /\ UNCHANGED <<type, env_vct_, conn_, db_version, vars>>

Shared(c) ==
  /\ type = "iShared"
  /\ \/ Client(c) /\ UNCHANGED service
     \/ CreateRaises(c)
     \/ TerminateRaises(c)

Dedicated(c) ==
  /\ type = "iDedicated"
  /\ Client(c)
  /\ UNCHANGED service

NormalGetCon(c) ==
  /\ type = "iNormal"
  /\ Move(c, "idle", "checkout")
  /\ UNCHANGED <<service, semVars, cont_, conn>>

NormalCheckout(c) ==
  /\ type = "iNormal"
  /\ CheckoutSucceeds(c) \/ CheckoutRaises(c)
  /\ UNCHANGED service

NormalRelCon(c) ==
  /\ type = "iNormal"
  /\ Move(c, "using", "done")
  /\ UNCHANGED <<service, semVars, cont_, conn>>

Borrower(c) ==
  \/ Dedicated(c) \/ Shared(c)
  \/ NormalGetCon(c) \/ NormalCheckout(c) \/ NormalRelCon(c)

(* The first release that the banner names: later servers name two.        *)
vSetDbVersion(banner) == db_version' = Head(banner)

(* vShowServerVersion; iNormal asks its connection without a checkout.     *)
ShowVersion ==
  /\ phase = "boot"
  /\ client[Boot] = IF type = "iNormal" THEN "idle" ELSE "using"
  /\ db_version = Unknown
  /\ \E banner \in Banners : vSetDbVersion(banner)
  /\ UNCHANGED <<type, phase, env_vct_, conn_, vars>>

(* The server does not answer: the loan ends, and the exception goes on.   *)
ShowVersionRaises ==
  /\ phase = "boot"
  /\ client[Boot] = IF type = "iNormal" THEN "idle" ELSE "using"
  /\ db_version = Unknown
  /\ phase' = "raising"
  /\ UNCHANGED <<type, env_vct_, conn_, db_version, vars>>

BootBorrows ==
  /\ \/ phase = "boot" /\ type # "iNormal" /\ (client[Boot] = "using" => db_version # Unknown)
     \/ phase = "raising" /\ client[Boot] # "done"
  /\ Borrower(Boot)

(* The statements begin when the version is known and its loan is over.    *)
BootEnds ==
  /\ phase = "boot"
  /\ IF type = "iNormal" THEN db_version # Unknown ELSE client[Boot] = "done"
  /\ phase' = "used"
  /\ UNCHANGED <<type, env_vct_, conn_, db_version, vars>>

BootRaises ==
  /\ \/ phase = "boot" /\ client[Boot] = "failed"
     \/ phase = "raising" /\ (type # "iNormal" => client[Boot] = "done")
  /\ phase' = "raised"
  /\ env_vct_' = 0
  /\ conn_' = 0
  /\ UNCHANGED <<type, db_version, vars>>

Making ==
  \/ BuildEnv \/ BuildConn \/ MakeShared \/ MakeNormal \/ MakeRaises
  \/ ShowVersion \/ ShowVersionRaises \/ BootBorrows \/ BootEnds \/ BootRaises

Statement(c) ==
  /\ phase = "used"
  /\ c # Boot
  /\ Borrower(c)

ServicesNext == Making \/ \E c \in Clients : Statement(c)

ServicesSpec ==
  /\ ServicesInit /\ [][ServicesNext]_allVars
  /\ WF_allVars(Making)
  /\ \A c \in Clients : WF_allVars(Statement(c))

-----------------------------------------------------------------------------
(* Properties.                                                             *)

(* Whoever waits is served or gets an error, the service is not made, or   *)
(* failures have eaten all of its permits.                                 *)
EveryLoanEnds ==
  <>(\/ phase \in {"raised", "terminated"}
     \/ \A c \in Clients \ {Boot} : client[c] \in {"done", "failed"}
     \/ type # "iNormal" /\ Cardinality(In("failed")) = iNumConn)

-----------------------------------------------------------------------------
(* The inductive invariant of the three services.                          *)

(* A connection that could not be created stays in the pool of the library *)
(* without a permit.                                                       *)
Surplus ==
  Len(cont_) - (count_ + Cardinality(In("permitted")) + Cardinality(In("pushed")))

PooledInv ==
  /\ LoanTypes
  /\ ExclusiveConnections
  /\ Surplus \in Nat
  /\ NoLostWakeUp

(* Nothing is lent by iNormal.                                             *)
NormalInv ==
  /\ client \in [Clients -> {"idle", "checkout", "using", "done", "failed"}]
  /\ conn = [c \in Clients |-> Nobody]
  /\ sleeping = {}
  /\ ExclusiveConnections

ServicesInv ==
  /\ type \in Types
  /\ IF type = "iNormal" THEN NormalInv ELSE PooledInv
=============================================================================
