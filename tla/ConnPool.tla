------------------------------ MODULE ConnPool ------------------------------
(***************************************************************************)
(* cSvcDedicatedPool of lib/sql/occi/cSvc.cpp: iNumConn database           *)
(* connections, a semaphore with as many permits, and the statements that  *)
(* borrow a connection when they execute (oGetCon) and return it when they *)
(* have fetched their last row (vRelCon, called by cConnDeleter).          *)
(*                                                                         *)
(* oGetCon is three steps - vWait, oPop, vCheckout - and vRelCon two -     *)
(* vPush, vNotify - each under a mutex of its own or under none, so all    *)
(* the clients interleave between them.  vCheckout is the round trip to    *)
(* the server: it succeeds, or it raises and then neither the connection   *)
(* nor the permit is given back.                                           *)
(***************************************************************************)
EXTENDS Naturals, Sequences, FiniteSets

CONSTANTS
  iNumConn,    (* The number of connections, and of permits.               *)
  Clients      (* The statements; each executes once.                      *)

ASSUME NumConnAssumption == iNumConn \in Nat \ {0}
ASSUME ClientsAssumption == IsFiniteSet(Clients)

Conns == 1..iNumConn
Nobody == 0

VARIABLES
  count_, sleeping,   (* The semaphore the service inherits from.          *)
  cont_,              (* pool_: the connections at rest.                   *)
  client,             (* Where each client is.                             *)
  conn                (* The connection each client has taken out.         *)

semVars == <<count_, sleeping>>
vars == <<semVars, cont_, client, conn>>

sem == INSTANCE Semaphore

(* Nobody ever waits in oPop: see PermitGuaranteesConnection.              *)
pool_ == INSTANCE Pool WITH waiting <- {}

In(state) == {c \in Clients : client[c] = state}

Move(c, from, to) ==
  /\ client[c] = from
  /\ client' = [client EXCEPT ![c] = to]

-----------------------------------------------------------------------------
Init ==
  /\ sem!SemInit(iNumConn)
  /\ pool_!PoolInit([i \in Conns |-> i])
  /\ client = [c \in Clients |-> "idle"]
  /\ conn = [c \in Clients |-> Nobody]

(* oGetCon: vWait() ...                                                    *)
GetPermit(c) ==
  /\ Move(c, "idle", "permitted")
  /\ sem!vWait(c)
  /\ UNCHANGED <<cont_, conn>>

GetPermitBlocks(c) ==
  /\ client[c] = "idle"
  /\ sem!vWaitBlocks(c)
  /\ UNCHANGED <<cont_, client, conn>>

(* Fault: the connection is looked up and stays in the pool.               *)
PopConnCopies(c) ==
  /\ Move(c, "permitted", "checkout")
  /\ pool_!oPopPeeks(c)
  /\ conn' = [conn EXCEPT ![c] = pool_!Top]
  /\ UNCHANGED semVars

(* ... conn_ = pool_.oPop() ...                                            *)
PopConn(c) ==
  /\ Move(c, "permitted", "checkout")
  /\ pool_!oPop(c)
  /\ conn' = [conn EXCEPT ![c] = pool_!Top]
  /\ UNCHANGED semVars

(* ... and oFailover_.vCheckout(conn_).                                    *)
CheckoutSucceeds(c) ==
  /\ Move(c, "checkout", "using")
  /\ UNCHANGED <<semVars, cont_, conn>>

(* vCheckout raises out of oGetCon: no unique_ptr holds the connection.    *)
CheckoutRaises(c) ==
  /\ Move(c, "checkout", "failed")
  /\ UNCHANGED <<semVars, cont_, conn>>

(* Fault: the permit is announced before the connection is in the pool.    *)
PushConnLate(c) ==
  /\ Move(c, "using", "pushed")
  /\ sem!vNotify
  /\ UNCHANGED <<cont_, conn>>

(* vRelCon: pool_.vPush(conn) ...                                          *)
PushConn(c) ==
  /\ Move(c, "using", "pushed")
  /\ pool_!vPush(conn[c])
  /\ conn' = [conn EXCEPT ![c] = Nobody]
  /\ UNCHANGED semVars

(* ... and vNotify().                                                      *)
GivePermit(c) ==
  /\ Move(c, "pushed", "done")
  /\ sem!vNotify
  /\ UNCHANGED <<cont_, conn>>

Client(c) ==
  \/ GetPermit(c) \/ GetPermitBlocks(c) \/ PopConn(c)
  \/ CheckoutSucceeds(c) \/ CheckoutRaises(c)
  \/ PushConn(c) \/ GivePermit(c)

Next == \E c \in Clients : Client(c)

(* Every thread runs, and every call of the database ends.                 *)
Fairness == \A c \in Clients : WF_vars(Client(c))

Spec == Init /\ [][Next]_vars
FairSpec == Spec /\ Fairness

-----------------------------------------------------------------------------
(* Properties.                                                             *)

(* The states the service's variables range over; a client that has not    *)
(* come to oPop, or has given its connection back, has none.               *)
LoanTypes ==
  /\ count_ \in Nat
  /\ sleeping \in SUBSET In("idle")
  /\ cont_ \in Seq(Conns)
  /\ client \in [Clients -> {"idle", "permitted", "checkout", "using",
                             "pushed", "done", "failed"}]
  /\ conn \in [Clients -> Conns \cup {Nobody}]
  /\ \A c \in Clients :
       /\ conn[c] # Nobody => client[c] \in {"checkout", "using", "failed"}
       /\ client[c] \in {"checkout", "using"} => conn[c] # Nobody

(* A client that has failed keeps the connection it failed with.           *)
TypeOK ==
  /\ LoanTypes
  /\ \A c \in Clients : client[c] = "failed" => conn[c] # Nobody

(* A client that has got its permit finds a connection in the pool: the    *)
(* wait inside oPop, which no semaphore would ever end, is never entered,  *)
(* however the steps of borrowing and returning clients interleave.        *)
PermitGuaranteesConnection == In("permitted") # {} => cont_ # <<>>

(* Two statements never share a connection, and a connection at rest       *)
(* belongs to nobody: an OCI connection serves one call at a time.         *)
ExclusiveConnections ==
  /\ \A c, d \in Clients : conn[c] = conn[d] /\ conn[c] # Nobody => c = d
  /\ \A i, j \in DOMAIN cont_ : cont_[i] = cont_[j] => i = j
  /\ \A c \in Clients : \A i \in DOMAIN cont_ : cont_[i] # conn[c]

(* The permits follow the connections: those not taken, those on their way *)
(* to oPop and those whose connection is already back are all in the pool. *)
(* A failed checkout therefore costs one permit and one connection.        *)
PermitsMatchConnections ==
  Len(cont_) = count_ + Cardinality(In("permitted"))
                      + Cardinality(In("pushed"))

(* notify_one is enough: as long as someone sleeps, every free permit has  *)
(* an awake client that is about to test the count.                        *)
NoLostWakeUp ==
  sleeping # {} => count_ <= Cardinality(In("idle") \ sleeping)

(* The dedicated pool implements the lending of connections; a borrowed    *)
(* connection is lent from oPop to vPush.                                  *)
Lending == INSTANCE Lease WITH lent <- conn

LendingSpec == Lending!LeaseSpec

ConnPoolInv ==
  /\ ExclusiveConnections
  /\ PermitsMatchConnections
  /\ NoLostWakeUp
=============================================================================
