--------------------------- MODULE ConnPoolProofs ---------------------------
(***************************************************************************)
(* Theorems about ConnPool, and about the three services around it, for    *)
(* every number of connections and every finite set of statements.         *)
(***************************************************************************)
EXTENDS Services, FiniteSetTheorems, TLAPS

(* A client that moves leaves one state for another.                       *)
LEMMA MoveSets ==
  ASSUME LoanTypes, NEW c \in Clients, NEW from, NEW to, from # to,
         Move(c, from, to)
  PROVE  /\ c \in In(from) /\ In(from)' = In(from) \ {c}
         /\ c \notin In(to) /\ In(to)' = In(to) \cup {c}
         /\ \A state : state \notin {from, to} => In(state)' = In(state)
<1> USE DEF LoanTypes, Move, In
<1>1. c \in In(from) /\ c \notin In(to)
  OBVIOUS
<1>2. \A d \in Clients : client'[d] = IF d = c THEN to ELSE client[d]
  OBVIOUS
<1> QED
  BY <1>1, <1>2

(* Counting the clients of a state.                                        *)
LEMMA Counting ==
  ASSUME NEW state
  PROVE  /\ IsFiniteSet(In(state)) /\ Cardinality(In(state)) \in Nat
         /\ \A c \in In(state) :
              Cardinality(In(state) \ {c}) = Cardinality(In(state)) - 1
         /\ \A c : c \notin In(state) =>
              Cardinality(In(state) \cup {c}) = Cardinality(In(state)) + 1
<1>1. IsFiniteSet(In(state))
  BY ClientsAssumption, FS_Subset DEF In
<1> QED
  BY <1>1, FS_CardinalityType, FS_RemoveElement, FS_AddElement

(* Every step keeps the types.                                             *)
LEMMA StepTypes == LoanTypes /\ [Next]_vars => LoanTypes'
<1> SUFFICES ASSUME LoanTypes, [Next]_vars PROVE LoanTypes'
  OBVIOUS
<1> USE DEF LoanTypes, In, semVars
<1>1. ASSUME NEW c \in Clients, GetPermit(c) PROVE LoanTypes'
  BY <1>1 DEF GetPermit, Move, sem!vWait
<1>2. ASSUME NEW c \in Clients, GetPermitBlocks(c) PROVE LoanTypes'
  BY <1>2 DEF GetPermitBlocks, sem!vWaitBlocks
<1>3. ASSUME NEW c \in Clients, PopConn(c) PROVE LoanTypes'
  <2>1. Len(cont_) \in Nat \ {0} /\ pool_!Top \in Conns
    BY <1>3 DEF PopConn, pool_!oPop, pool_!Top
  <2>2. SubSeq(cont_, 1, Len(cont_) - 1) \in Seq(Conns)
    BY <2>1
  <2>3. pool_!Top # Nobody
    BY <2>1 DEF Nobody, Conns
  <2>4. cont_' \in Seq(Conns) /\ conn' = [conn EXCEPT ![c] = pool_!Top]
    BY <1>3, <2>2 DEF PopConn, pool_!oPop
  <2> QED
    BY <1>3, <2>1, <2>3, <2>4 DEF PopConn, Move
<1>4. ASSUME NEW c \in Clients, CheckoutSucceeds(c) \/ CheckoutRaises(c)
      PROVE  LoanTypes'
  BY <1>4 DEF CheckoutSucceeds, CheckoutRaises, Move
<1>5. ASSUME NEW c \in Clients, PushConn(c) PROVE LoanTypes'
  <2>1. conn[c] \in Conns
    BY <1>5 DEF PushConn, Move
  <2>2. cont_' \in Seq(Conns) /\ conn' = [conn EXCEPT ![c] = Nobody]
    BY <1>5, <2>1 DEF PushConn, pool_!vPush
  <2> QED
    BY <1>5, <2>2 DEF PushConn, Move
<1>6. ASSUME NEW c \in Clients, GivePermit(c) PROVE LoanTypes'
  BY <1>6 DEF GivePermit, Move, sem!vNotify
<1>7. CASE UNCHANGED vars
  BY <1>7 DEF vars
<1> QED
  BY <1>1, <1>2, <1>3, <1>4, <1>5, <1>6, <1>7 DEF Next, Client

LEMMA InitTypes == Init => LoanTypes
  BY NumConnAssumption
     DEF Init, LoanTypes, In, sem!SemInit, pool_!PoolInit, Conns, Nobody

(* Type correctness of the service's state.                                *)
THEOREM TypeCorrect == Spec => []TypeOK
<1>1. Init => TypeOK
  BY InitTypes DEF Init, TypeOK
<1>2. TypeOK /\ [Next]_vars => TypeOK'
  <2> SUFFICES ASSUME TypeOK, [Next]_vars, NEW c \in Clients,
                      client'[c] = "failed"
               PROVE  conn'[c] # Nobody
    BY StepTypes DEF TypeOK
  <2> USE DEF TypeOK, LoanTypes
  <2>1. ASSUME NEW d \in Clients, Client(d) PROVE conn'[c] # Nobody
    <3>1. CASE PopConn(d) \/ PushConn(d)
      BY <3>1 DEF PopConn, PushConn, Move
    <3>2. CASE \/ GetPermit(d) \/ GetPermitBlocks(d) \/ CheckoutSucceeds(d)
               \/ CheckoutRaises(d) \/ GivePermit(d)
      BY <3>2 DEF GetPermit, GetPermitBlocks, CheckoutSucceeds, CheckoutRaises,
         GivePermit, Move
    <3> QED
      BY <2>1, <3>1, <3>2 DEF Client
  <2>2. CASE UNCHANGED vars
    BY <2>2 DEF vars
  <2> QED
    BY <2>1, <2>2 DEF Next
<1> QED
  BY <1>1, <1>2, PTL DEF Spec

-----------------------------------------------------------------------------
(* The connection at the top of the pool goes to one client.               *)
LEMMA PopExclusive ==
  ASSUME LoanTypes, ExclusiveConnections, NEW c \in Clients, PopConn(c)
  PROVE  ExclusiveConnections'
<1> DEFINE n == Len(cont_)
<1>1. n \in Nat \ {0} /\ cont_ \in Seq(Conns) /\ DOMAIN cont_ = 1..n
  BY DEF LoanTypes, PopConn, pool_!oPop
<1>2. DOMAIN cont_' = 1..(n - 1) /\ \A i \in 1..(n - 1) : cont_'[i] = cont_[i]
  BY <1>1 DEF PopConn, pool_!oPop
<1>3. cont_[n] \in Conns /\ conn' = [conn EXCEPT ![c] = cont_[n]]
  BY <1>1 DEF PopConn, pool_!Top
<1>4. \A d \in Clients : conn'[d] = IF d = c THEN cont_[n] ELSE conn[d]
  BY <1>3 DEF LoanTypes
<1>5. \A i, j \in DOMAIN cont_' : cont_'[i] = cont_'[j] => i = j
  BY <1>1, <1>2 DEF ExclusiveConnections
<1>6. \A d \in Clients : conn[d] # cont_[n]
  BY <1>1 DEF ExclusiveConnections
<1>7. \A d, e \in Clients : conn'[d] = conn'[e] /\ conn'[d] # Nobody => d = e
  BY <1>4, <1>6 DEF ExclusiveConnections
<1>8. \A d \in Clients : \A i \in DOMAIN cont_' : cont_'[i] # conn'[d]
  BY <1>1, <1>2, <1>4 DEF ExclusiveConnections
<1> QED
  BY <1>5, <1>7, <1>8 DEF ExclusiveConnections

(* A connection that is pushed back has left its client.                   *)
LEMMA PushExclusive ==
  ASSUME LoanTypes, ExclusiveConnections, NEW c \in Clients, PushConn(c)
  PROVE  ExclusiveConnections'
<1> DEFINE n == Len(cont_)
<1>1. /\ n \in Nat /\ cont_ \in Seq(Conns) /\ DOMAIN cont_ = 1..n
      /\ conn[c] \in Conns
  BY DEF LoanTypes, PushConn, Move
<1>2. /\ DOMAIN cont_' = 1..(n + 1) /\ cont_'[n + 1] = conn[c]
      /\ \A i \in 1..n : cont_'[i] = cont_[i]
  BY <1>1 DEF PushConn, pool_!vPush
<1>3. \A d \in Clients : conn'[d] = IF d = c THEN Nobody ELSE conn[d]
  BY DEF PushConn, LoanTypes
<1>4. \A i \in 1..n : cont_[i] # conn[c]
  BY <1>1 DEF ExclusiveConnections
<1>5. \A i, j \in DOMAIN cont_' : cont_'[i] = cont_'[j] => i = j
  BY <1>1, <1>2, <1>4 DEF ExclusiveConnections
<1>6. \A d, e \in Clients : conn'[d] = conn'[e] /\ conn'[d] # Nobody => d = e
  BY <1>3 DEF ExclusiveConnections
<1>7. ASSUME NEW d \in Clients, NEW i \in DOMAIN cont_'
      PROVE  cont_'[i] # conn'[d]
  <2>1. CASE d = c
    <3>1. cont_'[i] \in Conns
      BY <1>1, <1>2 DEF LoanTypes
    <3> QED
      BY <2>1, <3>1, <1>3 DEF Conns, Nobody
  <2>2. CASE d # c
    <3>1. conn'[d] = conn[d]
      BY <1>3, <2>2
    <3>2. CASE i \in 1..n
      BY <3>1, <3>2, <1>1, <1>2 DEF ExclusiveConnections
    <3>3. CASE i = n + 1
      <4>1. conn[d] # conn[c]
        BY <2>2, <1>1 DEF ExclusiveConnections, Conns, Nobody
      <4> QED
        BY <3>1, <3>3, <4>1, <1>2
    <3> QED
      BY <3>2, <3>3, <1>1, <1>2
  <2> QED
    BY <2>1, <2>2
<1> QED
  BY <1>5, <1>6, <1>7 DEF ExclusiveConnections

(* Every step keeps the connections exclusive.                             *)
LEMMA StepExclusive ==
  LoanTypes /\ ExclusiveConnections /\ [Next]_vars => ExclusiveConnections'
<1> SUFFICES ASSUME LoanTypes, ExclusiveConnections, [Next]_vars
             PROVE  ExclusiveConnections'
  OBVIOUS
<1>1. ASSUME NEW c \in Clients, PopConn(c) PROVE ExclusiveConnections'
  BY <1>1, PopExclusive
<1>2. ASSUME NEW c \in Clients, PushConn(c) PROVE ExclusiveConnections'
  BY <1>2, PushExclusive
<1>3. ASSUME NEW c \in Clients,
             \/ GetPermit(c) \/ GetPermitBlocks(c) \/ CheckoutSucceeds(c)
             \/ CheckoutRaises(c) \/ GivePermit(c)
      PROVE  UNCHANGED <<cont_, conn>>
  BY <1>3 DEF GetPermit, GetPermitBlocks, CheckoutSucceeds, CheckoutRaises,
              GivePermit
<1>4. CASE UNCHANGED <<cont_, conn>>
  BY <1>4 DEF ExclusiveConnections
<1>5. CASE UNCHANGED vars
  BY <1>4, <1>5 DEF vars
<1> QED
  BY <1>1, <1>2, <1>3, <1>4, <1>5 DEF Next, Client

-----------------------------------------------------------------------------
(* Every step keeps the distance of permits and connections.               *)
LEMMA StepPermits ==
  LoanTypes /\ [Next]_vars => Surplus' = Surplus
<1> SUFFICES ASSUME LoanTypes, [Next]_vars PROVE Surplus' = Surplus
  OBVIOUS
<1>0. /\ Len(cont_) \in Nat /\ count_ \in Nat
      /\ Cardinality(In("permitted")) \in Nat
      /\ Cardinality(In("pushed")) \in Nat
  BY Counting DEF LoanTypes
<1>1. ASSUME NEW c \in Clients, GetPermit(c) PROVE Surplus' = Surplus
  <2>0. Move(c, "idle", "permitted")
    BY <1>1 DEF GetPermit
  <2>1. /\ In("permitted")' = In("permitted") \cup {c}
        /\ c \notin In("permitted")
        /\ In("pushed")' = In("pushed")
    BY <2>0, MoveSets
  <2>2. Cardinality(In("permitted"))' = Cardinality(In("permitted")) + 1
    BY <2>1, Counting
  <2>3. count_ > 0 /\ count_' = count_ - 1 /\ cont_' = cont_
    BY <1>1 DEF GetPermit, sem!vWait
  <2> QED
    BY <1>0, <2>1, <2>2, <2>3 DEF Surplus
<1>2. ASSUME NEW c \in Clients, GetPermitBlocks(c)
      PROVE  Surplus' = Surplus
  BY <1>2 DEF GetPermitBlocks, sem!vWaitBlocks, In, Surplus
<1>3. ASSUME NEW c \in Clients, PopConn(c) PROVE Surplus' = Surplus
  <2>0. Move(c, "permitted", "checkout")
    BY <1>3 DEF PopConn
  <2>1. /\ In("permitted")' = In("permitted") \ {c}
        /\ c \in In("permitted")
        /\ In("pushed")' = In("pushed")
    BY <2>0, MoveSets
  <2>2. Cardinality(In("permitted"))' = Cardinality(In("permitted")) - 1
    BY <2>1, Counting
  <2>3. cont_ # <<>> /\ cont_' = SubSeq(cont_, 1, Len(cont_) - 1)
        /\ count_' = count_
    BY <1>3 DEF PopConn, pool_!oPop, semVars
  <2>4. Len(cont_') = Len(cont_) - 1
    <3> DEFINE n == Len(cont_)
    <3>1. n \in Nat \ {0} /\ cont_ \in Seq(Conns)
      BY <2>3 DEF LoanTypes
    <3>2. DOMAIN cont_' = 1..(n - 1) /\ cont_' \in Seq(Conns)
      BY <2>3, <3>1, StepTypes DEF LoanTypes
    <3> QED
      BY <3>1, <3>2
  <2>5. count_' = count_
    BY <2>3
  <2> QED
    BY <1>0, <2>1, <2>2, <2>4, <2>5 DEF Surplus
<1>4. ASSUME NEW c \in Clients, CheckoutSucceeds(c) \/ CheckoutRaises(c)
      PROVE  Surplus' = Surplus
  <2>0. Move(c, "checkout", "using") \/ Move(c, "checkout", "failed")
    BY <1>4 DEF CheckoutSucceeds, CheckoutRaises
  <2>1. In("permitted")' = In("permitted") /\ In("pushed")' = In("pushed")
    BY <2>0, MoveSets
  <2> QED
    BY <1>4, <2>1 DEF CheckoutSucceeds, CheckoutRaises, semVars, Surplus
<1>5. ASSUME NEW c \in Clients, PushConn(c) PROVE Surplus' = Surplus
  <2>0. Move(c, "using", "pushed")
    BY <1>5 DEF PushConn
  <2>1. /\ In("pushed")' = In("pushed") \cup {c}
        /\ c \notin In("pushed")
        /\ In("permitted")' = In("permitted")
    BY <2>0, MoveSets
  <2>2. Cardinality(In("pushed"))' = Cardinality(In("pushed")) + 1
    BY <2>1, Counting
  <2>3. cont_' = Append(cont_, conn[c]) /\ count_' = count_
    BY <1>5 DEF PushConn, pool_!vPush, semVars
  <2>4. Len(cont_') = Len(cont_) + 1
    BY <2>3, <1>5 DEF LoanTypes, PushConn, Move
  <2>5. count_' = count_
    BY <2>3
  <2> QED
    BY <1>0, <2>1, <2>2, <2>4, <2>5, SMTT(20) DEF Surplus
<1>6. ASSUME NEW c \in Clients, GivePermit(c) PROVE Surplus' = Surplus
  <2>0. Move(c, "pushed", "done")
    BY <1>6 DEF GivePermit
  <2>1. /\ In("pushed")' = In("pushed") \ {c}
        /\ c \in In("pushed")
        /\ In("permitted")' = In("permitted")
    BY <2>0, MoveSets
  <2>2. Cardinality(In("pushed"))' = Cardinality(In("pushed")) - 1
    BY <2>1, Counting
  <2>3. count_' = count_ + 1 /\ cont_' = cont_
    BY <1>6 DEF GivePermit, sem!vNotify
  <2> QED
    BY <1>0, <2>1, <2>2, <2>3 DEF Surplus
<1>7. CASE UNCHANGED vars
  BY <1>7 DEF vars, semVars, In, Surplus
<1> QED
  BY <1>1, <1>2, <1>3, <1>4, <1>5, <1>6, <1>7 DEF Next, Client

(* Every step keeps an awake client for every free permit.                 *)
LEMMA StepWakeUp ==
  LoanTypes /\ NoLostWakeUp /\ [Next]_vars => NoLostWakeUp'
<1> SUFFICES ASSUME LoanTypes, NoLostWakeUp, [Next]_vars
             PROVE  NoLostWakeUp'
  OBVIOUS
<1> DEFINE Awake == In("idle") \ sleeping
<1>0. /\ IsFiniteSet(Awake) /\ Cardinality(Awake) \in Nat
      /\ IsFiniteSet(Awake') /\ Cardinality(Awake') \in Nat
  <2>1. Awake \subseteq Clients /\ Awake' \subseteq Clients
    BY DEF In
  <2> QED
    BY <2>1, ClientsAssumption, FS_Subset, FS_CardinalityType
<1>1. ASSUME NEW c \in Clients, GetPermit(c) PROVE NoLostWakeUp'
  <2>0. Move(c, "idle", "permitted")
    BY <1>1 DEF GetPermit
  <2>1. c \in In("idle") /\ In("idle")' = In("idle") \ {c}
    BY <2>0, MoveSets
  <2>2. /\ c \notin sleeping /\ sleeping' = sleeping
        /\ count_ > 0 /\ count_' = count_ - 1
    BY <1>1 DEF GetPermit, sem!vWait
  <2>3. c \in Awake /\ Awake' = Awake \ {c}
    BY <2>1, <2>2
  <2>4. Cardinality(Awake') = Cardinality(Awake) - 1
    BY <2>3, <1>0, FS_RemoveElement
  <2>5. sleeping' # {} => count_' <= Cardinality(Awake')
    BY <2>2, <2>4, <1>0 DEF NoLostWakeUp, LoanTypes
  <2> QED
    BY <2>5 DEF NoLostWakeUp
<1>2. ASSUME NEW c \in Clients, GetPermitBlocks(c) PROVE NoLostWakeUp'
  <2>1. count_' = 0
    BY <1>2 DEF GetPermitBlocks, sem!vWaitBlocks
  <2>2. count_' <= Cardinality(Awake')
    BY <2>1, <1>0
  <2> QED
    BY <2>2 DEF NoLostWakeUp
<1>3. ASSUME NEW c \in Clients, GivePermit(c) PROVE NoLostWakeUp'
  <2>0. Move(c, "pushed", "done")
    BY <1>3 DEF GivePermit
  <2>1. In("idle")' = In("idle")
    BY <2>0, MoveSets
  <2>2. count_' = count_ + 1
    BY <1>3 DEF GivePermit, sem!vNotify
  <2>3. CASE sleeping = {} /\ sleeping' = {}
    BY <2>3 DEF NoLostWakeUp
  <2>4. ASSUME NEW t \in sleeping, sleeping' = sleeping \ {t}
        PROVE  NoLostWakeUp'
    <3>1. t \in In("idle")
      BY DEF LoanTypes
    <3>2. t \notin Awake /\ Awake' = Awake \cup {t}
      BY <3>1, <2>1, <2>4
    <3>3. Cardinality(Awake') = Cardinality(Awake) + 1
      BY <3>2, <1>0, FS_AddElement
    <3>4. count_' <= Cardinality(Awake')
      BY <3>3, <2>2, <1>0, t \in sleeping DEF NoLostWakeUp, LoanTypes
    <3> QED
      BY <3>4 DEF NoLostWakeUp
  <2>5. \/ sleeping = {} /\ sleeping' = {}
        \/ \E t \in sleeping : sleeping' = sleeping \ {t}
    BY <1>3 DEF GivePermit, sem!vNotify
  <2> QED
    BY <2>3, <2>4, <2>5
<1>4. ASSUME In("idle")' = In("idle"), UNCHANGED semVars PROVE NoLostWakeUp'
  BY <1>4 DEF NoLostWakeUp, semVars
<1>5. ASSUME NEW c \in Clients,
             \/ PopConn(c) \/ CheckoutSucceeds(c) \/ CheckoutRaises(c)
             \/ PushConn(c)
      PROVE  NoLostWakeUp'
  <2>1. \/ Move(c, "permitted", "checkout") \/ Move(c, "checkout", "using")
        \/ Move(c, "checkout", "failed") \/ Move(c, "using", "pushed")
    BY <1>5 DEF PopConn, CheckoutSucceeds, CheckoutRaises, PushConn
  <2>2. In("idle")' = In("idle")
    BY <2>1, MoveSets
  <2>3. UNCHANGED semVars
    BY <1>5 DEF PopConn, CheckoutSucceeds, CheckoutRaises, PushConn
  <2> QED
    BY <2>2, <2>3, <1>4
<1>6. CASE UNCHANGED vars
  BY <1>4, <1>6 DEF vars, In
<1> QED
  BY <1>1, <1>2, <1>3, <1>5, <1>6 DEF Next, Client

-----------------------------------------------------------------------------
LEMMA NothingLeftOver == LoanTypes => (PermitsMatchConnections <=> Surplus = 0)
<1> SUFFICES ASSUME LoanTypes PROVE PermitsMatchConnections <=> Surplus = 0
  OBVIOUS
<1>1. /\ Len(cont_) \in Nat /\ count_ \in Nat
      /\ Cardinality(In("permitted")) \in Nat
      /\ Cardinality(In("pushed")) \in Nat
  BY Counting DEF LoanTypes
<1> QED
  BY <1>1 DEF PermitsMatchConnections, Surplus

(* There are connections for all who have a permit.                        *)
LEMMA PermitsFind ==
  LoanTypes /\ Surplus \in Nat => PermitGuaranteesConnection
<1> SUFFICES ASSUME LoanTypes, Surplus \in Nat, NEW c \in In("permitted")
             PROVE  cont_ # <<>>
  BY DEF PermitGuaranteesConnection
<1>1. /\ Cardinality(In("permitted")) \in Nat
      /\ Cardinality(In("pushed")) \in Nat
      /\ Cardinality(In("permitted") \ {c}) \in Nat
      /\ Cardinality(In("permitted") \ {c}) = Cardinality(In("permitted")) - 1
  <2>1. IsFiniteSet(In("permitted") \ {c})
    BY Counting, FS_Subset
  <2> QED
    BY <2>1, Counting, FS_CardinalityType
<1>2. Len(cont_) \in Nat /\ count_ \in Nat
  BY DEF LoanTypes
<1>3. Len(cont_) >= 1
  BY <1>1, <1>2 DEF Surplus
<1> QED
  BY <1>3

-----------------------------------------------------------------------------
(* The service starts with a permit for every connection.                  *)
LEMMA InitInv == Init => ConnPoolInv
<1> SUFFICES ASSUME Init PROVE ConnPoolInv
  OBVIOUS
<1> USE NumConnAssumption
        DEF Init, sem!SemInit, pool_!PoolInit, Conns, Nobody
<1>1. In("permitted") = {} /\ In("pushed") = {}
  BY DEF In
<1>2. Cardinality({}) = 0
  BY FS_EmptySet
<1>3. Len(cont_) = iNumConn /\ count_ = iNumConn
  OBVIOUS
<1>4. PermitsMatchConnections
  <2>1. Cardinality(In("permitted")) = 0 /\ Cardinality(In("pushed")) = 0
    BY <1>1, <1>2
  <2> QED
    BY <2>1, <1>3 DEF PermitsMatchConnections
<1>5. ExclusiveConnections
  <2>1. /\ cont_ = [i \in 1..iNumConn |-> i] /\ DOMAIN cont_ = 1..iNumConn
        /\ \A c \in Clients : conn[c] = 0
    OBVIOUS
  <2> QED
    BY <2>1 DEF ExclusiveConnections
<1>6. NoLostWakeUp
  BY DEF NoLostWakeUp
<1> QED
  BY <1>4, <1>5, <1>6 DEF ConnPoolInv

(* The inductive invariant: connections exclusive, permits in step with    *)
(* the pool, a wake-up for every permit that comes back to sleepers.       *)
THEOREM InvariantHolds == Spec => []ConnPoolInv
<1> DEFINE Inv == ExclusiveConnections /\ Surplus = 0 /\ NoLostWakeUp
<1>1. Init => Inv
  BY InitInv, InitTypes, NothingLeftOver DEF ConnPoolInv
<1>2. TypeOK /\ Inv /\ [Next]_vars => Inv'
  BY StepExclusive, StepPermits, StepWakeUp DEF TypeOK
<1>3. TypeOK /\ Inv => ConnPoolInv
  BY NothingLeftOver DEF TypeOK, ConnPoolInv
<1> QED
  BY <1>1, <1>2, <1>3, TypeCorrect, PTL DEF Spec

(* Two statements never share a connection, nor is one in the pool while   *)
(* a statement has it.                                                     *)
THEOREM ConnectionsAreExclusive == Spec => []ExclusiveConnections
<1>1. ConnPoolInv => ExclusiveConnections
  BY DEF ConnPoolInv
<1> QED
  BY <1>1, InvariantHolds, PTL

(* A client that passed the semaphore never waits inside oPop.             *)
THEOREM PermitsSuffice == Spec => []PermitGuaranteesConnection
<1>1. TypeOK /\ ConnPoolInv => PermitGuaranteesConnection
  BY PermitsFind, NothingLeftOver DEF TypeOK, ConnPoolInv
<1> QED
  BY <1>1, TypeCorrect, InvariantHolds, PTL

(* No permit is left over while a client sleeps and nobody is awake.       *)
THEOREM WakeUpsAreNotLost == Spec => []NoLostWakeUp
<1>1. ConnPoolInv => NoLostWakeUp
  BY DEF ConnPoolInv
<1> QED
  BY <1>1, InvariantHolds, PTL

-----------------------------------------------------------------------------
(* Every step lends a connection, takes one back, or does neither.         *)
LEMMA LeaseStep ==
  LoanTypes /\ ExclusiveConnections /\ [Next]_vars => [Lending!LeaseNext]_conn
<1> SUFFICES ASSUME LoanTypes, ExclusiveConnections, [Next]_vars
             PROVE  [Lending!LeaseNext]_conn
  OBVIOUS
<1>1. ASSUME NEW c \in Clients, PopConn(c) PROVE Lending!LeaseNext
  <2>1. cont_ # <<>> /\ cont_ \in Seq(Conns)
    BY <1>1 DEF PopConn, pool_!oPop, LoanTypes
  <2>2. Len(cont_) \in DOMAIN cont_ /\ pool_!Top = cont_[Len(cont_)]
    BY <2>1 DEF pool_!Top
  <2>3. pool_!Top \in Conns
    BY <2>1, <2>2
  <2>4. conn[c] = Nobody
    BY <1>1 DEF PopConn, Move, LoanTypes
  <2>5. Lending!Available(pool_!Top)
    BY <2>2 DEF Lending!Available, ExclusiveConnections
  <2>6. conn' = [conn EXCEPT ![c] = pool_!Top]
    BY <1>1 DEF PopConn
  <2>7. Lending!Borrow(c, pool_!Top)
    BY <2>4, <2>5, <2>6 DEF Lending!Borrow
  <2> QED
    BY <2>3, <2>7 DEF Lending!LeaseNext
<1>2. ASSUME NEW c \in Clients, PushConn(c) PROVE Lending!LeaseNext
  <2>1. conn[c] # Nobody
    BY <1>2 DEF PushConn, Move, LoanTypes
  <2>2. Lending!GiveBack(c)
    BY <1>2, <2>1 DEF PushConn, Lending!GiveBack
  <2> QED
    BY <2>2 DEF Lending!LeaseNext
<1>3. ASSUME NEW c \in Clients,
             \/ GetPermit(c) \/ GetPermitBlocks(c) \/ CheckoutSucceeds(c)
             \/ CheckoutRaises(c) \/ GivePermit(c)
      PROVE  UNCHANGED conn
  BY <1>3 DEF GetPermit, GetPermitBlocks, CheckoutSucceeds, CheckoutRaises,
              GivePermit
<1>4. CASE UNCHANGED vars
  BY <1>4 DEF vars
<1> QED
  BY <1>1, <1>2, <1>3, <1>4 DEF Next, Client

(* The dedicated pool implements the lending of connections.               *)
THEOREM ImplementsLease == Spec => LendingSpec
<1>1. Init => Lending!LeaseInit
  BY DEF Init, Lending!LeaseInit
<1>2. TypeOK /\ ConnPoolInv /\ [Next]_vars => [Lending!LeaseNext]_conn
  BY LeaseStep DEF TypeOK, ConnPoolInv
<1> QED
  BY <1>1, <1>2, TypeCorrect, InvariantHolds, PTL
     DEF Spec, LendingSpec, Lending!LeaseSpec

-----------------------------------------------------------------------------
(* The three services.                                                     *)

LEMMA CreateKeeps ==
  ASSUME PooledInv, NEW c \in Clients, CreateRaises(c) PROVE PooledInv'
<1>1. /\ Move(c, "permitted", "failed") /\ LoanTypes
      /\ UNCHANGED <<semVars, cont_, conn>>
  BY DEF PooledInv, CreateRaises
<1>2. LoanTypes'
  BY <1>1 DEF LoanTypes, Move, semVars, In
<1>3. /\ c \in In("permitted") /\ In("permitted")' = In("permitted") \ {c}
      /\ In("pushed")' = In("pushed") /\ In("idle")' = In("idle")
  BY <1>1, MoveSets
<1>4. Surplus' = Surplus + 1
  <2>1. Cardinality(In("permitted"))' = Cardinality(In("permitted")) - 1
    BY <1>3, Counting
  <2>2. /\ Len(cont_) \in Nat /\ count_ \in Nat
        /\ Cardinality(In("permitted")) \in Nat
        /\ Cardinality(In("pushed")) \in Nat
    BY <1>1, Counting DEF LoanTypes
  <2> QED
    BY <1>1, <1>3, <2>1, <2>2 DEF Surplus, semVars
<1>5. ExclusiveConnections' /\ NoLostWakeUp'
  BY <1>1, <1>3 DEF PooledInv, ExclusiveConnections, NoLostWakeUp, semVars
<1> QED
  BY <1>2, <1>4, <1>5 DEF PooledInv

LEMMA LoanKeeps ==
  ASSUME PooledInv, [Next]_vars PROVE PooledInv'
<1>1. LoanTypes /\ LoanTypes'
  BY StepTypes DEF PooledInv
<1>2. ExclusiveConnections' /\ Surplus' = Surplus /\ NoLostWakeUp'
  BY StepExclusive, StepPermits, StepWakeUp DEF PooledInv
<1> QED
  BY <1>1, <1>2 DEF PooledInv

(* What a step of the services does to a loan.                             *)
NormalStep ==
  \E c \in Clients :
    /\ \/ Move(c, "idle", "checkout") \/ Move(c, "checkout", "using")
       \/ Move(c, "checkout", "failed") \/ Move(c, "using", "done")
    /\ UNCHANGED <<semVars, cont_, conn>>

LEMMA BorrowerSteps ==
  ASSUME NEW c \in Clients, Borrower(c)
  PROVE  /\ type' = type
         /\ IF type = "iNormal" THEN NormalStep
            ELSE Next \/ CreateRaises(c) \/ UNCHANGED vars
<1>1. CASE Dedicated(c)
  BY <1>1 DEF Dedicated, Next, service
<1>2. CASE Shared(c)
  BY <1>2 DEF Shared, Next, service, CreateRaises, TerminateRaises
<1>3. CASE NormalGetCon(c)
  BY <1>3 DEF NormalGetCon, NormalStep, service
<1>4. CASE NormalCheckout(c)
  BY <1>4 DEF NormalCheckout, NormalStep, service, CheckoutSucceeds,
     CheckoutRaises
<1>5. CASE NormalRelCon(c)
  BY <1>5 DEF NormalRelCon, NormalStep, service
<1> QED
  BY <1>1, <1>2, <1>3, <1>4, <1>5 DEF Borrower

LEMMA ServicesSteps ==
  ASSUME [ServicesNext]_allVars
  PROVE  /\ type' = type
         /\ \/ UNCHANGED vars
            \/ type = "iNormal" /\ NormalStep
            \/ type # "iNormal" /\ (Next \/ \E c \in Clients : CreateRaises(c))
<1>1. CASE \E c \in Clients : Borrower(c)
  BY <1>1, BorrowerSteps
<1>2. CASE UNCHANGED allVars
  BY <1>2 DEF allVars, service
<1>3. CASE \/ BuildEnv \/ BuildConn \/ MakeShared \/ MakeNormal \/ MakeRaises
           \/ ShowVersion \/ ShowVersionRaises \/ BootEnds \/ BootRaises
  BY <1>3 DEF BuildEnv, BuildConn, MakeShared, MakeNormal, MakeRaises,
     ShowVersion, ShowVersionRaises, BootEnds, BootRaises
<1> QED
  BY <1>1, <1>2, <1>3, BootAssumption
     DEF ServicesNext, Making, BootBorrows, Statement

LEMMA ServicesStart == ServicesInit => ServicesInv
<1> SUFFICES ASSUME ServicesInit PROVE ServicesInv
  OBVIOUS
<1>1. Init /\ type \in Types
  BY DEF ServicesInit
<1>2. LoanTypes /\ ExclusiveConnections /\ NoLostWakeUp /\ Surplus = 0
  BY <1>1, InitTypes, InitInv, NothingLeftOver DEF ConnPoolInv
<1>3. NormalInv
  BY <1>1, <1>2 DEF NormalInv, Init, sem!SemInit
<1> QED
  BY <1>1, <1>2, <1>3 DEF ServicesInv, PooledInv

LEMMA ServicesKeep == ServicesInv /\ [ServicesNext]_allVars => ServicesInv'
<1> SUFFICES ASSUME ServicesInv, [ServicesNext]_allVars PROVE ServicesInv'
  OBVIOUS
<1>1. CASE type = "iNormal"
  <2>1. NormalStep \/ UNCHANGED vars
    BY <1>1, ServicesSteps
  <2>2. NormalInv'
    BY <1>1, <2>1 DEF NormalStep, ServicesInv, NormalInv, Move, semVars, vars,
       ExclusiveConnections
  <2> QED
    BY <1>1, <2>2, ServicesSteps DEF ServicesInv
<1>2. CASE type # "iNormal"
  <2>1. PooledInv
    BY <1>2 DEF ServicesInv
  <2>2. PooledInv'
    BY <1>2, <2>1, ServicesSteps, LoanKeeps, CreateKeeps
  <2> QED
    BY <1>2, <2>2, ServicesSteps DEF ServicesInv
<1> QED
  BY <1>1, <1>2

(* The inductive invariant of the services, whichever of them is made.     *)
THEOREM ServicesInvariant == ServicesSpec => []ServicesInv
  BY ServicesStart, ServicesKeep, PTL DEF ServicesSpec

(* Nobody waits in oPop, nor for a connection of the library's pool.       *)
THEOREM ServicesPermitsSuffice == ServicesSpec => []PermitGuaranteesConnection
<1>1. ServicesInv => PermitGuaranteesConnection
  <2>1. NormalInv => PermitGuaranteesConnection
    BY DEF NormalInv, PermitGuaranteesConnection, In
  <2> QED
    BY <2>1, PermitsFind DEF ServicesInv, PooledInv
<1> QED
  BY <1>1, ServicesInvariant, PTL

(* No service forgets to wake a sleeper, failed creations included.        *)
THEOREM ServicesLoseNoWakeUp == ServicesSpec => []NoLostWakeUp
<1>1. ServicesInv => NoLostWakeUp
  BY DEF ServicesInv, NormalInv, PooledInv, NoLostWakeUp
<1> QED
  BY <1>1, ServicesInvariant, PTL

(* Each of the three services implements the lending of connections.       *)
THEOREM ServicesImplementLease == ServicesSpec => LendingSpec
<1>1. ServicesInit => Lending!LeaseInit
  BY DEF ServicesInit, Init, Lending!LeaseInit
<1>2. ServicesInv /\ [ServicesNext]_allVars => [Lending!LeaseNext]_conn
  <2> SUFFICES ASSUME ServicesInv, [ServicesNext]_allVars
               PROVE  Lending!LeaseNext \/ UNCHANGED conn
    OBVIOUS
  <2>1. CASE type # "iNormal" /\ Next
    BY <2>1, LeaseStep DEF ServicesInv, PooledInv
  <2>2. CASE \/ UNCHANGED vars \/ NormalStep
             \/ \E c \in Clients : CreateRaises(c)
    BY <2>2 DEF vars, NormalStep, CreateRaises
  <2> QED
    BY <2>1, <2>2, ServicesSteps
<1> QED
  BY <1>1, <1>2, ServicesInvariant, PTL
     DEF ServicesSpec, LendingSpec, Lending!LeaseSpec
=============================================================================
