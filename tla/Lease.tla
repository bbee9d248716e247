------------------------------- MODULE Lease -------------------------------
(***************************************************************************)
(* What a connection service promises its clients: a connection is lent to *)
(* one client at a time, comes back once, and is never lent again when the *)
(* client that took it out could not establish it.                         *)
(***************************************************************************)
CONSTANTS Conns, Clients, Nobody

VARIABLE lent    (* The connection each client has, or Nobody.             *)

Available(k) == \A c \in Clients : lent[c] # k

LeaseInit == lent = [c \in Clients |-> Nobody]

Borrow(c, k) ==
  /\ lent[c] = Nobody
  /\ Available(k)
  /\ lent' = [lent EXCEPT ![c] = k]

GiveBack(c) ==
  /\ lent[c] # Nobody
  /\ lent' = [lent EXCEPT ![c] = Nobody]

LeaseNext ==
  \E c \in Clients :
    \/ \E k \in Conns : Borrow(c, k)
    \/ GiveBack(c)

LeaseSpec == LeaseInit /\ [][LeaseNext]_lent
=============================================================================
