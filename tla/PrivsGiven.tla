------------------------------ MODULE PrivsGiven ------------------------------
(***************************************************************************)
(* Whether the connected user may read a table of the dictionary           *)
(* (cPrivsGiven): x.me is the user, x.tabprivs and x.sysprivs are what has *)
(* been granted.                                                           *)
(***************************************************************************)
EXTENDS Integers, FiniteSets

SYS == 0
DBA_OBJECTS == 1
DBA_INDEXES == 2
DBA_SEGMENTS == 3

Privilege(owner, name, privilege) == [owner |-> owner, name |-> name, privilege |-> privilege]

AnyOf(privilege) ==
  <<privilege, IF privilege = "EXECUTE" THEN "ANY PROCEDURE" ELSE "ANY TABLE">>

(* sPls_: as the owner, as a grantee, or by a system privilege, which does *)
(* not reach the schema SYS.  Objects are those the user can see.          *)
sPls_(x, key) ==
  LET isThere == \E o \in x.objects : o.owner = key.owner /\ o.name = key.name
  IN  \/ key.owner = x.me /\ isThere
      \/ key.owner # x.me /\ key \in x.tabprivs
      \/ key.owner # SYS /\ isThere /\ AnyOf(key.privilege) \in x.sysprivs

(* iAccesible; a shortage is tolerated.                                    *)
iAccesible(x, checked, key) == key \in checked /\ sPls_(x, key)
=============================================================================
