-------------------------- MODULE MetaConstraints --------------------------
(***************************************************************************)
(* The describers of constraints.  A key is created disabled inside its    *)
(* table and enabled after the table's indexes; a foreign key is created   *)
(* inside its table (dependent) or by ALTER TABLE after all tables of its  *)
(* owner, and enabled there.                                               *)
(***************************************************************************)
EXTENDS MetaPrint

(* The two queries of cAllConsColumns, whose rows are printed from lists   *)
(* of their own: columns of any constraint, and columns of the keys.       *)
AllConsColumnsKey == [list |-> "AllConsColumnsKey", order |-> <<"owner", "table", "name", "pos">>,
                      key |-> <<"owner", "table", "name">>]

AllConsColumnsRef == [AllConsColumnsKey EXCEPT !.list = "AllConsColumnsRef"]

(* Check constraints have columns without a position.                      *)
AllConsColumnsKeyRows(d) == {k \in InOwners(d, d.conscolumns) : k.pos # 0}

AllConsColumnsRefRows(d) ==
  {k \in d.conscolumns : \E c \in InOwners(d, d.constraints) :
     c.type \in {"P", "U"} /\ k.owner = c.owner /\ k.table = c.table /\ k.name = c.name}

PrintConsColumn(r) == Say("key column", <<r.owner, r.table, r.name, r.column>>)

(* --- Primary and alternate keys ---------------------------------------- *)

(* The primary key comes first; the unique keys of a table come in any     *)
(* order.                                                                  *)
ConsOfAKey == [list |-> "ConsOfAKey", order |-> <<"owner", "table", "ordering">>,
               key |-> <<"owner", "table">>]

(* iSearchConsName                                                         *)
ConsByName == [ConsOfAKey EXCEPT !.key = <<"owner", "name">>]

Ordering(type) == IF type = "P" THEN 1 ELSE 2

ConsOfAKeyRows(d) ==
  {[owner |-> c.owner, table |-> c.table, ordering |-> Ordering(c.type), name |-> c.name] :
     c \in {k \in InOwners(d, d.constraints) : k.type \in {"P", "U"}}}

ConsOfAKeyPre(key, place) == When(place # "InTable", Say("alter table add", <<key[1], key[2]>>))

(* Everything but the primary key of an index-organized table is disabled. *)
PrintAKey(r, iot) ==
  Say("key", <<r.owner, r.table, r.name, iot /\ r.ordering = 1>>)
  \o PrintAll("AllConsColumnsKey", <<r.owner, r.table, r.name>>)

EffectiveKeyCons == [list |-> "EffectiveKeyCons", order |-> <<"owner", "table", "kind", "name">>,
                     key |-> <<"owner", "table", "kind">>]

EffectiveByName == [EffectiveKeyCons EXCEPT !.key = <<"owner", "name">>]

iKeyTypeIsUnique == 1
iKeyTypeIsForeign == 2

(* The key an index-organized table is built on is enabled from the start. *)
EffectiveKeyConsRows(d) ==
  {[owner |-> c.owner, table |-> c.table, name |-> c.name,
    kind |-> IF c.type = "R" THEN iKeyTypeIsForeign ELSE iKeyTypeIsUnique] :
     c \in {k \in InOwners(d, d.constraints) :
        /\ k.type \in {"P", "U", "R"} /\ k.enabled
        /\ ~(k.type = "P" /\ \E x \in d.indexes :
               x.owner = k.owner /\ x.name = k.name /\ x.type = "IOT - TOP")}}

EffectivePre(key) == Say("alter table", <<key[1], key[2]>>)

PrintEffective(r) == Say("enable", <<r.owner, r.table, r.name>>)

EffectiveNotFound(key) == Say("no effective constraints", key)

(* --- Check constraints ------------------------------------------------- *)

ConsOfCheck == [list |-> "ConsOfCheck", order |-> <<"owner", "table", "name">>,
                key |-> <<"owner", "table">>]

(* The NOT NULL of a column is a check constraint too; it is not kept.     *)
ConsOfCheckRows(d) == {c \in InOwners(d, d.constraints) : c.type = "C" /\ ~c.notnull}

(* vPostBulkAction subtracts what it kept: without a NOT NULL among the    *)
(* rows the total is 0, and a list without rows is not sorted.             *)
ConsOfCheckSorted(d) == \E c \in InOwners(d, d.constraints) : c.type = "C" /\ c.notnull

PrintCheck(r) == Say("check", <<r.owner, r.table, r.name>>)

(* --- Foreign keys ------------------------------------------------------ *)

ConsOfFKey == [list |-> "ConsOfFKey", order |-> <<"owner", "table", "name">>,
               key |-> <<"owner", "table">>]

(* The key referred to is looked for among those of the same owner.        *)
ConsOfFKeyRows(d) ==
  {[owner |-> fp[1].owner, table |-> fp[1].table, name |-> fp[1].name,
    rTable |-> fp[2].table, rName |-> fp[2].name] :
     fp \in {fp \in {c \in InOwners(d, d.constraints) : c.type = "R"}
                   \X {c \in d.constraints : c.type \in {"P", "U"}} :
        fp[2].owner = fp[1].owner /\ fp[2].name = fp[1].rName}}

(* The columns on both sides are consumed, those of the key referred to    *)
(* by the first foreign key that refers to it.                             *)
PrintFKey(r) ==
  Say("foreign key", <<r.owner, r.table, r.name>>)
  \o PrintAll("AllConsColumnsKey", <<r.owner, r.table, r.name>>)
  \o Say("references", <<r.owner, r.rTable, r.rName>>)
  \o PrintAll("AllConsColumnsRef", <<r.owner, r.rTable, r.rName>>)
  \o Say("end of foreign key", <<r.owner, r.table, r.name>>)

ParentWithChild == [list |-> "ParentWithChild", order |-> <<"owner", "name">>,
                    key |-> <<"owner", "name">>]

(* A row for every foreign key that refers to the table.                   *)
ParentWithChildRows(d) ==
  {[owner |-> fp[2].owner, name |-> fp[2].table, childOwner |-> fp[1].owner,
    child |-> fp[1].name] :
     fp \in {fp \in {c \in d.constraints :
                      c.type = "R" /\ \E i \in DOMAIN d.owners : c.rOwner = d.owners[i]}
                   \X {c \in d.constraints : c.type \in {"P", "U"}} :
        fp[2].owner = fp[1].rOwner /\ fp[2].name = fp[1].rName}}

PrintParent(r) == Say("cascade constraints", <<r.owner, r.name>>)

TablesWithFk == [list |-> "TablesWithFk", order |-> <<"owner", "name">>, key |-> <<"owner">>]

TablesWithFkRows(d) ==
  {[owner |-> c.owner, name |-> c.table] :
     c \in {k \in InOwners(d, d.constraints) : k.type = "R"}}

PrintTableWithFk(d, r) ==
  When(~d.dependent,
       Say("alter table add", <<r.owner, r.name>>)
       \o PrintAllWith("ConsOfFKey", <<r.owner, r.name>>, <<"InAltTbl">>))
  \o PrintAll("EffectiveKeyCons", <<r.owner, r.name, iKeyTypeIsForeign>>)
=============================================================================
