---------------------------- MODULE MetaIndexes ----------------------------
(***************************************************************************)
(* The describers of indexes, their columns and their partitions.          *)
(***************************************************************************)
EXTENDS MetaPrint

UserIndexes == [list |-> "UserIndexes", order |-> <<"owner", "table", "name">>,
                key |-> <<"owner", "table">>]

(* iCreIotMatched, and iFullMatched for the USING INDEX of a materialized  *)
(* view.                                                                   *)
IotIndex == [UserIndexes EXCEPT !.key = <<"owner", "table", "type">>]

UsingIndex == [UserIndexes EXCEPT !.key = <<"owner", "table", "name">>]

(* What like 'FUNCTION-BASED%' may find.                                   *)
FunctionBased == {"FUNCTION-BASED NORMAL", "FUNCTION-BASED NORMAL/REV", "FUNCTION-BASED BITMAP",
                  "FUNCTION-BASED DOMAIN"}

(* The outer join with ALL_CONSTRAINTS repeats an index for every          *)
(* constraint that uses it.                                                *)
UserIndexesRows(d) ==
  LET Mine    == IF d.dba THEN d.indexes ELSE {x \in d.indexes : x.owner = d.me}
      Uses(x) == {c \in d.constraints : c.owner = x.owner /\ c.table = x.table /\ c.index = x.name}
  IN  UNION {{[owner |-> x.owner, table |-> x.table, name |-> x.name, type |-> x.type,
               part |-> x.part, include |-> x.include, constraint |-> n] :
                n \in (IF Uses(x) = {} THEN {0} ELSE {c.name : c \in Uses(x)})} :
               x \in {y \in InOwners(d, Mine) :
                        y.type \in FunctionBased \cup {"CLUSTER", "IOT - TOP", "NORMAL",
                                                       "NORMAL/REV", "BITMAP"}}}

(* The index of an index-organized table is its segment: the overflow      *)
(* stays in the list of the tables, it is not erased.                      *)
PrintIotIndex(r, included) ==
  Say("organization index", <<r.owner, r.table, r.name>>)
  \o PrintKept("IotOverflow", <<r.owner, r.table, "IOT_OVERFLOW">>)
  \o When(r.include > 0,
          Say("including", <<r.owner, r.table, included>>))

IndexStorage(r) ==
  IF r.part THEN PrintAll("AllPartIndexes", <<r.owner, r.table, r.name>>)
  ELSE PrintAll("UserSegments", <<r.owner, r.name, "INDEX", 0>>)

(* An index-organized table's own index is not expected here.              *)
PrintIndex(r) ==
  LET oKey == <<r.owner, r.table, r.name>>
  IN  Say("create index", oKey)
      \o (IF r.type \in FunctionBased \cup {"NORMAL", "NORMAL/REV", "BITMAP"}
          THEN PrintAll("AllIndColumns", oKey) \o IndexStorage(r)
          ELSE IF r.type = "CLUSTER" THEN IndexStorage(r)
          ELSE <<[do |-> "raise"]>>)

PrintUsingIndex(r) == Say("using index", <<r.owner, r.table, r.name>>) \o IndexStorage(r)

AllIndColumns == [list |-> "AllIndColumns", order |-> <<"owner", "table", "index", "pos">>,
                  key |-> <<"owner", "table", "index">>]

AllIndColumnsRows(d) ==
  {[owner |-> c.owner, table |-> c.table, index |-> c.index, pos |-> c.pos, column |-> c.column,
    expression |-> \E e \in d.indexpressions :
                     e.owner = c.owner /\ e.index = c.index /\ e.pos = c.pos] :
     c \in InOwners(d, d.indcolumns)}

PrintIndColumn(r) ==
  IF r.expression THEN PrintAll("AllIndExpressions", <<r.owner, r.table, r.index, r.pos>>)
  ELSE Say("index column", <<r.owner, r.table, r.index, r.column>>)

AllIndExpressions == [AllIndColumns EXCEPT !.list = "AllIndExpressions",
                                           !.key = <<"owner", "table", "index", "pos">>]

AllIndExpressionsRows(d) ==
  {e \in InOwners(d, d.indexpressions) : \E c \in d.indcolumns :
     c.owner = e.owner /\ c.index = e.index /\ c.pos = e.pos}

PrintIndExpression(r) == Say("index expression", <<r.owner, r.table, r.index, r.pos>>)

(* --- Partitioned indexes ----------------------------------------------- *)

AllPartIndexes == [list |-> "AllPartIndexes", order |-> <<"owner", "table", "name">>,
                   key |-> <<"owner", "table", "name">>]

AllPartIndexesRows(d) == InOwners(d, d.partindexes)

PrintPartIndex(r) ==
  LET oKey == <<r.owner, r.name>>
  IN  (IF r.local
       THEN Say("local", oKey)
            \o (IF r.subtype # "NONE" THEN PrintAll("IndSubPartsByQuantity", oKey \o <<TRUE>>)
                ELSE When(r.type = "HASH", PrintAll("IndPartsByQuantity", oKey \o <<TRUE>>)))
       ELSE Say("global partition by", oKey)
            \o PrintAll("AllPartKeyColumns", oKey)
            \o When(r.subtype # "NONE", PrintAll("AllSubPartKeyColumns", oKey)))
      \o PrintAllWith("AllIndPartitions", oKey, <<r.type, r.subtype, r.local>>)

AllIndPartitions == [list |-> "AllIndPartitions", order |-> <<"owner", "index", "pos">>,
                     key |-> <<"owner", "index">>]

IndPartsByQuantity == [AllIndPartitions EXCEPT !.key = <<"owner", "index", "sysname">>]

(* A local index all of whose partitions are where those of the table are  *)
(* needs no partitions of its own.                                         *)
AllIndPartitionsRows(d) ==
  LET Elsewhere(x, p) ==
        ~(x.local /\ \E t \in d.tabpartitions :
            t.owner = x.owner /\ t.table = x.table /\ t.name = p.name /\ t.tbs = p.tbs)
  IN  Rewritten(
        {q \in InOwners(d, d.indpartitions) :
           \E x \in InOwners(d, d.partindexes), p \in d.indpartitions :
             /\ x.subtype = "NONE" /\ x.owner = q.owner /\ x.name = q.index
             /\ p.owner = x.owner /\ p.index = x.name /\ Elsewhere(x, p)})

PrintIndPartition(r, types) ==
  LET of == <<r.owner, r.index, r.name>>
  IN  Say("index partition", of)
      \o When(~types[3], Bounded(types[1], of, r.high))
      \o When(r.composite, PrintAllWith("AllIndSubPartitions", of, <<types[2]>>))

AllIndSubPartitions == [list |-> "AllIndSubPartitions",
                        order |-> <<"owner", "index", "partition", "pos">>,
                        key |-> <<"owner", "index", "partition">>]

(* iCompIndPartByQty looks at the name of the partition, not of the        *)
(* subpartition.                                                           *)
IndSubPartsByQuantity == [AllIndSubPartitions EXCEPT !.key = <<"owner", "index", "partsysname">>]

AllIndSubPartitionsRows(d) ==
  LET Elsewhere(x, p) ==
        ~\E t \in d.tabsubpartitions :
           /\ t.owner = x.owner /\ t.table = x.table
           /\ t.partition = p.partition /\ t.name = p.name /\ t.tbs = p.tbs
  IN  Rewritten(
        {q \in InOwners(d, d.indsubpartitions) :
           \E x \in InOwners(d, d.partindexes), p \in d.indsubpartitions :
             /\ x.subtype # "NONE" /\ x.owner = q.owner /\ x.name = q.index
             /\ p.owner = x.owner /\ p.index = x.name /\ Elsewhere(x, p)})

PrintIndSubPartition(r, types) ==
  Say("index subpartition", <<r.owner, r.index, r.partition, r.name>>)
  \o Bounded(types[1], <<r.owner, r.index, r.name>>, r.high)
=============================================================================
