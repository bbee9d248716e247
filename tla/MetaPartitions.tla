--------------------------- MODULE MetaPartitions ---------------------------
(***************************************************************************)
(* The describers of partitioned tables.  A partition the database named   *)
(* (SYS_P..., SYS_SUBP...) is not written by name: its tablespace is put   *)
(* in a STORE IN clause, and the rows are erased before the rest is.       *)
(***************************************************************************)
EXTENDS MetaPrint

AllPartTables == [list |-> "AllPartTables", order |-> <<"owner", "name">>,
                  key |-> <<"owner", "name">>]

(* vStoragePrinter, over the same rows.                                    *)
PartTableStorage == AllPartTables

AllPartTablesRows(d) == InOwners(d, d.parttables)

PrintPartStorage(r) == Say("default attributes", <<r.owner, r.name>>)

PrintPartTable(r) ==
  LET oKey == <<r.owner, r.name>>
  IN  sGetClause(<<r.owner, r.name, 0>>, r.compress)
      \o Say("partition by", <<r.owner, r.name, r.type>>)
      \o When(r.type # "REFERENCE", PrintAll("AllPartKeyColumns", oKey))
      \o When(r.interval, PrintAllWith("TabPartsByQuantity", oKey \o <<TRUE>>, <<"interval">>))
      \o When(r.type = "HASH", PrintAllWith("TabPartsByQuantity", oKey \o <<TRUE>>, <<"partitions">>))
      \o When(r.subtype # "NONE",
              Say("subpartition by", <<r.owner, r.name, r.subtype>>)
              \o PrintAll("AllSubPartKeyColumns", oKey)
              \o PrintAllWith("AllSubPartitionTemplates", oKey, <<r.subtype>>)
              \o Subtract("DerivedFromTemplate", oKey \o <<TRUE>>)
              \o When(r.subtype = "HASH", PrintAll("TabSubPartsByQuantity", oKey \o <<TRUE>>)))
      \o PrintAllWith("AllTabPartitions", oKey, <<r.type, r.subtype, r.compress>>)

(* The columns of the keys; a local index is partitioned as its table is.  *)
AllPartKeyColumns == [list |-> "AllPartKeyColumns", order |-> <<"owner", "name", "pos">>,
                      key |-> <<"owner", "name">>]

AllSubPartKeyColumns == [AllPartKeyColumns EXCEPT !.list = "AllSubPartKeyColumns"]

NotOfLocalIndex(d, S) ==
  {r \in InOwners(d, S) : ~\E x \in d.partindexes : x.owner = r.owner /\ x.name = r.name /\ x.local}

AllPartKeyColumnsRows(d) == NotOfLocalIndex(d, d.partkeys)

AllSubPartKeyColumnsRows(d) == NotOfLocalIndex(d, d.subpartkeys)

PrintPartKeyColumn(r) == Say("partition key", <<r.owner, r.name, r.column>>)

PrintSubPartKeyColumn(r) == Say("subpartition key", <<r.owner, r.name, r.column>>)

(* --- Partitions -------------------------------------------------------- *)

AllTabPartitions == [list |-> "AllTabPartitions", order |-> <<"owner", "table", "pos">>,
                     key |-> <<"owner", "table">>]

AllTabPartitionsRows(d) == Rewritten(InOwners(d, d.tabpartitions))

(* What a faulty printer would do: write, and erase, the partitions the    *)
(* database named when it comes to the first partition.                    *)
PrintTabPartitionAndStore(r, given) ==
  When(r.pos = 1, PrintAllWith("TabPartsByQuantity", <<r.owner, r.table, FALSE>>, <<"partitions">>))
  \o Say("partition", <<r.owner, r.table, r.name>>)

(* What is said of the table need not be said again; given are the kinds   *)
(* of its partitions and subpartitions, and its compression.               *)
PrintTabPartition(r, given) ==
  LET of == <<r.owner, r.table, r.name>>
  IN  Say("partition", of)
      \o Bounded(given[1], of, r.high)
      \o When(~SameCompression(r.compress, given[3]), sGetClause(of, r.compress))
      \o When(r.composite, PrintAllWith("AllTabSubPartitions", of, <<given[2], r.compress>>))

(* iCompTabPartByQty is not given whether the database named a partition,  *)
(* it looks at the name; the key of vRptTabPartByQuantity has no more than *)
(* the table.                                                              *)
TabPartsByQuantity == [AllTabPartitions EXCEPT !.key = <<"owner", "table", "sysname">>]

(* Every tablespace is written once.                                       *)
PrintStoreIn(q, i) ==
  When(\A j \in 1..i - 1 : q[j].tbs # q[i].tbs, Say("store in", <<q[i].owner, q[i].tbs>>))

(* An interval is written even when nothing has been inserted yet.         *)
TabPartsNotFound(key, prefix) == When(prefix = "interval", Say("interval", <<key[1], key[2]>>))

AllTabSubPartitions == [list |-> "AllTabSubPartitions",
                        order |-> <<"owner", "table", "partition", "name">>,
                        key |-> <<"owner", "table", "partition">>]

AllTabSubPartitionsRows(d) == Rewritten(InOwners(d, d.tabsubpartitions))

PrintTabSubPartition(r, given) ==
  LET of == <<r.owner, r.table, r.name>>
  IN  Say("subpartition", <<r.owner, r.table, r.partition, r.name>>)
      \o Bounded(given[1], of, r.high)
      \o When(~SameCompression(r.compress, given[2]), sGetClause(of, r.compress))

TabSubPartsByQuantity == [AllTabSubPartitions EXCEPT !.key = <<"owner", "table", "sysname">>]

(* iPrefixMatchedToSubPartition: the name begins with the partition's, as  *)
(* the names do that the database derives from a template.                 *)
DerivedFromTemplate == [AllTabSubPartitions EXCEPT !.key = <<"owner", "table", "prefixed">>]

AllSubPartitionTemplates == [list |-> "AllSubPartitionTemplates",
                             order |-> <<"owner", "table", "pos">>, key |-> <<"owner", "table">>]

AllSubPartitionTemplatesRows(d) == Rewritten(InOwners(d, d.templates))

PrintTemplate(r, types) ==
  Say("template", <<r.owner, r.table, r.name>>)
  \o Bounded(types[1], <<r.owner, r.table, r.name>>, r.high)
=============================================================================
