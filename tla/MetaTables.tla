----------------------------- MODULE MetaTables -----------------------------
(***************************************************************************)
(* The describers of tables, clusters, materialized views and their logs,  *)
(* with the columns, defaults, segments, lobs, log groups and external     *)
(* files that are written inside them.  Database releases before 11.1 are  *)
(* left out; physical attributes are one clause without their values.      *)
(***************************************************************************)
EXTENDS MetaPrint

(* --- The tables, in the order in which they are written ---------------- *)

OutputOrderTbl == [list |-> "OutputOrderTbl", order |-> <<"owner", "level", "name">>,
                   key |-> <<"owner">>]

(* What a faulty query would return: a table for each of its levels.       *)
OutputOrderTblAllLevels(d) ==
  LET Keyed    == {c \in d.constraints : c.type \in {"P", "U", "R"}}
      Roots    == {c \in InOwners(d, Keyed) : c.rName = 0}
      Children == {c \in Keyed : \E p \in Roots : p.owner = c.rOwner /\ p.name = c.rName}
  IN  {[owner |-> c.owner, level |-> 1, name |-> c.table] : c \in Roots}
      \cup {[owner |-> c.owner, level |-> 2, name |-> c.table] : c \in Children}

(* A constraint that refers to no other starts a hierarchy, a foreign key  *)
(* is one level below the key it refers to, whoever owns it; nothing       *)
(* refers to a foreign key.  A table has the deepest level of its keys; a  *)
(* table without keys is taken from ALL_TABLES.                            *)
OutputOrderTblRows(d) ==
  LET Keyed    == {c \in d.constraints : c.type \in {"P", "U", "R"}}
      Roots    == {c \in InOwners(d, Keyed) : c.rName = 0}
      Children == {c \in Keyed : \E p \in Roots : p.owner = c.rOwner /\ p.name = c.rName}
      At(n, S) == {[owner |-> c.owner, level |-> n, name |-> c.table] : c \in S}
      Below    == At(2, Children)
      Above    == {r \in At(1, Roots) : [r EXCEPT !.level = 2] \notin Below}
      Keyless  == {t \in InOwners(d, d.tables) :
                     /\ ~\E c \in Keyed : c.owner = t.owner /\ c.table = t.name
                     /\ ~t.mlog /\ t.iot = "" /\ ~t.dropped}
      Built    == {m \in InOwners(d, d.mviews) : m.immediate}
  IN  (Below \cup Above
         \cup {[owner |-> t.owner, level |-> 1, name |-> t.name] : t \in Keyless})
      \ {[owner |-> m.owner, level |-> 1, name |-> m.view] : m \in Built}

AllTables == [list |-> "AllTables", order |-> <<"owner", "name">>, key |-> <<"owner", "name">>]

AllTablesRows(d) ==
  {[owner |-> t.owner, name |-> t.name, part |-> t.part, cluster |-> t.cluster,
    iot |-> t.iot, iotName |-> t.iotName, compress |-> t.compress] : t \in InOwners(d, d.tables)}

(* A name of more than seven characters is a number from 100 on; its first *)
(* seven characters are the name that is a hundredth of it.  The size that *)
(* bounds the copy is the size of a pointer, so no more than seven arrive. *)
ClusterOf(s, key) ==
  LET rows == SelectSeq(Found(s, AllTables, key), LAMBDA t : t.cluster # 0)
  IN  IF rows = <<>> THEN 0
      ELSE IF Head(rows).cluster >= 100 THEN Head(rows).cluster \div 100
      ELSE Head(rows).cluster

IsIot(s, key) == \E i \in DOMAIN Found(s, AllTables, key) : Found(s, AllTables, key)[i].iot # ""

AllExternalTables == [list |-> "AllExternalTables", order |-> <<"owner", "name">>,
                      key |-> <<"owner", "name">>]

IsExternal(s, key) == Found(s, AllExternalTables, key) # <<>>

PrintTable(d, s, r) ==
  LET oKey    == <<r.owner, r.name>>
      named   == <<r.owner, r.name, 0>>
      cluster == ClusterOf(s, oKey)
      iot     == IsIot(s, oKey)
  IN  When(cluster = 0, Say("drop table", oKey) \o PrintAll("ParentWithChild", oKey))
      \o Say("create table", oKey)
      \o PrintAll("AllTabColumns", oKey)
      \o PrintAllWith("ConsOfAKey", named, <<iot, "InTable">>)
      \o When(d.dependent, PrintAllWith("ConsOfFKey", oKey, <<"InCreTbl">>))
      \o PrintAll("ConsOfCheck", oKey)
      \o PrintAll("AllLogGroups", <<r.owner, r.name, "GENERATED NAME">>)
      \o PrintAll("AllLogGroups", <<r.owner, r.name, "USER NAME">>)
      \o Say("end of table", oKey)
      \o (IF cluster # 0 THEN PrintAll("UserCluColumns", <<r.owner, r.name, cluster>>)
          ELSE IF iot THEN PrintAllWith("UserIndexes", named, <<TRUE>>)
          ELSE When(IsExternal(s, oKey), PrintAll("AllExternalTables", oKey)))
      \o PrintAll("AllLobs", oKey) \o PrintAll("AllTables", oKey)
      \o PrintAll("DataDefault", oKey)
      \o PrintAllWith("UserIndexes", named, <<FALSE>>)
      \o PrintAll("EffectiveKeyCons", <<r.owner, r.name, 1>>)
      \o PrintAll("AllTriggers", oKey) \o PrintAll("AllTabPrivs", oKey)
      \o PrintAll("UserObjAuditOpts", oKey) \o PrintAll("UserAuditObject", oKey)
      \o PrintAll("AllTabComments", oKey) \o PrintAll("AllColComments", oKey)
      \o PrintAll("AllMviewLogs", oKey)

(* vFullPrinter: the attributes of a partitioned table are those of        *)
(* another list; an index-organized table has them in its index.           *)
PrintTableAttributes(r) ==
  LET oKey == <<r.owner, r.name>>
  IN  IF r.part THEN PrintKept("PartTableStorage", oKey) \o PrintAll("AllPartTables", oKey)
      ELSE When(r.iot = "",
             Say("attributes", oKey) \o PrintAll("UserSegments", <<r.owner, r.name, "TABLE", 0>>)
             \o sGetClause(<<r.owner, r.name, 0>>, r.compress))

(* iIotOvfComp: the segment in which an index-organized table overflows.   *)
IotOverflow == [list |-> "AllTables", order |-> <<"owner", "name">>,
                key |-> <<"owner", "iotName", "iot">>]

PrintIotOverflow(r) ==
  Say("overflow", <<r.owner, r.name>>)
  \o When(~r.part, PrintAll("UserSegments", <<r.owner, r.name, "TABLE", 0>>)
                   \o sGetClause(<<r.owner, r.name, 0>>, r.compress))

(* --- Columns ----------------------------------------------------------- *)

KeyColumns == [list |-> "KeyColumns", order |-> <<"owner", "table", "column">>,
               key |-> <<"owner", "table", "column", "type">>]

KeyColumnsRows(d) ==
  {[owner |-> ck[1].owner, table |-> ck[1].table, column |-> ck[2].column, type |-> ck[1].type] :
     ck \in {ck \in {c \in InOwners(d, d.constraints) : c.type \in {"P", "R"}} \X d.conscolumns :
        ck[2].owner = ck[1].owner /\ ck[2].name = ck[1].name /\ ck[2].table = ck[1].table}}

(* iDoesConstraintHas: asked as each column arrives; the row that answers  *)
(* is erased, and no other column asks for it.                             *)
HasKey(d, c, type) ==
  \E k \in KeyColumnsRows(d) : Matches(KeyColumns.key, <<c.owner, c.table, c.column, type>>, k)

AllTabColumns == [list |-> "AllTabColumns", order |-> <<"owner", "table", "id">>,
                  key |-> <<"owner", "table">>]

AllTabColumnsRows(d) ==
  {[owner |-> c.owner, table |-> c.table, id |-> c.id, column |-> c.column,
    nullable |-> c.nullable, virtual |-> c.virtual,
    pk |-> HasKey(d, c, "P"), fk |-> HasKey(d, c, "R")] :
     c \in {t \in InOwners(d, d.columns) : ~t.hidden}}

(* The type of a column is left to the foreign key when the table is       *)
(* created with it; a virtual column takes its expression from the list of *)
(* the defaults.                                                           *)
PrintTabColumn(d, r) ==
  Say("column", <<r.owner, r.table, r.column, ~(d.dependent /\ r.fk), ~r.nullable /\ ~r.pk>>)
  \o When(r.virtual, PrintAll("VirtualColumn", <<r.owner, r.table, r.column>>))

PrintViewColumn(r) == Say("view column", <<r.owner, r.table, r.column>>)

(* iGetColumnId, szGetColumnName, over a copy that is never consumed.      *)
ColumnId(s, owner, table, column) ==
  LET f == SelectSeq(s.AllColumns,
             LAMBDA c : c.owner = owner /\ c.table = table /\ c.column = column)
  IN  IF f = <<>> THEN 9999 ELSE Head(f).id

ColumnName(s, owner, table, id) ==
  LET f == SelectSeq(s.AllColumns,
             LAMBDA c : c.owner = owner /\ c.table = table /\ c.id = id)
  IN  IF f = <<>> THEN 0 ELSE Head(f).column

DataDefault == [list |-> "DataDefault", order |-> <<"owner", "table", "id">>,
                key |-> <<"owner", "table">>]

DataDefaultRows(d) ==
  {[owner |-> c.owner, table |-> c.table, id |-> c.id, column |-> c.column] :
     c \in {t \in InOwners(d, d.columns) : t.default /\ ~t.hidden}}

DataDefaultPre(key) == Say("alter table modify", <<key[1], key[2]>>)

PrintDefault(r) == Say("default", <<r.owner, r.table, r.column>>)

(* sGetVirtualColumnClause: the defaults by column, erased when taken.     *)
VirtualColumn == [list |-> "DataDefault", order |-> <<"owner", "table", "id">>,
                  key |-> <<"owner", "table", "column">>]

PrintVirtual(r) == Say("generated always as", <<r.owner, r.table, r.column>>)

(* --- Segments, lobs, log groups, external files ------------------------ *)

UserSegments == [list |-> "UserSegments", order |-> <<"owner", "name", "part">>,
                 key |-> <<"owner", "name", "type", "part">>]

(* The sizes are settled as the rows arrive: with compress the extents are *)
(* collapsed into one.                                                     *)
UserSegmentsRows(d) ==
  {[owner |-> g.owner, name |-> g.name, type |-> g.type, part |-> g.part,
    initial |-> IF d.compress THEN g.bytes ELSE g.initial,
    next    |-> IF d.compress THEN g.next ELSE g.initial] :
     g \in {x \in Accessible(d, d.segments) :
              x.type \notin {"TABLE PARTITION", "TABLE SUBPARTITION",
                             "INDEX PARTITION", "INDEX SUBPARTITION"}}}

PrintSegment(r) == Say("storage", <<r.owner, r.name, r.initial, r.next>>)

AllLobs == [list |-> "AllLobs", order |-> <<"owner", "table", "column">>,
            key |-> <<"owner", "table">>]

AllLobsRows(d) == InOwners(d, d.lobs)

PrintLob(r) ==
  Say("lob", <<r.owner, r.table, r.column>>)
  \o PrintAll("UserSegments", <<r.owner, r.segment, "LOBSEGMENT", 0>>)

AllLogGroups == [list |-> "AllLogGroups", order |-> <<"owner", "table", "name">>,
                 key |-> <<"owner", "table", "generated">>]

AllLogGroupsRows(d) == InOwners(d, d.loggroups)

(* A generated group is named by its kind; a kind the code does not know   *)
(* raises, and the script ends there.                                      *)
PrintLogGroup(r) ==
  IF r.generated = "USER NAME"
  THEN Say("log group", <<r.owner, r.table, r.name>>)
       \o PrintAll("AllLogGroupColumns", <<r.owner, r.table, r.name>>)
  ELSE IF r.kind \in {"PRIMARY KEY LOGGING", "UNIQUE KEY LOGGING",
                      "FOREIGN KEY LOGGING", "ALL COLUMN LOGGING"}
  THEN Say("log data", <<r.owner, r.table, r.name>>)
  ELSE <<[do |-> "raise"]>>

AllLogGroupColumns == [list |-> "AllLogGroupColumns", order |-> <<"owner", "table", "group", "pos">>,
                       key |-> <<"owner", "table", "group">>]

AllLogGroupColumnsRows(d) == InOwners(d, d.loggroupcolumns)

PrintLogGroupColumn(r) == Say("logged column", <<r.owner, r.table, r.group, r.column>>)

AllExternalTablesRows(d) == InOwners(d, d.externals)

PrintExternal(r) ==
  Say("organization external", <<r.owner, r.name>>)
  \o PrintAll("AllExternalLocations", <<r.owner, r.name>>)

AllExternalLocations == [list |-> "AllExternalLocations", order |-> <<"owner", "name", "location">>,
                         key |-> <<"owner", "name">>]

AllExternalLocationsRows(d) == InOwners(d, d.locations)

PrintLocation(r) == Say("location", <<r.owner, r.name, r.location>>)

(* --- Clusters ---------------------------------------------------------- *)

AllClusters == [list |-> "AllClusters", order |-> <<"owner", "name">>, key |-> <<"owner">>]

AllClustersRows(d) == InOwners(d, d.clusters)

PrintCluster(r) ==
  LET oKey == <<r.owner, r.name>>
  IN  Say("drop cluster", oKey) \o Say("create cluster", oKey)
      \o PrintAll("AllTabColumns", oKey)
      \o When(r.function = "HASH EXPRESSION", PrintAll("HashExpr", oKey))
      \o PrintAll("UserSegments", <<r.owner, r.name, "CLUSTER", 0>>)
      \o When(r.type = "INDEX", PrintAllWith("UserIndexes", <<r.owner, r.name, 0>>, <<FALSE>>))
      \o PrintAll("AllTabPrivs", oKey) \o PrintAll("UserObjAuditOpts", oKey)
      \o PrintAll("UserAuditObject", oKey)

UserCluColumns == [list |-> "UserCluColumns", order |-> <<"owner", "table", "cluster", "id">>,
                   key |-> <<"owner", "table", "cluster">>]

UserCluColumnsRows(d) ==
  {[owner |-> kc[1].owner, table |-> kc[1].table, cluster |-> kc[1].cluster,
    column |-> kc[1].tabcolumn, id |-> kc[2].id] :
     kc \in {kc \in Accessible(d, d.clucolumns) \X d.columns :
        kc[2].owner = kc[1].owner /\ kc[2].table = kc[1].cluster /\ kc[2].column = kc[1].column}}

UserCluColumnsPre(key) == Say("cluster", key)

PrintCluColumn(r) == Say("cluster column", <<r.owner, r.table, r.column>>)

HashExpr == [list |-> "HashExpr", order |-> <<"owner", "name">>, key |-> <<"owner", "name">>]

HashExprRows(d) == InOwners(d, d.hashexprs)

PrintHashExpr(r) == Say("hash is", <<r.owner, r.name>>)

(* --- Materialized views and their logs --------------------------------- *)

AllMviews == [list |-> "AllMviews", order |-> <<"owner", "view">>, key |-> <<"owner">>]

(* A view that is not refreshed by primary key has the index I_SNAP$_ and  *)
(* its container's name, and that name replaces the one of the constraint. *)
SnapIndex(container) == 900 + container

AllMviewsRows(d) ==
  LET Key(m) == {c \in d.constraints : c.owner = m.owner /\ c.table = m.container /\ c.type = "P"}
      Row(m, name) == [owner |-> m.owner, view |-> m.view, container |-> m.container,
                       immediate |-> m.immediate, useIndex |-> m.useIndex,
                       index |-> IF m.with \in {"ROWID", "AGGREGATE", "UNKNOWN"}
                                 THEN SnapIndex(m.container) ELSE name,
                       keyed |-> name # 0]
  IN  UNION {IF Key(m) = {} THEN {Row(m, 0)} ELSE {Row(m, c.name) : c \in Key(m)} :
               m \in InOwners(d, d.mviews)}

PrintMview(s, r) ==
  LET oKey    == <<r.owner, r.view>>
      inner   == <<r.owner, r.container>>
      cluster == ClusterOf(s, inner)
      iot     == IsIot(s, inner)
  IN  Say("drop mview", oKey) \o Say("create mview", oKey)
      \o (IF ~r.immediate THEN Say("on prebuilt table", inner)
          ELSE (IF cluster # 0 THEN PrintAll("UserCluColumns", inner \o <<cluster>>)
                ELSE When(iot, PrintAllWith("UserIndexes", inner \o <<0>>, <<TRUE>>)))
               \o PrintAll("AllTables", inner))
      \o (IF ~r.useIndex THEN Say("using no index", oKey)
          ELSE When(r.index # 0, PrintAll("UsingIndex", oKey \o <<r.index>>))
               \o When(r.keyed, Subtract("ConsByName", <<r.owner, r.index>>)
                                \o Subtract("EffectiveByName", <<r.owner, r.index>>)))
      \o PrintAllWith("ConsOfAKey", oKey \o <<0>>, <<iot, "InSnap">>)
      \o PrintAllWith("UserIndexes", oKey \o <<0>>, <<FALSE>>)
      \o PrintAll("EffectiveKeyCons", oKey \o <<1>>)
      \o PrintAll("AllTriggers", oKey) \o PrintAll("AllTabPrivs", oKey)
      \o PrintAll("UserObjAuditOpts", oKey) \o PrintAll("UserAuditObject", oKey)
      \o PrintAll("AllTabComments", oKey) \o PrintAll("AllColComments", oKey)
      \o PrintAll("AllMviewLogs", oKey)

AllMviewLogs == [list |-> "AllMviewLogs", order |-> <<"owner", "master">>,
                 key |-> <<"owner", "master">>]

AllMviewLogsRows(d) ==
  {l \in InOwners(d, d.mviewlogs) : \E t \in d.tables : t.owner = l.owner /\ t.name = l.log}

(* The segment is looked up by the name of the master, not of the log.     *)
PrintMviewLog(d, r) ==
  LET oKey == <<r.owner, r.log>>
  IN  Say("create log", <<r.owner, r.master>>)
      \o PrintAll("UserSegments", <<r.owner, r.master, "TABLE", 0>>)
      \o When(d.dba, PrintAll("DbaMviewLogFilterCols", <<r.owner, r.master>>))
      \o PrintAll("AllTabPrivs", oKey) \o PrintAll("UserObjAuditOpts", oKey)
      \o PrintAll("UserAuditObject", oKey) \o PrintAll("AllTabComments", oKey)
      \o PrintAll("AllColComments", oKey)

DbaMviewLogFilterCols == [list |-> "DbaMviewLogFilterCols", order |-> <<"owner", "name", "column">>,
                          key |-> <<"owner", "name">>]

(* The columns of the primary key are in the log anyway.                   *)
DbaMviewLogFilterColsRows(d) ==
  {f \in InOwners(d, d.filtercols) :
     ~\E c \in d.constraints, k \in d.conscolumns :
        /\ c.owner = f.owner /\ c.table = f.name /\ c.type = "P"
        /\ k.owner = c.owner /\ k.name = c.name /\ k.table = c.table /\ k.column = f.column}

PrintFilterCol(s, r) ==
  Say("filter column", <<r.owner, r.name, r.column, ColumnId(s, r.owner, r.name, r.column)>>)
=============================================================================
