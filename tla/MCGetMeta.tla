------------------------------ MODULE MCGetMeta ------------------------------
(***************************************************************************)
(* Small dictionaries, one for each group of describers, described for one *)
(* or two owners, in either order (SELECT OWNER FROM TARGET_OWNERS has no  *)
(* ORDER BY), with and without the DBA_ views, with the foreign keys       *)
(* inside CREATE TABLE and behind it.  Owners are 1, 2 and 3, of which 3   *)
(* is never described; tables are numbered from 10, constraints from 200,  *)
(* indexes from 300.                                                       *)
(***************************************************************************)
EXTENDS GetMeta

Nothing ==
  [owners |-> <<1>>, me |-> 1, dba |-> TRUE, dependent |-> FALSE, compress |-> FALSE,
   cmntlvl |-> 2, numdays |-> 7,
   privs |-> {}, objects |-> {}, auditopts |-> {}, trail |-> {}, comments |-> {},
   colcomments |-> {}, columns |-> {}, triggers |-> {}, links |-> {}, sequences |-> {},
   source |-> {}, views |-> {}, mviews |-> {}, synonyms |-> {}, refresh |-> {},
   refreshchildren |-> {}, jobs |-> {}, constraints |-> {}, conscolumns |-> {}, tables |-> {},
   segments |-> {}, lobs |-> {}, loggroups |-> {}, loggroupcolumns |-> {}, externals |-> {},
   locations |-> {}, clusters |-> {}, clucolumns |-> {}, hashexprs |-> {}, mviewlogs |-> {},
   filtercols |-> {}, indexes |-> {}, indcolumns |-> {}, indexpressions |-> {},
   partindexes |-> {}, indpartitions |-> {}, indsubpartitions |-> {}, parttables |-> {},
   partkeys |-> {}, subpartkeys |-> {}, tabpartitions |-> {}, tabsubpartitions |-> {},
   templates |-> {}]

Compress(on, for) == [on |-> on, for |-> for]

Plain(o, n) == [owner |-> o, name |-> n, part |-> FALSE, cluster |-> 0, iot |-> "", iotName |-> 0,
                dropped |-> FALSE, mlog |-> FALSE, compress |-> Compress("DISABLED", <<>>)]

Column(o, t, i) == [owner |-> o, table |-> t, id |-> i, column |-> i, nullable |-> TRUE,
                    virtual |-> FALSE, hidden |-> FALSE, default |-> FALSE]

Columns(o, tables) == {Column(o, t, i) : t \in tables, i \in 1..2}

Key(o, t, n, type) == [owner |-> o, name |-> n, table |-> t, type |-> type, rOwner |-> 0, rName |-> 0,
                       enabled |-> TRUE, index |-> n + 100, notnull |-> FALSE]

FKey(o, t, n, ro, r) == [Key(o, t, n, "R") EXCEPT !.rOwner = ro, !.rName = r, !.index = 0]

Check(o, t, n, notnull) == [Key(o, t, n, "C") EXCEPT !.index = 0, !.notnull = notnull]

KeyColumn(c, i) == [owner |-> c.owner, name |-> c.name, table |-> c.table, column |-> i, pos |-> i]

Index(o, t, n) == [owner |-> o, table |-> t, name |-> n, type |-> "NORMAL", part |-> FALSE,
                   include |-> 0]

IndColumn(x) == [owner |-> x.owner, table |-> x.table, index |-> x.name, pos |-> 1, column |-> 1]

Of(o, n) == [owner |-> o, name |-> n]

Priv(o, n) == [owner |-> o, name |-> n, priv |-> 1, grantee |-> 9]

Object(o, n, type) == [owner |-> o, name |-> n, type |-> type, generated |-> FALSE]

(* What hangs on every object, whatever it is.                             *)
Decorated(x, objects) ==
  [x EXCEPT !.objects = @ \cup objects,
            !.privs = {Priv(o.owner, o.name) : o \in objects},
            !.auditopts = {[owner |-> o.owner, name |-> o.name, opts |-> {"SELECT"}] : o \in objects},
            !.trail = {[owner |-> o.owner, name |-> o.name, at |-> 1, age |-> 3] : o \in objects},
            !.comments = {[owner |-> o.owner, name |-> o.name, mlog |-> FALSE, given |-> o.owner = 1] :
                            o \in {p \in objects : p.type \in {"TABLE", "VIEW", "MATERIALIZED VIEW"}}},
            !.colcomments = {[owner |-> c.owner, name |-> c.table, column |-> c.column,
                              given |-> c.column = 1] :
                               c \in {k \in x.columns : \E o \in objects :
                                        o.owner = k.owner /\ o.name = k.table /\ o.type # "CLUSTER"}}]

Tables(o, names) == {Object(o, n, "TABLE") : n \in names}

(* Keys: a parent, a child, a grandchild and a table that refers to itself *)
(* in one schema, the same in another, which also refers to the first; the *)
(* child refers to one key of its parent once or twice.                    *)
KeyConstraints(o, twice) ==
  {Key(o, 10, 201, "P"), [Key(o, 10, 202, "U") EXCEPT !.index = IF twice THEN 301 ELSE 302], Key(o, 12, 205, "P"), FKey(o, 12, 203, o, 201),
   FKey(o, 11, 204, o, 205), Key(o, 13, 207, "P"), FKey(o, 13, 208, o, 207),
   Check(o, 10, 209, FALSE), Check(o, 11, 210, TRUE)}
  \cup (IF twice THEN {FKey(o, 13, 206, o, 201)} ELSE {})

KeyIndexes(cs) ==
  {Index(c.owner, c.table, c.index) : c \in {k \in cs : k.type \in {"P", "U"}}}

KeyDictionary(owners, foreign, twice) ==
  LET os == {owners[i] : i \in DOMAIN owners}
      cs == UNION {KeyConstraints(o, twice) : o \in os}
            \cup {Key(3, 10, 201, "P")}
            \cup (IF foreign THEN {FKey(2, 14, 211, 1, 201), FKey(1, 15, 212, 3, 201), FKey(3, 16, 213, 1, 201)} ELSE {})
      ts == {10, 11, 12, 13, 14, 15}
      xs == KeyIndexes({c \in cs : c.owner \in os})
      bare == [Nothing EXCEPT !.owners = owners,
                 !.constraints = cs,
                 !.tables = {Plain(o, t) : o \in os, t \in ts},
                 !.columns = UNION {Columns(o, ts) : o \in os},
                 !.conscolumns = {KeyColumn(c, 1) : c \in {k \in cs : k.type # "C"}}
                                 \cup {KeyColumn(c, 2) : c \in {k \in cs : k.name = 202}},
                 !.indexes = xs, !.indcolumns = {IndColumn(x) : x \in xs},
                 !.triggers = {[owner |-> o, name |-> 60, table |-> 10, tableOwner |-> o,
                                base |-> "TABLE"] : o \in os},
                 !.segments = {[owner |-> o, name |-> t, type |-> "TABLE", part |-> 0, bytes |-> 8,
                                initial |-> 2, next |-> 1] : o \in os, t \in ts}]
  IN  Decorated(bare, UNION {Tables(o, ts) : o \in os})

(* Storage: an index-organized table with an overflow, a clustered, an     *)
(* external and a partitioned table, lobs, log groups, virtual columns.    *)
StorageDictionary(cluster, kind) ==
  LET ts == {14, 15, 16, 17, 18, 19}
      wide == cluster = 3000
      Bound(p) == IF wide THEN <<<<<<"NUMBER", 10>>, <<"MAXVALUE">>>>,
                                 <<<<"MAXVALUE">>, <<"MAXVALUE">>>>, <<>>>>[p]
                  ELSE <<<<<<"DATE", 2019, 1, 31, 0>>>>, <<<<"DATE", 2019, 2, 28, 12>>>>,
                         <<<<"DATE", 2019, 3, 31, 0>>>>>>[p]
      SubBound(n) == IF ~wide THEN <<>>
                     ELSE IF n = 81 THEN <<<<"NUMBER", 10>>, <<"NUMBER", 20>>>>
                     ELSE IF n = 82 THEN <<<<"NULL">>, <<"NUMBER", 30>>>> ELSE <<<<"DEFAULT">>>>
      iotKey == Key(1, 14, 241, "P")
      xs == {[Index(1, 14, 241) EXCEPT !.type = "IOT - TOP", !.include = 2],
             [Index(1, 30, 330) EXCEPT !.type = "CLUSTER"],
             [Index(1, 18, 318) EXCEPT !.part = TRUE], [Index(1, 18, 319) EXCEPT !.part = TRUE],
             [Index(1, 19, 320) EXCEPT !.type = IF wide THEN "FUNCTION-BASED BITMAP" ELSE "FUNCTION-BASED NORMAL"]}
      Part(n, p, sys) == [owner |-> 1, table |-> 18, name |-> n, pos |-> p, tbs |-> p,
                          composite |-> ~sys, sysname |-> sys, high |-> Bound(p),
                          compress |-> <<Compress("ENABLED", <<"OLTP">>), Compress("NONE", <<>>),
                                         Compress("ENABLED", <<>>)>>[p]]
      Sub(p, n, sys, pre) == [owner |-> 1, table |-> 18, partition |-> p, name |-> n, tbs |-> 1,
                              sysname |-> sys, prefixed |-> pre,
                              high |-> SubBound(n),
                              compress |-> CASE n = 81 -> Compress("ENABLED", <<"QUERY", "LOW">>)
                                             [] n = 82 -> Compress("DISABLED", <<>>)
                                             [] n = 83 -> IF wide THEN Compress("DISABLED", <<>>)
                                                          ELSE Compress("ENABLED", <<"OLTP">>)
                                             [] n = 84 -> Compress("ENABLED", <<>>)]
      IndPart(x, n, t) == [owner |-> 1, index |-> x, name |-> n, pos |-> n - 70, tbs |-> t,
                           composite |-> x = 318, sysname |-> FALSE,
                           high |-> IF wide THEN <<<<"MAXVALUE">>>> ELSE <<>>]
      bare == [Nothing EXCEPT
        !.constraints = {iotKey}, !.conscolumns = {KeyColumn(iotKey, 1)},
        !.tables = {[Plain(1, 14) EXCEPT !.iot = "IOT"],
                    [Plain(1, 15) EXCEPT !.iot = "IOT_OVERFLOW", !.iotName = 14],
                    [Plain(1, 16) EXCEPT !.cluster = cluster], Plain(1, 17),
                    [Plain(1, 18) EXCEPT !.part = TRUE],
                    [Plain(1, 19) EXCEPT !.compress = Compress("ENABLED", <<"ALL">>)],
                    [Plain(1, 20) EXCEPT !.dropped = TRUE]},
        !.columns = Columns(1, {14, 16, 17, 18, 30})
                    \cup {[Column(1, 19, 1) EXCEPT !.default = TRUE],
                          [Column(1, 19, 2) EXCEPT !.default = TRUE, !.virtual = TRUE],
                          [Column(1, 19, 3) EXCEPT !.hidden = TRUE]},
        !.indexes = xs, !.indcolumns = {IndColumn(x) : x \in xs},
        !.indexpressions = {[owner |-> 1, table |-> 19, index |-> 320, pos |-> 1]},
        !.clusters = {[owner |-> 1, name |-> cluster, type |-> "INDEX", function |-> "NONE"],
                      [owner |-> 1, name |-> 31, type |-> "HASH", function |-> "HASH EXPRESSION"]},
        !.clucolumns = {[owner |-> 1, table |-> 16, cluster |-> cluster, column |-> 1,
                         tabcolumn |-> 1]},
        !.hashexprs = {Of(1, 31)},
        !.externals = {Of(1, 17)}, !.locations = {[owner |-> 1, name |-> 17, location |-> 1]},
        !.parttables = {[owner |-> 1, name |-> 18, type |-> "RANGE",
                         subtype |-> IF wide THEN "LIST" ELSE "HASH", interval |-> ~wide,
                         compress |-> IF wide THEN Compress("ENABLED", <<>>)
                                      ELSE Compress("DISABLED", <<>>)]},
        !.partkeys = {[owner |-> 1, name |-> n, column |-> c, pos |-> c] :
                        n \in {18, 318, 319}, c \in 1..IF wide THEN 2 ELSE 1},
        !.subpartkeys = {[owner |-> 1, name |-> 18, column |-> 2, pos |-> 1]},
        !.tabpartitions = {Part(71, 1, FALSE), Part(72, 2, FALSE), Part(73, 3, ~wide)},
        !.tabsubpartitions = {Sub(71, 81, FALSE, FALSE), Sub(71, 82, FALSE, TRUE),
                              Sub(72, 83, ~wide, FALSE), Sub(73, 84, TRUE, FALSE)},
        !.templates = {[owner |-> 1, table |-> 18, name |-> 91, pos |-> 1,
                         high |-> SubBound(84)]},
        !.partindexes = {[owner |-> 1, table |-> 18, name |-> 318, local |-> TRUE, type |-> "RANGE",
                          subtype |-> IF wide THEN "LIST" ELSE "HASH"],
                         [owner |-> 1, table |-> 18, name |-> 319, local |-> FALSE,
                          type |-> IF wide THEN "RANGE" ELSE "HASH",
                          subtype |-> "NONE"]},
        !.indpartitions = {IndPart(318, 71, 1), IndPart(318, 72, 2), IndPart(319, 71, 5)},
        !.indsubpartitions = {[owner |-> 1, index |-> 318, partition |-> 71, name |-> 81, pos |-> 1,
                               tbs |-> 4, partsysname |-> FALSE, high |-> SubBound(81)]},
        !.lobs = {[owner |-> 1, table |-> 19, column |-> 1, segment |-> 50]},
        !.segments = {[owner |-> 1, name |-> n, type |-> IF n = 50 THEN "LOBSEGMENT"
                                                         ELSE IF n = 31 THEN "CLUSTER" ELSE "TABLE",
                       part |-> 0, bytes |-> 8, initial |-> 2, next |-> 1] : n \in {15, 19, 31, 50}},
        !.loggroups = {[owner |-> 1, table |-> 19, name |-> 95, generated |-> "USER NAME",
                        kind |-> "USER LOG GROUP"],
                       [owner |-> 1, table |-> 19, name |-> 96, generated |-> "GENERATED NAME",
                        kind |-> kind]},
        !.loggroupcolumns = {[owner |-> 1, table |-> 19, group |-> 95, column |-> 1, pos |-> 1]}]
  IN  Decorated(bare, Tables(1, ts) \cup {Object(1, cluster, "CLUSTER")})

(* Snapshots: on prebuilt tables and on their own, by primary key and by   *)
(* rowid, with a log on their master and a refresh group.                  *)
SnapshotDictionary(with, useIndex) ==
  LET cs == {Key(1, 10, 201, "P"), Key(1, 21, 221, "P"), Key(1, 22, 222, "P")}
      xs == {Index(1, 10, 301), [Index(1, 21, 321) EXCEPT !.name = IF with = "ROWID" THEN 921 ELSE 221],
             Index(1, 22, 322)}
      Snapshot(n, imm) == [owner |-> 1, view |-> n, container |-> n, immediate |-> imm,
                           useIndex |-> useIndex, with |-> with]
      bare == [Nothing EXCEPT
        !.constraints = cs, !.conscolumns = {KeyColumn(c, 1) : c \in cs},
        !.tables = {Plain(1, n) : n \in {10, 21, 22}} \cup {[Plain(1, 40) EXCEPT !.mlog = TRUE]},
        !.columns = Columns(1, {10, 21, 22, 40}),
        !.indexes = xs, !.indcolumns = {IndColumn(x) : x \in xs},
        !.mviews = {Snapshot(21, TRUE), Snapshot(22, FALSE)},
        !.mviewlogs = {[owner |-> 1, master |-> 10, log |-> 40]},
        !.filtercols = {[owner |-> 1, name |-> 10, column |-> c] : c \in 1..2},
        !.refresh = {[owner |-> 1, name |-> 25, job |-> 1], [owner |-> 1, name |-> 26, job |-> 2]},
        !.refreshchildren = {[owner |-> 1, name |-> 25, of |-> 1, mview |-> 21]},
        !.jobs = {[owner |-> 1, job |-> j] : j \in 1..3}]
  IN  Decorated(bare, Tables(1, {10, 21, 22}) \cup {Object(1, n, "MATERIALIZED VIEW") : n \in {21, 22}})

(* Programs, views, synonyms, sequences and links of two schemas.          *)
ProgramDictionary(owners, cmntlvl, numdays) ==
  LET os == 1..2
      types == {"TYPE", "TYPE BODY", "PACKAGE", "PACKAGE BODY", "FUNCTION", "PROCEDURE"}
      NameOf == [t \in types |-> CASE t \in {"TYPE", "TYPE BODY"} -> 51
                                   [] t \in {"PACKAGE", "PACKAGE BODY"} -> 52
                                   [] t = "FUNCTION" -> 53 [] OTHER -> 54]
      ps == {Object(o, NameOf[t], t) : o \in os, t \in types} \cup {Object(2, 55, "PROCEDURE")}
      bare == [Nothing EXCEPT !.owners = owners, !.cmntlvl = cmntlvl, !.numdays = numdays,
        !.columns = UNION {Columns(o, {60}) : o \in os},
        !.source = {[owner |-> p.owner, name |-> p.name, type |-> p.type, line |-> l] :
                      p \in {q \in ps : q.name # 55}, l \in 1..2},
        !.views = {Of(o, 60) : o \in os}, !.synonyms = {Of(o, 61) : o \in os},
        !.triggers = {[owner |-> 1, name |-> 63, table |-> 60, tableOwner |-> 1, base |-> "VIEW"]},
        !.sequences = {[owner |-> o, name |-> 62, min |-> AscMin, max |-> IF o = 1 THEN 5 ELSE DescMax,
                        by |-> IF o = 1 THEN 1 ELSE -1] : o \in os},
        !.links = {[owner |-> 1, name |-> 71, user |-> "named"], [owner |-> 1, name |-> 72, user |-> ""],
                   [owner |-> 1, name |-> 73, user |-> "named"],
                   [owner |-> 2, name |-> 70, user |-> ""], [owner |-> 2, name |-> 74, user |-> "named"]},
        !.jobs = {[owner |-> o, job |-> o] : o \in os}]
  IN  Decorated(bare, ps \cup {Object(o, 60, "VIEW") : o \in os}
                         \cup {Object(o, 62, "SEQUENCE") : o \in os})

MCDictionaries ==
  {[x EXCEPT !.dba = dba, !.dependent = dep, !.compress = dep] :
     x \in {KeyDictionary(<<1, 2>>, TRUE, FALSE), KeyDictionary(<<2, 1>>, TRUE, FALSE),
             KeyDictionary(<<1>>, FALSE, TRUE)}
           \cup {StorageDictionary(30, "PRIMARY KEY LOGGING"),
                 StorageDictionary(3000, "ALL COLUMN LOGGING"), StorageDictionary(30, "UNKNOWN")}
           \cup {SnapshotDictionary(w, u) : w \in {"ROWID", "PRIMARY KEY"}, u \in BOOLEAN}
           \cup {ProgramDictionary(<<1, 2>>, 0, -1), ProgramDictionary(<<2, 1>>, 1, 7),
                  ProgramDictionary(<<1>>, 2, 1), ProgramDictionary(<<1, 2>>, 2, 1)},
     dba \in BOOLEAN, dep \in BOOLEAN}
==============================================================================
