-------------------------------- MODULE CopyDd --------------------------------
(***************************************************************************)
(* The subset of the dictionary that unload keeps in its repository: for   *)
(* every table of it the query that fills it, from the dictionary or from  *)
(* tables of the repository.                                               *)
(*                                                                         *)
(* x is what a run of the program is given: the dictionary, a set of rows  *)
(* for every view; conf_ are its parameters.  Schemas and names are        *)
(* numbers.  A name from 100 to 199 has a $ in it, and 100 more is the     *)
(* same name with #; names from 300 to 399 are those of the logs and       *)
(* snapshots of the server; names above 900 are in the recycle bin.        *)
(* A pattern of LIKE is the set of names it matches.                       *)
(***************************************************************************)
EXTENDS RowidRanges, Sequences, SequencesExt

AnyName == 0..999

IsSnapshotName(n) == n \in 300..399
IsBinName(n) == n \in 900..999

Of(S, owners) == {r \in S : r.owner \in owners}

(* --- The copies, one for each class ------------------------------------ *)

AllUsersRows(x) == x.users
AllTablesRows(x, owners) == Of(x.tables, owners)
AllIndexesRows(x, owners) == {r \in Of(x.indexes, owners) : ~r.dropped}
AllTriggersRows(x, owners) == {r \in Of(x.triggers, owners) : r.base = "TABLE"}
AllMviewsRows(x, owners) == Of(x.mviews, owners)
AllExternalTablesRows(x, owners) == Of(x.externals, owners)
ColumnOptionalitiesRows(x, owners) == Of(x.columns, owners)
AllConstraintsRows(x, owners) == {r \in Of(x.constraints, owners) : ~IsBinName(r.table)}
AllTabColumnsRows(x, owners) == Of(x.columns, owners)
AllConsColumnsRows(x, owners) == Of(x.conscolumns, owners)
AllObjectsRows(x, owners) == Of(x.objects, owners)
AllTabPartitionsRows(x, owners) == Of(x.partitions, owners)
AllPartTablesRows(x, owners) == Of(x.parttables, owners)
UserObjectsRows(x) == Of(x.objects, {x.me})
AllTabPrivsRows(x, owners) == Of(x.tabprivs, owners)
SessionPrivsRows(x) == x.sysprivs

(* The ranges need the views of the administrator, and a least size.       *)
RowidRangesRows(x, conf_, owners) ==
  LET seen == Of(x.extents, owners)
      Segment(t) == {e \in seen : e.owner = t.owner /\ e.name = t.name}
  IN  IF x.dba /\ conf_.rowid_split_min_size > 0
      THEN UNION {{[owner |-> t.owner, name |-> t.name] @@ r :
                     r \in Ranges(Segment(t), conf_.rowid_split_num_parts, NumBlocks(seen))} :
                    t \in {o \in Of(x.objects, owners) : o.type = "TABLE" /\ o.hasData}}
      ELSE {}

(* The order in which vRefresGetDataRepo fills them.                       *)
tSeqList ==
  <<"ALL_TABLES", "ALL_INDEXES", "ALL_TRIGGERS", "ALL_MVIEWS", "ALL_EXTERNAL_TABLES",
    "COLUMN_OPTIONALITIES", "ALL_CONSTRAINTS", "ALL_TAB_COLUMNS", "ALL_CONS_COLUMNS",
    "ALL_OBJECTS", "ALL_TAB_PARTITIONS", "ALL_PART_TABLES", "ROWID_RANGES", "USER_OBJECTS",
    "ALL_TAB_PRIVS", "SESSION_PRIVS">>

CopyOf(x, conf_, owners, table) ==
  CASE table = "ALL_TABLES" -> AllTablesRows(x, owners)
    [] table = "ALL_INDEXES" -> AllIndexesRows(x, owners)
    [] table = "ALL_TRIGGERS" -> AllTriggersRows(x, owners)
    [] table = "ALL_MVIEWS" -> AllMviewsRows(x, owners)
    [] table = "ALL_EXTERNAL_TABLES" -> AllExternalTablesRows(x, owners)
    [] table = "COLUMN_OPTIONALITIES" -> ColumnOptionalitiesRows(x, owners)
    [] table = "ALL_CONSTRAINTS" -> AllConstraintsRows(x, owners)
    [] table = "ALL_TAB_COLUMNS" -> AllTabColumnsRows(x, owners)
    [] table = "ALL_CONS_COLUMNS" -> AllConsColumnsRows(x, owners)
    [] table = "ALL_OBJECTS" -> AllObjectsRows(x, owners)
    [] table = "ALL_TAB_PARTITIONS" -> AllTabPartitionsRows(x, owners)
    [] table = "ALL_PART_TABLES" -> AllPartTablesRows(x, owners)
    [] table = "ROWID_RANGES" -> RowidRangesRows(x, conf_, owners)
    [] table = "USER_OBJECTS" -> UserObjectsRows(x)
    [] table = "ALL_TAB_PRIVS" -> AllTabPrivsRows(x, owners)
    [] table = "SESSION_PRIVS" -> SessionPrivsRows(x)

(* --- The tables to unload ---------------------------------------------- *)

Key(r) == <<r.owner, r.name>>
Keys(S) == {Key(r) : r \in S}

Matched(patterns, n) == \E i \in DOMAIN patterns : n \in patterns[i]

(* vFillTokensIntoVctInKeySpecFile: the names in the file follow those of  *)
(* the parameter, which is "%" when nothing is given.                      *)
ListTable(conf_) ==
  (IF conf_.listtable = <<>> THEN <<AnyName>> ELSE conf_.listtable) \o conf_.filetable
ListFixed(conf_) == conf_.listfixed \o conf_.filefixed
ListExcpt(conf_) == conf_.listexcpt \o conf_.fileexcpt

vInsItems(repo, patterns) ==
  {[owner |-> t.owner, name |-> t.name, iot |-> t.iot, fixed |-> FALSE, longs |-> 0, lobs |-> 0] :
     t \in {r \in Of(repo["ALL_TABLES"], repo["TARGET_OWNERS"]) : Matched(patterns, r.name)}}

vChgItems(targets, patterns) ==
  {[t EXCEPT !.fixed = Matched(patterns, t.name)] : t \in targets}

vDelItems(targets, patterns) == {t \in targets : ~Matched(patterns, t.name)}

(* In the first statement OWNER is the owner of the snapshot itself.       *)
vDelOptionals(repo, targets) ==
  LET Is(t, S) == Key(t) \in Keys(S)
      readOnly == {m.name : m \in {v \in repo["ALL_MVIEWS"] : ~v.updatable}}
      overflow == {t \in repo["ALL_TABLES"] : t.iot = "IOT_OVERFLOW"}
      transient == {t \in repo["ALL_TABLES"] : t.dropped \/ t.temporary}
  IN  {t \in targets : /\ t.name \notin readOnly
                       /\ ~IsSnapshotName(t.name)
                       /\ ~Is(t, overflow)
                       /\ ~Is(t, repo["ALL_EXTERNAL_TABLES"])
                       /\ ~Is(t, transient)}

vCountSpecialColumn(repo, targets) ==
  LET Num(t, types) == Cardinality({c \in repo["ALL_TAB_COLUMNS"] :
                                      c.owner = t.owner /\ c.table = t.name /\ c.type \in types})
  IN  {[t EXCEPT !.longs = Num(t, {"LONG"}), !.lobs = Num(t, {"LOB"})] : t \in targets}

(* The constructor of cTargetTables.                                       *)
TargetTables(conf_, repo) ==
  vCountSpecialColumn(repo,
    vDelOptionals(repo,
      vDelItems(vChgItems(vInsItems(repo, ListTable(conf_)), ListFixed(conf_)), ListExcpt(conf_))))

(* The order in which their rows are counted, and in which they are        *)
(* unloaded: the largest first.                                            *)
BySize(repo, targets) ==
  LET S == {t \in targets : Key(t) \in Keys(repo["ALL_TABLES"])}
      Size(t) == (CHOOSE r \in repo["ALL_TABLES"] : Key(r) = Key(t)).mbytes
      Precedes(s, t) ==
        \/ Size(s) > Size(t)
        \/ Size(s) = Size(t) /\ s # t /\ NotAfter(Key(s), Key(t))
  IN  [i \in 1..Cardinality(S) |->
         CHOOSE t \in S : Cardinality({s \in S : Precedes(s, t)}) = i - 1]

(* --- The constraints in effect ----------------------------------------- *)

(* cEffectiveCons::B.                                                      *)
B(repo) ==
  LET cons == repo["ALL_CONSTRAINTS"]
      ofTargets == {c \in cons : <<c.owner, c.table>> \in Keys(repo["TARGET_TABLES"])}
      keys == {Key(c) : c \in {k \in ofTargets : k.type \in {"P", "U"}}}
  IN  ofTargets \cup {c \in cons : c.type = "R" /\ <<c.rOwner, c.rName>> \in keys}

(* operator-=: the rows whose key the other has not.                       *)
Minus(S, T) == {r \in S : Key(r) \notin Keys(T)}

(* Fault: what has gone stays.                                             *)
RefreshedKeeps(old, new) == old \cup Minus(new, old)

(* cReposRefresher::vRefresh: what has gone is deleted, what is new is     *)
(* inserted, and a row that is there already is left as it is.             *)
Refreshed(old, new) == (old \ Minus(old, new)) \cup Minus(new, old)
=============================================================================
