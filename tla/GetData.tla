------------------------------- MODULE GetData -------------------------------
(***************************************************************************)
(* The features "unload" and "query", from main to the end of the process. *)
(* In unload the dictionary is copied into the repository, the tables to   *)
(* unload are chosen in it, a schedule of SELECTs is made of them and      *)
(* executed, and scripts are written that load the files into another      *)
(* database.  In query the statements are those of the user.               *)
(*                                                                         *)
(* repo is the repository as the program sees it, saved is what has been   *)
(* committed: a transaction is committed when it ends, whether it ends     *)
(* well or by an exception, but not when the process is killed.  Without a *)
(* name the repository ends with the process.  Executing a task is a step; *)
(* what a task does is Unloader, how tasks share threads is Dispatcher.    *)
(***************************************************************************)
EXTENDS CopyDd, Query, PrivsGiven

CONSTANTS
  Given,        (* What the program may be given: parameters, dictionaries.*)
  MaxRuns,      (* How often it is started.                                *)
  MaxMissing    (* How many rows a copy that fails may lack, unless all.   *)

(* The dictionary has a row for each table; a table whose name is one of   *)
(* the recycle bin has been dropped.  Options are of their types.          *)
ASSUME GivenAssumption ==
  \A g \in Given :
    /\ IsFiniteSet(g.tables)
    /\ \A t \in g.tables :
         /\ t.owner \in Int /\ t.name \in AnyName /\ t.mbytes \in Int /\ t.rows \in Int
         /\ IsBinName(t.name) => t.dropped
    /\ \A s, t \in g.tables : Key(s) = Key(t) => s = t
    /\ Outcome(g.start) = "parsed" =>
         /\ as(vm_(g.start), "num_rows") \in Int
         /\ as(vm_(g.start), "filetable") \in Seq(SUBSET AnyName)

VARIABLES
  x,            (* What this run is given.                                 *)
  conf_,        (* The options that are used, once they are known.         *)
  runs,         (* How many runs there have been.                          *)
  trouble,      (* How many more failures and signals this run will meet.  *)
  pc,           (* What is done next.                                      *)
  repo, saved,  (* The repository.                                         *)
  inherited,    (* EFFECTIVE_CONS as this run found it.                    *)
  cont_,        (* cRtn::iCotinue.                                         *)
  failed,       (* The tables whose copy was cut short.                    *)
  todo,         (* What is still to be copied, counted, queried or written.*)
  deleted,      (* The variable that is bound to :b_deleted.               *)
  oTableList,   (* The targets.                                            *)
  unldrs,       (* The tasks.                                              *)
  files,        (* What the tasks have written.                            *)
  make_sh,      (* The lines of _make.sh.                                  *)
  oUserIndexes, (* The indexes that have been read for the scripts ...     *)
  oAllIndColumns, (* ... and those whose columns have been.                *)
  sql           (* The scripts that are written.                           *)

repoVars == <<repo, saved, inherited>>
listVars == <<todo, deleted, oTableList>>
readVars == <<oUserIndexes, oAllIndColumns>>
outVars == <<unldrs, files, make_sh, sql, readVars>>
vars == <<x, conf_, runs, trouble, pc, repoVars, cont_, failed, listVars, outVars>>

RepoTables ==
  {tSeqList[i] : i \in DOMAIN tSeqList}
  \cup {"ALL_USERS", "TARGET_OWNERS", "TARGET_TABLES", "EFFECTIVE_CONS"}

NoRepo == [t \in RepoTables |-> {}]

owners == repo["TARGET_OWNERS"]

(* --- Names of files ---------------------------------------------------- *)

(* sConvertDollar2Sharp.                                                   *)
Sharp(n) == IF n \in 100..199 THEN n + 100 ELSE n

FileOf(t) == <<t.owner, Sharp(t.name)>>

(* regTagName_: no letter of a name is $ or #.                             *)
IsLexical(tag) == tag[2] \notin 100..299

(* --- The schedule ------------------------------------------------------ *)

BytesPerMB == 4

(* cPartitionedByScheme: the partitions of the targets, the largest first. *)
SchemeRows ==
  {p \in repo["ALL_TAB_PARTITIONS"] :
     /\ Key(p) \in Keys(repo["TARGET_TABLES"])
     /\ Key(p) \in Keys(repo["ALL_PART_TABLES"])
     /\ \E o \in repo["ALL_OBJECTS"] :
          Key(o) = Key(p) /\ o.sub = p.part /\ o.type = "TABLE PARTITION"}

(* cPartitionedByRowid: the ranges of the targets that are large enough.   *)
RowidRows ==
  {r \in repo["ROWID_RANGES"] :
     \E t \in repo["ALL_TABLES"] :
       /\ Key(t) = Key(r) /\ Key(t) \in Keys(repo["TARGET_TABLES"])
       /\ ~t.partitioned
       /\ t.mbytes >= conf_.rowid_split_min_size \div BytesPerMB}

IsLarger(p, q) == p.bytes > q.bytes \/ (p.bytes = q.bytes /\ p.part < q.part)

SchemePieces(t) ==
  LET rows == SetToSortSeq({p \in SchemeRows : Key(p) = Key(t)}, IsLarger)
  IN  [i \in DOMAIN rows |-> [select |-> [table |-> Key(t), of |-> <<"partition", rows[i].part>>],
                              part |-> rows[i].part]]

RowidPieces(t) ==
  LET rows == SetToSortSeq({r \in RowidRows : Key(r) = Key(t)}, LAMBDA r, s : r.rn < s.rn)
  IN  [i \in DOMAIN rows |-> [select |-> [table |-> Key(t), of |-> <<"rowid", rows[i].bgn, rows[i].end>>],
                              part |-> rows[i].rn]]

Task(t, part, selects) ==
  [p |-> [owner |-> t.owner, table |-> FileOf(t), part |-> part], tag |-> Key(t),
   param |-> sGetParfName(conf_.usualpath \/ t.longs > 0), selects |-> selects]

(* A task for each piece, and the SELECTs of all pieces, one by one.       *)
vInsertUnloadTasks(t, pieces) ==
  [i \in DOMAIN pieces |-> Task(t, pieces[i].part, <<pieces[i].select>>)]
sGenerateSql(pieces) == [i \in DOMAIN pieces |-> pieces[i].select]

(* vTaskEntry.                                                             *)
TaskEntry(t, pieces, apart) ==
  IF apart THEN vInsertUnloadTasks(t, pieces) ELSE <<Task(t, 0, sGenerateSql(pieces))>>

(* vSubmitUnloadSchedule, for one table.                                   *)
TasksOf(t) ==
  LET scheme == SchemePieces(t)
      rowid == RowidPieces(t)
  IN  IF scheme # <<>> THEN TaskEntry(t, scheme, Bit(conf_.partitioning, 1))
      ELSE IF rowid # <<>> THEN TaskEntry(t, rowid, Bit(conf_.partitioning, 2))
      ELSE <<Task(t, 0, <<[table |-> Key(t), of |-> <<"all">>]>>)>>

(* --- The management scripts -------------------------------------------- *)

Enabled(S) == {r \in S : r.status = "ENABLED"}

ConsId(c) == <<"constraint", c.owner, c.name>>
Entry(owner, key, name, of, validated) ==
  [owner |-> owner, key |-> key, name |-> name, of |-> of, validated |-> validated]
OfConstraint(c, key) == Entry(c.owner, key, c.name, ConsId(c), c.validated)

EffectiveCons == Of(repo["EFFECTIVE_CONS"], owners)

(* The foreign keys, under the name of their own table when a target has   *)
(* that name, otherwise under the name of the table they refer to.         *)
sC1024 ==
  LET names == {t.name : t \in repo["TARGET_TABLES"]}
      fks == {c \in Enabled(EffectiveCons) : c.type = "R"}
  IN  UNION {{OfConstraint(c, IF c.table \in names THEN c.table ELSE p.table) :
                p \in {k \in repo["EFFECTIVE_CONS"] : Key(k) = <<c.rOwner, c.rName>>}} : c \in fks}

sC1025 ==
  {OfConstraint(c, c.table) :
     c \in {k \in Enabled(EffectiveCons) : k.type = "C" /\ k.notnull = 0}}

sC1026 ==
  {OfConstraint(c, c.table) :
     c \in {k \in Enabled(EffectiveCons) :
              /\ k.type \in {"P", "U"}
              /\ \E i \in repo["ALL_INDEXES"] :
                   Key(i) = <<k.indexOwner, k.index>> /\ i.type # "IOT - TOP"}}

sC1027 ==
  LET InPrimaryKey(c) ==
        \E k \in repo["EFFECTIVE_CONS"], l \in repo["ALL_CONS_COLUMNS"] :
          /\ k.type = "P" /\ k.owner = c.owner /\ k.table = c.table
          /\ Key(l) = Key(k) /\ l.table = k.table /\ l.column = c.notnull
  IN  {Entry(c.owner, c.table, c.notnull, <<"column", c.owner, c.table, c.notnull>>, c.validated) :
         c \in {k \in EffectiveCons :
                  /\ k.type = "C" /\ k.notnull # 0 /\ ~InPrimaryKey(k)
                  /\ \E l \in repo["ALL_TAB_COLUMNS"] :
                       /\ l.owner = k.owner /\ l.table = k.table /\ l.column = k.notnull
                       /\ ~l.nullable}}

(* "t1.owner = t0.table_name": the table must be named as the schema.      *)
sC1028 ==
  {Entry(g.owner, g.table, g.name, <<"trigger", g.owner, g.name>>, TRUE) :
     g \in {k \in Enabled(Of(repo["ALL_TRIGGERS"], owners)) :
              \E t \in repo["TARGET_TABLES"] : t.owner = k.owner /\ t.name = k.owner}}

(* Without DBA_INDEXES, USER_INDEXES is read.                              *)
GenerateChecks ==
  {Privilege(SYS, DBA_SEGMENTS, "SELECT"), Privilege(SYS, DBA_INDEXES, "SELECT")}
IsSeen(i) ==
  iAccesible(x, GenerateChecks, Privilege(SYS, DBA_INDEXES, "SELECT")) \/ i.owner = x.me

(* The query of cUserIndexes (MetaIndexes).                                *)
UserIndexesRows == {i \in Of(x.indexes, owners) : IsSeen(i)}

(* What has been read of them.                                             *)
IndexesOf(t) ==
  {i \in oUserIndexes : i.owner = t.owner /\ i.table = t.name /\ i.type # "IOT - TOP"}

IndexEntry(i) == Entry(i.owner, i.table, i.name, <<"index", i.owner, i.name>>, TRUE)

(* t4.constraint_name, through the outer join: of a disabled one, too.     *)
OfAConstraint(i) ==
  \E c \in x.constraints : c.indexOwner = i.owner /\ c.table = i.table /\ c.index = i.name

(* iCompToDrpIdxScr and iCompToCreIdxScr.  An index is created on the      *)
(* columns that have been read: without all of them it is another index, or*)
(* none.                                                                   *)
ToDrop(t) == {IndexEntry(i) : i \in {k \in IndexesOf(t) : ~(k.unique /\ OfAConstraint(k))}}
ToCreate(t) == {IndexEntry(i) : i \in IndexesOf(t) \cap oAllIndColumns}

ByName(S) == SetToSortSeq(S, LAMBDA r, s : r.name < s.name)

(* What a list prints for the key of a table; the list may be reversed.    *)
Printed(S, t, verb, backward) ==
  LET rows == ByName({r \in S : r.owner = t.owner /\ r.key = t.name})
      stmts == [i \in DOMAIN rows |-> [do |-> verb, of |-> rows[i].of, validated |-> rows[i].validated]]
  IN  IF backward THEN Reverse(stmts) ELSE stmts

(* A class that is masked out is printed behind a comment sign.            *)
Masked(class, stmts) == IF class \in conf_.mngscrout THEN stmts ELSE <<>>

ForAll(list, PrintOf(_)) == FlattenSeq([i \in DOMAIN list |-> PrintOf(list[i])])

DisableRefs(t) == Masked("C1024", Printed(sC1024, t, "disable", FALSE))

DisableDeps(t) ==
  Masked("C1025", Printed(sC1025, t, "disable", FALSE))
  \o Masked("C1026", Printed(sC1026, t, "disable with index", FALSE))
  \o Masked("C1027", Printed(sC1027, t, "disable", FALSE))
  \o Masked("C1028", Printed(sC1028, t, "disable", FALSE))
  \o Printed(ToDrop(t), t, "drop", FALSE)

EnableDeps(t) ==
  Printed(ToCreate(t), t, "create", TRUE)
  \o Masked("C1028", Printed(sC1028, t, "enable", TRUE))
  \o Masked("C1027", Printed(sC1027, t, "enable", TRUE))
  \o Masked("C1026", Printed(sC1026, t, "enable", TRUE))
  \o Masked("C1025", Printed(sC1025, t, "enable", TRUE))

EnableRefs(t) == Masked("C1024", Printed(sC1024, t, "enable", TRUE))

Script(kind, file) == <<kind>> \o file
conn_sql_ == <<"_conn.sql">>

Writing(file, text) == <<[file |-> file, text |-> text]>>

(* Fault: the keys are disabled before the foreign keys.                   *)
DisableKeysFirst ==
  Writing(Script("DISABLE", <<>>), ForAll(oTableList, DisableDeps) \o ForAll(oTableList, DisableRefs))

DisableScript ==
  Writing(Script("DISABLE", <<>>), ForAll(oTableList, DisableRefs) \o ForAll(oTableList, DisableDeps))

(* The files of the scripts, in the order in which they are written: of    *)
(* tables whose files have one name the last one stays.                    *)
GeneratedScripts ==
  DisableScript
  \o ForAll(oTableList, LAMBDA t : Writing(Script("DEPS", FileOf(t)), EnableDeps(t)))
  \o ForAll(oTableList, LAMBDA t : Writing(Script("REFS", FileOf(t)), EnableRefs(t)))

(* The same for every run: what SQL*Loader and SQL*Plus are started with.  *)
(* With nothing before the @ they ask for a user.                          *)
vOutputScriptsRegular ==
  LET given == IF conf_.dst_info.user = "" THEN <<>> ELSE <<conf_.dst_info>>
      Parameters(direct) == [userid |-> given, direct |-> direct]
  IN  Writing(sGetParfName(FALSE), Parameters(TRUE))
      \o Writing(sGetParfName(TRUE), Parameters(FALSE))
      \o Writing(conn_sql_, [connect |-> IF given = <<>> THEN "asked for" ELSE given])

Load(task) == <<[do |-> "load", file |-> FileName(task.p), param |-> task.param]>>
Execute(kind, t) == <<[do |-> "sqlplus", file |-> Script(kind, FileOf(t))]>>

-----------------------------------------------------------------------------
(* main, cBootstrap, cStartValues, cCopyDd::vRefresGetDataRepo, cUnload and*)
(* cQuery.                                                                 *)

Init ==
  /\ x \in Given /\ runs = 1 /\ trouble = x.trouble /\ pc = "start" /\ conf_ = <<>>
  /\ repo = NoRepo /\ saved = NoRepo /\ inherited = {}
  /\ cont_ = TRUE /\ failed = {}
  /\ todo = <<>> /\ deleted = TRUE /\ oTableList = <<>>
  /\ unldrs = <<>> /\ files = <<>> /\ make_sh = <<>> /\ sql = <<>>
  /\ oUserIndexes = {} /\ oAllIndColumns = {}

Used ==
  {"feature", "src_user", "dst_info", "usualpath",
   "prc_affinity_mask", "output", "repos_fn", "listtable", "filetable",
   "listfixed", "filefixed", "listexcpt", "fileexcpt", "num_rows", "partitioning",
   "rowid_split_num_parts", "rowid_split_min_size", "mngscrout", "skipscr", "stream_locator",
   "stdout", "suppress_ctrlf", "dataext", "extnameclob", "extnameblob", "extnamesql",
   "queryvar", "queryfix", "queryfilename"}

(* The options are parsed, or main returns for a reason of its own.        *)
oParse ==
  /\ pc = "start"
  /\ IF Outcome(x.start) = "parsed"
     THEN pc' = "parsed" /\ conf_' = [o \in Used |-> as(vm_(x.start), o)]
     ELSE pc' = Outcome(x.start) /\ UNCHANGED conf_
  /\ UNCHANGED <<x, runs, trouble, repoVars, cont_, failed, listVars, outVars>>

(* cSqliteDb: only without any name is the repository kept in memory.      *)
IsFile == conf_.repos_fn # ""
Commit == saved' = IF IsFile THEN repo' ELSE saved

(* The feature getmeta goes on in GetMeta.                                 *)
oMakeInstance ==
  /\ pc = "parsed"
  /\ repo' = IF IsFile THEN saved ELSE NoRepo
  /\ pc' = CASE conf_.feature \in {"unload", "query"} -> "create"
              [] conf_.feature = "getmeta" -> "getmeta"
              [] OTHER -> "raised"
  /\ UNCHANGED <<x, conf_, runs, trouble, saved, inherited, cont_, failed, listVars, outVars>>

(* vCreateRepo: every statement is a transaction.  EFFECTIVE_CONS is not   *)
(* emptied.                                                                *)
vCreateRepo ==
  /\ pc = "create"
  /\ IF conf_.prc_affinity_mask = "" \/ conf_.src_user = <<>>
     THEN pc' = "raised" /\ UNCHANGED repoVars
     ELSE /\ repo' = [NoRepo EXCEPT !["EFFECTIVE_CONS"] = repo["EFFECTIVE_CONS"]]
          /\ Commit
          /\ inherited' = repo["EFFECTIVE_CONS"]
          /\ pc' = "owners"
  /\ UNCHANGED <<x, conf_, runs, trouble, cont_, failed, listVars, outVars>>

(* What a fetch that is cut short leaves of the rows it should bring.      *)
Cut(S) == {S \ M : M \in {S} \cup UNION {kSubset(k, S) : k \in 1..MaxMissing}}

(* cTransporter::vExecuteAndFetch: the fetch brings all rows, or none once *)
(* the program has been told to stop; when it fails, or a signal arrives,  *)
(* what it has brought stays, and nobody is told.                          *)
vExecuteAndFetch(table, S) ==
  LET Outcomes(rows, going, troubles, failures) ==
        [rows : rows, cont_ : going, trouble : {troubles}, failed : {failures}]
      incomplete == failed \cup {table}
  IN  IF ~cont_ THEN Outcomes({{}}, {FALSE}, trouble, incomplete)
      ELSE Outcomes({S}, {TRUE}, trouble, failed)
           \cup IF trouble > 0 THEN Outcomes(Cut(S), BOOLEAN, trouble - 1, incomplete) ELSE {}

Fetched(o) == trouble' = o.trouble /\ cont_' = o.cont_ /\ failed' = o.failed

(* TARGET_OWNERS has a primary key: a pattern that matches a user whom an  *)
(* earlier pattern matched fails, and those behind it are not tried.       *)
TargetOwners(users, wild) ==
  LET Upto(i) == users \cap UNION {wild[j] : j \in 1..i}
      clashes == {i \in DOMAIN wild : users \cap wild[i] \cap Upto(i - 1) # {}}
  IN  [rows |-> IF clashes = {} THEN {o \in users : Matched(wild, o)} ELSE Upto(Min(clashes) - 1),
       raises |-> clashes # {}]

oConvEffectiveOwnerName ==
  /\ pc = "owners"
  /\ \E o \in vExecuteAndFetch("ALL_USERS", AllUsersRows(x)) :
       LET found == TargetOwners(o.rows, conf_.src_user)
       IN  /\ Fetched(o)
           /\ repo' = [repo EXCEPT !["ALL_USERS"] = o.rows, !["TARGET_OWNERS"] = found.rows]
           /\ pc' = IF found.raises \/ found.rows = {} THEN "raised" ELSE "values"
  /\ Commit
  /\ UNCHANGED <<x, conf_, runs, inherited, listVars, outVars>>

(* With skipscr the lines of _make.sh go nowhere.                          *)
Lines(cmds) == IF conf_.skipscr THEN <<>> ELSE cmds

CallDisable == Lines(<<[do |-> "sqlplus", file |-> Script("DISABLE", <<>>)]>>)

(* The constructors of cStartValues and of the feature.                    *)
cStartValues ==
  /\ pc = "values"
  /\ IF ~vInitialize(conf_, x.start.places) \/ conf_.partitioning \notin 0..4
     THEN pc' = "raised" /\ UNCHANGED <<todo, make_sh>>
     ELSE IF conf_.feature = "unload"
     THEN pc' = "copy" /\ todo' = tSeqList /\ UNCHANGED make_sh
     ELSE IF ~x.bind
     THEN pc' = "raised" /\ UNCHANGED <<todo, make_sh>>
     ELSE pc' = "query" /\ todo' = SetToSortSeq(owners, <) /\ make_sh' = CallDisable
  /\ UNCHANGED <<x, conf_, runs, trouble, repoVars, cont_, failed, deleted, oTableList, unldrs, files,
                 sql, readVars>>

(* cRefresher::operator(): one table of the list.                          *)
cRefresher ==
  /\ pc = "copy" /\ todo # <<>>
  /\ \E o \in vExecuteAndFetch(Head(todo), CopyOf(x, conf_, owners, Head(todo))) :
       Fetched(o) /\ repo' = [repo EXCEPT ![Head(todo)] = o.rows]
  /\ todo' = Tail(todo)
  /\ UNCHANGED <<x, conf_, runs, pc, saved, inherited, deleted, oTableList, outVars>>

cTargetTables ==
  /\ pc = "copy" /\ todo = <<>>
  /\ repo' = [repo EXCEPT !["TARGET_TABLES"] = TargetTables(conf_, repo)]
  /\ todo' = BySize(repo', repo'["TARGET_TABLES"])
  /\ deleted' = TRUE
  /\ pc' = "count"
  /\ UNCHANGED <<x, conf_, runs, trouble, saved, inherited, cont_, failed, oTableList, outVars>>

RowsOf(t) == CHOOSE r \in x.tables : Key(r) = Key(t)

(* Fault: a table that has just as many rows as it should is left out.     *)
RmWhereTooFew ==
  /\ pc = "count" /\ todo # <<>>
  /\ LET t == Head(todo) IN
       /\ deleted' = IF RowsOf(t).fails THEN deleted ELSE RowsOf(t).rows <= conf_.num_rows
       /\ repo' = IF deleted' THEN [repo EXCEPT !["TARGET_TABLES"] = @ \ {t}] ELSE repo
       /\ oTableList' = IF deleted' THEN oTableList ELSE Append(oTableList, t)
  /\ todo' = Tail(todo)
  /\ UNCHANGED <<x, conf_, runs, trouble, pc, saved, inherited, cont_, failed, outVars>>

(* oRmWhereNumRows, for one table: a count that fails sets nothing, and    *)
(* the answer for the table before is taken once more.                     *)
oRmWhereNumRows ==
  /\ pc = "count" /\ todo # <<>>
  /\ LET t == Head(todo) IN
       /\ deleted' = IF RowsOf(t).fails THEN deleted ELSE RowsOf(t).rows < conf_.num_rows
       /\ repo' = IF deleted' THEN [repo EXCEPT !["TARGET_TABLES"] = @ \ {t}] ELSE repo
       /\ oTableList' = IF deleted' THEN oTableList ELSE Append(oTableList, t)
  /\ todo' = Tail(todo)
  /\ UNCHANGED <<x, conf_, runs, trouble, pc, saved, inherited, cont_, failed, outVars>>

(* cReposRefresher::vRefresh, and the end of the transaction.              *)
RefreshCons ==
  /\ pc = "count" /\ todo = <<>>
  /\ repo' = [repo EXCEPT !["EFFECTIVE_CONS"] = Refreshed(@, B(repo))]
  /\ Commit
  /\ pc' = "schedule"
  /\ UNCHANGED <<x, conf_, runs, trouble, inherited, cont_, failed, listVars, outVars>>

(* The connection, or a statement of the copies or of the counts fails, or *)
(* a file of names is not there: the exception ends the transaction, and   *)
(* with it the program; what was copied is committed.                      *)
StatementFails ==
  /\ trouble > 0
  /\ pc \in {"create", "owners", "copy", "count"}
  /\ pc = "count" => todo # <<>>
  /\ trouble' = trouble - 1
  /\ pc' = "raised"
  /\ UNCHANGED <<x, conf_, runs, repo, inherited, cont_, failed, listVars, outVars>>
  /\ Commit

vSubmitUnloadSchedule ==
  /\ pc = "schedule"
  /\ unldrs' = ForAll(oTableList, TasksOf)
  /\ make_sh' = CallDisable \o Lines(ForAll(unldrs', Load))
  /\ pc' = "unload"
  /\ UNCHANGED <<x, conf_, runs, trouble, repoVars, cont_, failed, listVars, files, sql,
                 readVars>>

PlaceOf(task, ext) == Located(conf_, x.start.env, task.p, ext)

(* What is in a file: rows, or the commands of SQL*Loader.                 *)
Rows(selects) == [selects |-> selects, ctl |-> <<>>]
Grammar(task) ==
  [selects |-> <<>>,
   ctl |-> <<[infile |-> oGetsLastOpendFilename(PlaceOf(task, iExtData)),
              table |-> task.tag, part |-> task.p.part]>>]

(* One of the tasks opens its file, truncates it and writes its rows; then *)
(* it writes the control file.  The fields in it are those of the first    *)
(* statement: without any, memory is read that is not there.               *)
Unload ==
  /\ pc = "unload" /\ cont_
  /\ \E i \in DOMAIN unldrs :
       LET task == unldrs[i]
           written == PlaceOf(task, iExtData) :> Rows(task.selects) @@ files
       IN  /\ unldrs' = RemoveAt(unldrs, i)
           /\ IF conf_.suppress_ctrlf
              THEN files' = written /\ UNCHANGED pc
              ELSE IF ~IsLexical(task.tag)
              THEN files' = written /\ pc' = "raised"
              ELSE IF task.selects = <<>>
              THEN files' = written /\ pc' = "killed"
              ELSE files' = PlaceOf(task, iExtCtrl) :> Grammar(task) @@ written /\ UNCHANGED pc
  /\ UNCHANGED <<x, conf_, runs, trouble, repoVars, cont_, failed, listVars, make_sh, sql,
                 readVars>>

(* A task raises: vSynchronize raises it again when the others have ended. *)
UnloadRaises ==
  /\ pc = "unload" /\ cont_ /\ unldrs # <<>>
  /\ trouble > 0 /\ trouble' = trouble - 1
  /\ pc' = "raised"
  /\ UNCHANGED <<x, conf_, runs, repoVars, cont_, failed, listVars, outVars>>

(* vSynchronize returns: nothing is left, or the program has been stopped. *)
IsSynchronized(feature) ==
  pc = "unload" /\ conf_.feature = feature /\ (unldrs = <<>> \/ ~cont_)

(* cQuery::vExpData, for one schema: the tasks of both sources, and the    *)
(* lines for what has been submitted, even when an exception follows.      *)
vAddTaskItems ==
  /\ pc = "query" /\ todo # <<>>
  /\ LET items == OwnerItems(x, conf_, Head(todo))
         tasks == Submitted(conf_, Head(todo), items)
     IN  /\ make_sh' = make_sh \o Lines(ForAll(tasks, Load))
         /\ IF IsAnyRefused(conf_, items)
            THEN pc' = "raised" /\ UNCHANGED unldrs
            ELSE pc' = "unload" /\ unldrs' = unldrs \o tasks
  /\ todo' = Tail(todo)
  /\ UNCHANGED <<x, conf_, runs, trouble, repoVars, cont_, failed, deleted, oTableList, files,
                 sql, readVars>>

NextSchema ==
  /\ IsSynchronized("query")
  /\ pc' = "query"
  /\ UNCHANGED <<x, conf_, runs, trouble, repoVars, cont_, failed, listVars, outVars>>

QueryExported ==
  /\ pc = "query" /\ todo = <<>>
  /\ make_sh' = make_sh \o Lines(<<[do |-> "sqlplus", file |-> Script("ENABLE", <<>>)]>>)
  /\ pc' = "scripts"
  /\ UNCHANGED <<x, conf_, runs, trouble, repoVars, cont_, failed, listVars, unldrs, files, sql,
                 readVars>>

(* Fault: the foreign keys are enabled before the keys.                    *)
ExpDataRefsFirst ==
  /\ IsSynchronized("unload")
  /\ make_sh' = make_sh \o Lines(ForAll(oTableList, LAMBDA t : Execute("REFS", t))
                                 \o <<[do |-> "wait", file |-> <<>>]>>
                                 \o ForAll(oTableList, LAMBDA t : Execute("DEPS", t)))
  /\ pc' = "scripts"
  /\ UNCHANGED <<x, conf_, runs, trouble, repoVars, cont_, failed, listVars, unldrs, files, sql,
                 readVars>>

(* The end of vExpData.                                                    *)
vExpData ==
  /\ IsSynchronized("unload")
  /\ make_sh' = make_sh \o Lines(ForAll(oTableList, LAMBDA t : Execute("DEPS", t))
                                 \o <<[do |-> "wait", file |-> <<>>]>>
                                 \o ForAll(oTableList, LAMBDA t : Execute("REFS", t)))
  /\ pc' = "scripts"
  /\ UNCHANGED <<x, conf_, runs, trouble, repoVars, cont_, failed, listVars, unldrs, files, sql,
                 readVars>>

(* Only here, once, is it asked whether to go on.  A query has no scripts  *)
(* of its own.                                                             *)
vMakeScripts ==
  /\ pc = "scripts"
  /\ IF ~cont_ \/ conf_.skipscr THEN pc' = "done" /\ UNCHANGED todo
     ELSE IF conf_.feature = "query" THEN pc' = "output" /\ todo' = vOutputScriptsRegular
     ELSE pc' = "columns" /\ UNCHANGED todo
  /\ UNCHANGED <<x, conf_, runs, trouble, repoVars, cont_, failed, deleted, oTableList, outVars>>

(* vGenerateScripts.  The columns of the schemas are read first and copied;*)
(* a list that is empty, because there are none or because a signal has    *)
(* come, cannot be copied.                                                 *)
ReadColumns ==
  /\ pc = "columns"
  /\ pc' = IF ~cont_ \/ Of(x.columns, owners) = {} THEN "raised" ELSE "lists"
  /\ UNCHANGED <<x, conf_, runs, trouble, repoVars, cont_, failed, listVars, outVars>>

(* The others are read by several threads (MetaFetch): not at all, once a  *)
(* signal has come; one that comes while they read cuts them short, and so *)
(* does a failure, whose exception is lost when no thread is left to be    *)
(* started.                                                                *)
Lists(all) ==
  LET Outcomes(indexes, columns, going, troubles, failures) ==
        [indexes : indexes, columns : columns, cont_ : {going}, trouble : {troubles},
         failed : {failures}]
      some == Cut(all) \cup {all}
  IN  IF ~cont_ THEN Outcomes({{}}, {{}}, FALSE, trouble, failed)
      ELSE Outcomes({all}, {all}, TRUE, trouble, failed)
           \cup IF trouble = 0 THEN {}
                ELSE Outcomes(some, some, FALSE, trouble - 1, failed)
                     \cup Outcomes(Cut(all), {all}, TRUE, trouble - 1, failed \cup {"USER_INDEXES"})
                     \cup Outcomes({all}, Cut(all), TRUE, trouble - 1, failed \cup {"ALL_IND_COLUMNS"})

(* Nobody asks what vSynchronize has left out: the scripts are made of what*)
(* there is.                                                               *)
ReadLists ==
  /\ pc = "lists"
  /\ \E o \in Lists(UserIndexesRows) :
       Fetched(o) /\ oUserIndexes' = o.indexes /\ oAllIndColumns' = o.columns
  /\ pc' = "generate"
  /\ UNCHANGED <<x, conf_, runs, repoVars, listVars, unldrs, files, make_sh, sql>>

(* Fault: the connection comes first.                                      *)
GenerateRegularFirst ==
  /\ pc = "generate"
  /\ todo' = vOutputScriptsRegular \o GeneratedScripts
  /\ pc' = "output"
  /\ UNCHANGED <<x, conf_, runs, trouble, repoVars, cont_, failed, deleted, oTableList, outVars>>

vOutputScripts ==
  /\ pc = "generate"
  /\ todo' = GeneratedScripts \o vOutputScriptsRegular
  /\ pc' = "output"
  /\ UNCHANGED <<x, conf_, runs, trouble, repoVars, cont_, failed, deleted, oTableList, outVars>>

(* One file is opened, written and closed.                                 *)
WriteScript ==
  /\ pc = "output" /\ todo # <<>>
  /\ sql' = Head(todo).file :> Head(todo).text @@ sql
  /\ todo' = Tail(todo)
  /\ UNCHANGED <<x, conf_, runs, trouble, pc, repoVars, cont_, failed, deleted, oTableList,
                 unldrs, files, make_sh, readVars>>

ScriptsAreWritten ==
  /\ pc = "output" /\ todo = <<>>
  /\ pc' = "done"
  /\ UNCHANGED <<x, conf_, runs, trouble, repoVars, cont_, failed, listVars, outVars>>

(* A query fails while vSynchronize can still see it, or a file cannot be  *)
(* opened: those that have been written stay.                              *)
ScriptsFail ==
  /\ pc \in {"columns", "lists", "output"} /\ (pc = "output" => todo # <<>>)
  /\ trouble > 0 /\ trouble' = trouble - 1
  /\ pc' = "raised"
  /\ UNCHANGED <<x, conf_, runs, repoVars, cont_, failed, listVars, outVars>>

Ended == pc \in {"done", "raised", "killed", "terminated", "ended", "getmeta"}

(* cRtn::vBreak, on SIGINT or SIGTERM.                                     *)
vBreak ==
  /\ ~Ended /\ cont_ /\ trouble > 0
  /\ cont_' = FALSE
  /\ trouble' = trouble - 1
  /\ UNCHANGED <<x, conf_, runs, pc, repoVars, failed, listVars, outVars>>

(* The process is killed: a transaction that is open is lost.              *)
Kill ==
  /\ ~Ended /\ trouble > 0
  /\ trouble' = trouble - 1
  /\ repo' = saved
  /\ pc' = "killed"
  /\ UNCHANGED <<x, conf_, runs, saved, inherited, cont_, failed, listVars, outVars>>

(* It is started again, perhaps with other parameters and after the        *)
(* dictionary has changed; a repository that is a file is still there; the *)
(* output directory has been emptied.                                      *)
Restart ==
  /\ Ended /\ x.family # 0 /\ runs < MaxRuns
  /\ x' \in {g \in Given : g.family = x.family}
  /\ runs' = runs + 1 /\ trouble' = x'.trouble /\ pc' = "start" /\ conf_' = <<>>
  /\ repo' = NoRepo
  /\ inherited' = {} /\ cont_' = TRUE /\ failed' = {}
  /\ todo' = <<>> /\ deleted' = TRUE /\ oTableList' = <<>>
  /\ unldrs' = <<>> /\ files' = <<>> /\ make_sh' = <<>> /\ sql' = <<>>
  /\ oUserIndexes' = {} /\ oAllIndColumns' = {}
  /\ UNCHANGED saved

Next ==
  \/ oParse \/ oMakeInstance \/ vCreateRepo \/ oConvEffectiveOwnerName \/ cStartValues
  \/ cRefresher \/ cTargetTables \/ oRmWhereNumRows \/ RefreshCons \/ StatementFails
  \/ vSubmitUnloadSchedule \/ Unload \/ UnloadRaises \/ vExpData
  \/ vAddTaskItems \/ NextSchema \/ QueryExported \/ vMakeScripts
  \/ ReadColumns \/ ReadLists \/ vOutputScripts \/ WriteScript \/ ScriptsAreWritten \/ ScriptsFail
  \/ vBreak \/ Kill \/ Restart

Spec == Init /\ [][Next]_vars

-----------------------------------------------------------------------------
(* Properties.                                                             *)

Undisturbed == failed = {} /\ cont_

Targets == {oTableList[i] : i \in DOMAIN oTableList}
IsTarget(owner, table) == <<owner, table>> \in Keys(Targets)

(* What is wanted: what the command line says, otherwise the configuration *)
(* file, otherwise the file it includes, otherwise the default.            *)
Wanted(option) ==
  LET s == x.start
      conf == sConfFile_(s)
      Told(path) == IF path \in DOMAIN s.files THEN <<Substituted(s, s.files[path])>> ELSE <<>>
      told == <<s.cmd>> \o Told(conf)
      names == {i \in DOMAIN told : "include" \in DOMAIN told[i]}
      all == told \o (IF Len(told) = 2 /\ names # {} THEN Told(told[Min(names)]["include"]) ELSE <<>>)
             \o <<Defaults, Initial>>
  IN  all[Min({i \in DOMAIN all : option \in DOMAIN all[i]})][option]

(* The tables that the parameters ask for, as the dictionary has them.  The *)
(* file of names adds to a list; without one every table is meant.         *)
Asked ==
  LET Is(t, S) == Key(t) \in Keys(S)
      listed == Wanted("listtable")
      except == Wanted("listexcpt") \o Wanted("fileexcpt")
      schemas == Wanted("src_user")
  IN  {t \in x.tables :
         /\ t.owner \in x.users /\ Matched(schemas, t.owner)
         /\ (listed = <<>> \/ Matched(listed \o Wanted("filetable"), t.name))
         /\ ~Matched(except, t.name)
         /\ ~t.dropped /\ ~t.temporary /\ t.iot # "IOT_OVERFLOW"
         /\ ~IsSnapshotName(t.name)
         /\ ~Is(t, x.externals)
         /\ ~Is(t, {m \in x.mviews : ~m.updatable})}

(* cCopyDd.cpp:335, cTargetTables.cpp:256: what is unloaded is what the    *)
(* parameters ask for, wherever they were given (cConfigures.h:32), the    *)
(* largest table first, and the table TARGET_TABLES, which the scripts are *)
(* made from, says the same as the list, which the schedule is made from.  *)
(* Two kinds of tables may be judged wrongly: one named as a read-only     *)
(* snapshot of another schema is left out, and one whose rows cannot be    *)
(* counted goes the way of the table before it.                            *)
TargetsAreTheTablesAsked ==
  pc = "schedule" /\ Undisturbed =>
    /\ \A t \in Asked :
         \/ IsTarget(t.owner, t.name) <=> t.rows >= Wanted("num_rows")
         \/ t.fails
         \/ t.name \in {m.name : m \in {v \in x.mviews : ~v.updatable}}
    /\ Keys(Targets) \subseteq Keys(Asked)
    /\ Keys(Targets) = Keys(repo["TARGET_TABLES"])
    /\ \A i, j \in DOMAIN oTableList :
         i < j => RowsOf(oTableList[i]).mbytes >= RowsOf(oTableList[j]).mbytes

(* --- What is unloaded, and what the files bring back ------------------- *)

(* The tasks there have been.                                              *)
Tasks ==
  IF conf_.feature = "unload" THEN ForAll(oTableList, TasksOf)
  ELSE ForAll(SetToSortSeq(owners, <),
              LAMBDA owner : Submitted(conf_, owner, OwnerItems(x, conf_, owner)))

Extensions == {iExtData} \cup IF conf_.suppress_ctrlf THEN {} ELSE {iExtCtrl}

(* Two tasks have a file in common, or one has the same for data and       *)
(* commands.                                                               *)
Meet(i, j) ==
  \E e, f \in Extensions : <<i, e>> # <<j, f>> /\ PlaceOf(Tasks[i], e) = PlaceOf(Tasks[j], f)

(* A locator may give files one name, and so may a choice of extension; or *)
(* the names of different tables or queries meet.                          *)
SharesAFile(i, others) ==
  \E j \in DOMAIN Tasks :
    Meet(i, j) /\ (Wanted("stdout") # 0 \/ Wanted("dataext") = "ctl" \/ j \in others)

OutputPlace == <<Str("file"), Str(conf_.output), Str("/")>>

(* A locator may send files where the load scripts do not look for them.   *)
IsElsewhere(i) ==
  /\ Wanted("stdout") # 0
  /\ \/ PlaceOf(Tasks[i], iExtCtrl) # OutputPlace \o <<Table(FileName(Tasks[i].p)), Str("."), Str("ctl")>>
     \/ Directory(PlaceOf(Tasks[i], iExtData)) # OutputPlace

(* Where the rows of a table are, and which of them a SELECT reads.        *)
SegmentOf(t) == {e \in x.extents : Key(e) = Key(t)}
PartsOf(t) == {p.part : p \in {q \in x.partitions : Key(q) = Key(t)}}
Places(t) ==
  IF PartsOf(t) # {} THEN {<<"partition", p>> : p \in PartsOf(t)}
  ELSE IF SegmentOf(t) # {} THEN {<<"block", b>> : b \in Blocks(SegmentOf(t))}
  ELSE {<<"all">>}

Reads(select, t, place) ==
  /\ select.table = Key(t)
  /\ \/ select.of = <<"all">>
     \/ select.of = place
     \/ /\ select.of[1] = "rowid" /\ place[1] = "block"
        /\ InRange([bgn |-> select.of[2], end |-> select.of[3]], place[2])

(* The SELECTs whose rows are in the files.                                *)
Selected == FoldFunction(LAMBDA file, rows : rows \o file.selects, <<>>, files)

(* What _make.sh loads with the parameters it names: the control file of a *)
(* name, and the data it names, next to it; what is said of a partition    *)
(* goes there or is refused.                                               *)
Loaded ==
  LET loads == SelectSeq(make_sh, LAMBDA cmd : cmd.do = "load" /\ cmd.param \in DOMAIN sql)
      Control(cmd) == OutputPlace \o <<Table(cmd.file), Str("."), Str("ctl")>>
      At(place) == IF place \in DOMAIN files THEN files[place] ELSE Rows(<<>>)
      Brought(c) ==
        LET rows == At(OutputPlace \o c.infile).selects
        IN  [i \in DOMAIN rows |-> [select |-> rows[i], table |-> c.table, part |-> c.part]]
  IN  ForAll(loads, LAMBDA cmd : ForAll(At(Control(cmd)).ctl, Brought))

Count(list, Test(_)) == Len(SelectSeq(list, Test))

Times(t, place) == Count(Selected, LAMBDA s : Reads(s, t, place))
TimesLoaded(t, place) ==
  Count(Loaded, LAMBDA l : /\ l.table = Key(t) /\ Reads(l.select, t, place)
                           /\ l.part = 0 \/ place = <<"partition", l.part>>)

TasksFor(t) == {i \in DOMAIN Tasks : Tasks[i].tag = Key(t)}
NotFor(t) == DOMAIN Tasks \ TasksFor(t)

TablesAreUnloadedOnce ==
  \A t \in Targets : \A place \in Places(t) :
    \/ Times(t, place) = 1
    \/ \E i \in TasksFor(t) : SharesAFile(i, NotFor(t))
    \/ /\ place[1] = "block"
       /\ \/ Times(t, place) = 0 /\ IsLeftOver(SegmentOf(t), conf_.rowid_split_num_parts, place[2])
          \/ Times(t, place) = 2 /\ IsOverrun(SegmentOf(t), conf_.rowid_split_num_parts, place[2])

(* Nothing to load with: the files are somewhere else, or are not written. *)
HasNoLoader(i) == Wanted("skipscr") \/ Wanted("suppress_ctrlf") \/ IsElsewhere(i)

(* Ranges of row ids are loaded into partitions that do not exist.         *)
TablesAreLoadedAsUnloaded ==
  \A t \in Targets : \A place \in Places(t) :
    \/ TimesLoaded(t, place) = Times(t, place)
    \/ \E i \in TasksFor(t) :
         HasNoLoader(i) \/ SharesAFile(i, NotFor(t)) \/ Tasks[i].p.part \notin {0} \cup PartsOf(t)

(* The statements that a source means for a schema.                        *)
Meant(owner, source) ==
  IF source.kind = "directory"
  THEN {source.entries[i].stmts :
          i \in {k \in DOMAIN source.entries :
                   LET e == source.entries[k]
                   IN  /\ e.regular /\ e.ext = Wanted("extnamesql") /\ e.owner \in {0, owner}
                       /\ wild_strmatch(Wanted("queryfilename"), e)}}
  ELSE {source.stmts}

(* Those behind a blank one are lost.                                      *)
QueriesAreUnloadedAndLoadedOnce ==
  \A owner \in owners, o \in {"queryvar", "queryfix"} :
    \A stmts \in Meant(owner, Source(x, Wanted(o))) : \A n \in DOMAIN stmts :
      LET of == Executed(owner, stmts[n])
          Executes(S) == {i \in DOMAIN Tasks :
                            S \cap {Tasks[i].selects[k] : k \in DOMAIN Tasks[i].selects} # {}}
          others == DOMAIN Tasks \ Executes({Executed(owner, stmts[k]) : k \in DOMAIN stmts})
          mine == Executes({of})
      IN  \/ 0 \in {stmts[k] : k \in 1..n}
          \/ \E i \in mine : SharesAFile(i, others)
          \/ /\ Count(Selected, LAMBDA s : s = of) = 1
             /\ \/ Count(Loaded, LAMBDA l : l.select = of /\ l.part = 0) = 1
                \/ \E i \in mine : HasNoLoader(i) \/ Tasks[i].p.part # 0

(* cRowidRanges.cpp:95, cPartitionedByScheme.cpp:237, cQuery.cpp:59:       *)
(* however a table or a list of statements is cut, into partitions, ranges *)
(* of row ids or single statements, into one file or many, wherever the    *)
(* locator puts them and in whatever order the tasks end, the files hold   *)
(* each row once, and _make.sh loads it as often.  The cut into ranges has *)
(* two defects: blocks behind the last chunk are in no range, and a range  *)
(* that ends with an extent may end too late (RowidRanges).  Tasks whose   *)
(* files have the same name write over each other; ranges and statements   *)
(* in files of their own are loaded into partitions that do not exist; and *)
(* a blank statement ends the list.                                        *)
EveryRowIsUnloadedOnce ==
  pc = "done" /\ Undisturbed =>
    IF conf_.feature = "unload"
    THEN TablesAreUnloadedOnce /\ TablesAreLoadedAsUnloaded
    ELSE QueriesAreUnloadedAndLoadedOnce

(* cReposRefresher.h:55: whatever earlier runs have left in EFFECTIVE_CONS,*)
(* completed, interrupted or killed, with these parameters or others, a    *)
(* run ends up with exactly the constraints of its targets and the foreign *)
(* keys that refer to them; but one that was there already is taken as it  *)
(* was found, its status included.                                         *)
ConstraintsAreThoseOfTheTargets ==
  pc = "schedule" /\ Undisturbed =>
    LET selected == {c \in x.constraints : c.owner \in owners}
        ofTargets == {c \in selected : IsTarget(c.owner, c.table)}
        referring == {c \in selected : \E k \in ofTargets :
                        /\ c.type = "R" /\ ~IsBinName(c.table)
                        /\ k.type \in {"P", "U"} /\ Key(k) = <<c.rOwner, c.rName>>}
    IN  /\ Keys(repo["EFFECTIVE_CONS"]) = Keys(ofTargets \cup referring)
        /\ repo["EFFECTIVE_CONS"] \subseteq x.constraints \cup inherited

(* --- The database in which the scripts are executed -------------------- *)

(* It is as the one that was unloaded: what is enabled, and whether it is  *)
(* validated, and the indexes there are.                                   *)
IdOf(c) == IF c.notnull = 0 THEN ConsId(c) ELSE <<"column", c.owner, c.table, c.notnull>>
Database ==
  [on |-> {<<IdOf(c), c.validated>> : c \in Enabled(x.constraints)}
          \cup {<<<<"trigger", g.owner, g.name>>, TRUE>> : g \in Enabled(x.triggers)},
   indexes |-> {<<"index", i.owner, i.name>> : i \in x.indexes}]

IsOn(db, id) == \E v \in BOOLEAN : <<id, v>> \in db.on

ConstraintOf(id) == CHOOSE c \in x.constraints : IdOf(c) = id
Referring(k) == {c \in x.constraints : c.type = "R" /\ <<c.rOwner, c.rName>> = Key(k)}
IndexOf(k) == <<"index", k.indexOwner, k.index>>
IsKey(id) == \E k \in x.constraints : IdOf(k) = id /\ k.type \in {"P", "U"}

Off(on, id) == {p \in on : p[1] # id}

(* What Oracle does with a command; one that it refuses changes nothing.   *)
Do(db, cmd) ==
  CASE cmd.do = "disable" -> [db EXCEPT !.on = Off(@, cmd.of)]
    [] cmd.do = "disable with index" ->
         LET k == ConstraintOf(cmd.of)
         IN  IF \E c \in Referring(k) : IsOn(db, IdOf(c)) THEN db
             ELSE [on |-> Off(db.on, cmd.of), indexes |-> db.indexes \ {IndexOf(k)}]
    [] cmd.do = "drop" ->
         IF \E k \in x.constraints : IsKey(IdOf(k)) /\ IsOn(db, IdOf(k)) /\ IndexOf(k) = cmd.of
         THEN db ELSE [db EXCEPT !.indexes = @ \ {cmd.of}]
    [] cmd.do = "create" -> [db EXCEPT !.indexes = @ \cup {cmd.of}]
    [] cmd.do = "enable" ->
         LET on == Off(db.on, cmd.of) \cup {<<cmd.of, cmd.validated>>}
             k == ConstraintOf(cmd.of)
         IN  IF IsKey(cmd.of)
             THEN [on |-> on,
                   indexes |-> db.indexes \cup
                     IF IndexOf(k) \in db.indexes THEN {} ELSE {<<"index", k.owner, k.name>>}]
             ELSE IF cmd.of[1] = "constraint" /\ k.type = "R"
                     /\ ~IsOn(db, <<"constraint", k.rOwner, k.rName>>)
             THEN db
             ELSE [db EXCEPT !.on = on]
    [] OTHER -> db

(* The commands of _make.sh, those of the scripts it calls in their place; *)
(* every script connects first.                                            *)
Commands ==
  FlattenSeq([i \in DOMAIN make_sh |->
    IF make_sh[i].do # "sqlplus" THEN <<make_sh[i]>>
    ELSE IF {make_sh[i].file, conn_sql_} \subseteq DOMAIN sql THEN sql[make_sh[i].file]
    ELSE <<>>])

DatabaseAfter(cmds) == FoldLeft(Do, Database, cmds)

(* A row of EFFECTIVE_CONS that the dictionary does not have.              *)
IsStale(id) == \E c \in repo["EFFECTIVE_CONS"] \ x.constraints : IdOf(c) = id

(* A signal, or a failure that nobody hears of, has cut the reading of the *)
(* indexes short.                                                          *)
IndexReaders == {"USER_INDEXES", "ALL_IND_COLUMNS"}
ReadingWasCutShort == ~cont_ \/ IndexReaders \cap failed # {}
IsUnread(i) == ReadingWasCutShort /\ i \notin oUserIndexes
HasUnreadColumns(i) == ReadingWasCutShort /\ i \in oUserIndexes \ oAllIndColumns

(* The index of a key that the program cannot see, or has not read, is     *)
(* dropped with the key, and made again under the key's name.  One whose   *)
(* columns it has not read is dropped, and not made again.                 *)
MayChange ==
  {<<"index", i.owner, i.name>> : i \in {k \in x.indexes : HasUnreadColumns(k)}}
  \cup UNION {{IndexOf(k), <<"index", k.owner, k.name>>} :
                k \in {c \in x.constraints :
                         /\ c.type \in {"P", "U"}
                         /\ \E i \in x.indexes :
                              /\ IndexOf(c) = <<"index", i.owner, i.name>>
                              /\ ~IsSeen(i) \/ IsUnread(i) \/ HasUnreadColumns(i)}}

ScriptsMeet == \E t, u \in Targets : t # u /\ FileOf(t) = FileOf(u)

(* cUnload.cpp:508: however the run ended, by itself, by an exception      *)
(* between two scripts, by a signal or killed, running _make.sh to its end *)
(* leaves every constraint, trigger and index as it was before: what the   *)
(* first script disables or drops, one of the others enables or creates,   *)
(* a key after its index and a foreign key after the key it refers to; and *)
(* without all of them nothing connects.                                   *)
(* Rows that EFFECTIVE_CONS kept from earlier runs have the state they had *)
(* then, and of two scripts with the same name only one is there.  The     *)
(* index of a key that the program has no privilege to see may come back   *)
(* under another name.  When the reading of the indexes was cut short, so  *)
(* may one that was not read; one that was read without its columns is     *)
(* dropped and not created again, though a comment says of these scripts   *)
(* that they do it (cUnload.cpp:518-520).                                  *)
ScriptsRestore ==
  pc \in {"done", "raised", "killed"} /\ ~ScriptsMeet =>
    LET after == DatabaseAfter(Commands)
    IN  /\ after.indexes \ MayChange = Database.indexes \ MayChange
        /\ {p \in after.on : ~IsStale(p[1])} = {p \in Database.on : ~IsStale(p[1])}

(* The foreign keys that the scripts leave alone: those that refer to a    *)
(* table that is not unloaded, and those of a table that is not unloaded   *)
(* but has the name of one that is, or is in a schema where no target has  *)
(* the name of the table it refers to.                                     *)
LeftAlone(c) ==
  LET parents == {k \in x.constraints : Key(k) = <<c.rOwner, c.rName>>}
  IN  \/ "C1024" \notin conf_.mngscrout
      \/ ~\E k \in parents : IsTarget(k.owner, k.table)
      \/ /\ ~IsTarget(c.owner, c.table)
         /\ \/ c.table \in {t.name : t \in Targets}
            \/ ~\E k \in parents : IsTarget(c.owner, k.table)

IsInPrimaryKey(c) ==
  \E k \in x.constraints, l \in x.conscolumns :
    /\ k.type = "P" /\ k.owner = c.owner /\ k.table = c.table
    /\ Key(l) = Key(k) /\ l.column = c.notnull

MayStayOn(c) ==
  \/ IsStale(IdOf(c))
  \/ c.type = "R" /\ LeftAlone(c)
  \/ c.type = "C" /\ c.notnull = 0 /\ "C1025" \notin conf_.mngscrout
  \/ c.type = "C" /\ c.notnull # 0 /\ ("C1027" \notin conf_.mngscrout \/ IsInPrimaryKey(c))
  \/ /\ c.type \in {"P", "U"}
     /\ \/ "C1026" \notin conf_.mngscrout
        \/ \E i \in x.indexes : IndexOf(c) = <<"index", i.owner, i.name>> /\ i.type = "IOT - TOP"
        \/ \E f \in Enabled(Referring(c)) : LeftAlone(f) \/ IsStale(IdOf(f))

MayStay(i) ==
  \/ i.type = "IOT - TOP" \/ ~IsSeen(i) \/ IsUnread(i)
  \/ \E k \in Enabled(x.constraints) : IndexOf(k) = <<"index", i.owner, i.name>> /\ MayStayOn(k)
  \/ \E k \in x.constraints :
       /\ k.status # "ENABLED" /\ IndexOf(k) = <<"index", i.owner, i.name>> /\ i.unique

(* cUnload.cpp:461: when a file is loaded, no constraint of its table is   *)
(* enabled and no index maintained that a foreign key of another table, or *)
(* the order of the commands, keeps from being disabled or dropped: the    *)
(* foreign keys have gone before the keys, and the keys before their       *)
(* indexes.  An index that was not read, because a signal or a failure cut *)
(* the reading short, is maintained; a run whose copy of the dictionary was*)
(* cut short is left out.                                                  *)
LoadsAreUnchecked ==
  pc = "done" /\ Script("DISABLE", <<>>) \in DOMAIN sql /\ failed \subseteq IndexReaders =>
    \A n \in DOMAIN Commands : Commands[n].do = "load" =>
      LET db == DatabaseAfter(SubSeq(Commands, 1, n - 1))
      IN  \A t \in {u \in Targets : \E i \in TasksFor(u) : FileName(Tasks[i].p) = Commands[n].file} :
            /\ \A c \in {k \in x.constraints : k.owner = t.owner /\ k.table = t.name} :
                 IsOn(db, IdOf(c)) => MayStayOn(c)
            /\ \A i \in {k \in x.indexes : k.owner = t.owner /\ k.table = t.name} :
                 <<"index", i.owner, i.name>> \in db.indexes => MayStay(i)

-----------------------------------------------------------------------------
(* The inductive invariant behind TargetsAreTheTablesAsked and             *)
(* ConstraintsAreThoseOfTheTargets.                                        *)

(* The choice of the targets and of their constraints looks at these.      *)
Consulted == {"ALL_TABLES", "ALL_MVIEWS", "ALL_EXTERNAL_TABLES", "ALL_CONSTRAINTS"}
IsCopied(table) == repo[table] = CopyOf(x, conf_, owners, table)
IsStillToCopy(table) == \E i \in DOMAIN todo : todo[i] = table

(* In the repository are the targets that have been counted, and those that*)
(* have not.                                                               *)
Uncounted == {todo[i] : i \in DOMAIN todo}
TargetsAreListed ==
  /\ todo \in Seq(Uncounted) /\ oTableList \in Seq(Targets)
  /\ \A i, j \in DOMAIN todo : todo[i] = todo[j] => i = j
  /\ Uncounted \cap Targets = {}
  /\ repo["TARGET_TABLES"] = Uncounted \cup Targets

IsNoSmaller(t, u) == RowsOf(t).mbytes >= RowsOf(u).mbytes
TargetsAreSorted ==
  /\ \A i, j \in DOMAIN oTableList : i < j => IsNoSmaller(oTableList[i], oTableList[j])
  /\ \A i \in DOMAIN oTableList, j \in DOMAIN todo : IsNoSmaller(oTableList[i], todo[j])
  /\ \A i, j \in DOMAIN todo : i < j => IsNoSmaller(todo[i], todo[j])

(* What is left out, or judged by the table before.                        *)
MayBeMisjudged(t) == t.fails \/ t.name \in {m.name : m \in {v \in x.mviews : ~v.updatable}}
TargetsAreAsked ==
  /\ Keys(Uncounted \cup Targets) \subseteq Keys(Asked)
  /\ \A t \in Asked :
       \/ MayBeMisjudged(t)
       \/ t.rows < Wanted("num_rows") /\ ~IsTarget(t.owner, t.name)
       \/ t.rows >= Wanted("num_rows") /\ Key(t) \in Keys(Uncounted \cup Targets)

(* The parts of the invariant: a repository is a function; the options are *)
(* those that were parsed; what holds while rows are counted.              *)
IsRepo(r) == r = [t \in RepoTables |-> r[t]]
OptionsAreUsed ==
  Outcome(x.start) = "parsed" /\ conf_ = [o \in Used |-> as(vm_(x.start), o)]
CountInv ==
  /\ \A table \in Consulted : IsCopied(table)
  /\ TargetsAreListed /\ TargetsAreSorted /\ TargetsAreAsked

CopyInv ==
  /\ IsRepo(repo) /\ IsRepo(saved)
  /\ pc \in {"parsed", "create", "owners", "values", "copy", "count"} => OptionsAreUsed
  /\ pc \in {"start", "parsed", "create", "owners", "values", "copy"} => oTableList = <<>>
  /\ pc \in {"owners", "values", "copy", "count"} => repo["EFFECTIVE_CONS"] = inherited
  /\ pc \in {"values", "copy", "count"} /\ Undisturbed =>
       owners = {o \in x.users : Matched(conf_.src_user, o)}
  /\ pc = "copy" => todo \in Seq({tSeqList[i] : i \in DOMAIN tSeqList})
  /\ pc = "copy" /\ Undisturbed =>
       \A table \in Consulted : IsCopied(table) \/ IsStillToCopy(table)
  /\ pc = "count" /\ Undisturbed => CountInv
=============================================================================
