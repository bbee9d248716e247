------------------------------ MODULE MCGetData ------------------------------
(***************************************************************************)
(* What TLC starts unload and query with.  Schema 1 has the tables 11      *)
(* (employees), 12 (departments), 13 in partitions, 14 organized by its    *)
(* index with the overflow 15, and tables that are no targets; schema 2    *)
(* refers to it.                                                           *)
(***************************************************************************)
EXTENDS GetData

AllMasks == {"C1024", "C1025", "C1026", "C1027", "C1028"}

(* The configuration file is there and empty; every parameter is on the    *)
(* command line; the repository is in memory.                              *)
EmptyConf == [set |-> <<>>, refs |-> <<>>]
Start ==
  [env |-> "SA_HOME" :> "home", dirs |-> "bin" :> "bin.conf" @@ "home" :> "home.conf",
   files |-> "home.conf" :> EmptyConf, argv0 |-> "bin", conf |-> "", asks |-> {},
   cmd |-> [feature |-> "unload", src_user |-> <<{1}>>, repos_fn |-> "", num_rows |-> 0,
            listtable |-> <<>>, filetable |-> <<>>, listfixed |-> <<>>, filefixed |-> <<>>,
            listexcpt |-> <<>>, fileexcpt |-> <<>>, partitioning |-> 3, mngscrout |-> AllMasks,
            skipscr |-> FALSE, suppress_ctrlf |-> FALSE, stdout |-> 0,
            stream_locator |-> sDefaultStreamLocator_, dataext |-> "dat",
            rowid_split_min_size |-> 0, rowid_split_num_parts |-> 2,
            queryvar |-> "dir", queryfix |-> "text", queryfilename |-> AnyStem],
   places |-> "output" :> "directory" @@ "a file" :> "file", conf_tar |-> TRUE]

Plain ==
  [start |-> Start, bind |-> TRUE, sources |-> <<>>,
   me |-> 1, dba |-> FALSE, family |-> 0, trouble |-> 0,
   users |-> {1}, tables |-> {}, mviews |-> {}, externals |-> {}, columns |-> {},
   constraints |-> {}, conscolumns |-> {}, partitions |-> {}, parttables |-> {},
   objects |-> {}, extents |-> {}, triggers |-> {}, indexes |-> {},
   tabprivs |-> GenerateChecks, sysprivs |-> {}]

T(owner, name) ==
  [owner |-> owner, name |-> name, iot |-> "", dropped |-> FALSE, temporary |-> FALSE,
   partitioned |-> FALSE, mbytes |-> 1, rows |-> 5, fails |-> FALSE]
C(owner, table, column, nullable) ==
  [owner |-> owner, name |-> table, table |-> table, column |-> column, type |-> "NUMBER",
   nullable |-> nullable]
Con(owner, name, table, type) ==
  [owner |-> owner, name |-> name, type |-> type, table |-> table, notnull |-> 0,
   rOwner |-> 0, rName |-> 0, status |-> "ENABLED", validated |-> TRUE,
   indexOwner |-> 0, index |-> 0]
KeyCons(owner, name, table, type, index) ==
  [Con(owner, name, table, type) EXCEPT !.indexOwner = owner, !.index = index]
Fk(owner, name, table, rOwner, rName) ==
  [Con(owner, name, table, "R") EXCEPT !.rOwner = rOwner, !.rName = rName]
NotNull(owner, name, table, column) ==
  [Con(owner, name, table, "C") EXCEPT !.notnull = column]
Index(owner, name, table, unique) ==
  [owner |-> owner, name |-> name, table |-> table, type |-> "NORMAL", unique |-> unique,
   dropped |-> FALSE]
Trigger(owner, name, table) ==
  [owner |-> owner, name |-> name, table |-> table, base |-> "TABLE", status |-> "ENABLED"]
Object(owner, name, sub, type) ==
  [owner |-> owner, name |-> name, sub |-> sub, type |-> type, hasData |-> TRUE]

(* One table in a segment of up to three extents, cut into n ranges.       *)
Segments ==
  {[lengths |-> l, gap |-> g] : l \in UNION {[1..k -> 1..4] : k \in 1..3}, g \in {0, 1}}
Extents(s) ==
  {[owner |-> 1, name |-> 11, fid |-> 1 + (i - 1) * s.gap,
    bid |-> IF s.gap = 1 THEN 1 ELSE i * 5, blocks |-> s.lengths[i]] : i \in DOMAIN s.lengths}
Layouts ==
  {[Plain EXCEPT !.dba = TRUE, !.start.cmd.rowid_split_min_size = 4, !.start.cmd.rowid_split_num_parts = n, !.start.cmd.partitioning = p, !.start.cmd.skipscr = TRUE,
                 !.tables = {T(1, 11)}, !.objects = {Object(1, 11, 0, "TABLE")},
                 !.extents = Extents(s)] :
     n \in 1..4, s \in Segments, p \in {0, 2}}

(* Two schemas with keys, foreign keys, checks, indexes and triggers.      *)
Schemas ==
  [Plain EXCEPT
    !.start.cmd.src_user = <<{1}, {2}>>, !.users = {1, 2, 3},
    !.tables = {[T(1, 11) EXCEPT !.mbytes = 2], T(1, 12), T(2, 12), T(2, 21)},
    !.columns = {C(1, 11, 1, FALSE), C(1, 11, 2, FALSE), C(1, 12, 1, TRUE), C(2, 21, 1, TRUE)},
    !.constraints =
      {KeyCons(1, 51, 11, "P", 61), KeyCons(1, 52, 12, "P", 62), KeyCons(1, 53, 12, "U", 63),
       Fk(1, 54, 11, 1, 52), Fk(1, 55, 11, 1, 51), Con(1, 56, 11, "C"),
       NotNull(1, 57, 11, 1), NotNull(1, 58, 11, 2),
       [Fk(1, 59, 12, 1, 53) EXCEPT !.validated = FALSE],
       Fk(2, 54, 21, 1, 52), KeyCons(2, 51, 21, "P", 61),
       [Con(1, 50, 12, "C") EXCEPT !.status = "DISABLED"]},
    !.conscolumns = {[owner |-> 1, name |-> 51, table |-> 11, column |-> 1]},
    !.indexes = {Index(1, 61, 11, TRUE), Index(1, 62, 12, FALSE), Index(1, 63, 12, TRUE),
                 Index(1, 64, 11, FALSE), Index(1, 65, 12, TRUE), Index(2, 61, 21, TRUE)},
    !.triggers = {Trigger(1, 71, 11)}]

Selections ==
  {[Schemas EXCEPT !.start.cmd.src_user = w, !.start.cmd.listtable = l, !.start.cmd.mngscrout = m] :
     w \in {<<{1}>>, <<{2}>>, <<{1}, {2}>>, <<{1, 2, 3}>>},
     l \in {<<>>, <<{11}>>, <<{12}>>, <<{11}, {12, 21}>>},
     m \in {{}, AllMasks, AllMasks \ {"C1024"}, AllMasks \ {"C1026"}, {"C1025", "C1027"}}}
  \cup {[Schemas EXCEPT !.start.cmd.src_user = w] : w \in {<<{1, 2}, {2}>>, <<{1}, {1, 3}>>, <<{9}>>}}
  \cup {[Schemas EXCEPT !.start.cmd.filetable = <<{11}>>, !.start.cmd.fileexcpt = <<{12}>>, !.start.cmd.filefixed = <<{11}>>],
        [Schemas EXCEPT !.start.cmd = @ @@ "usualpath" :> TRUE],
        [Schemas EXCEPT !.start.cmd.listexcpt = <<{11}>>, !.start.cmd.skipscr = TRUE],
        [Schemas EXCEPT !.start.cmd.listtable = <<{12}>>, !.tables = {t \in @ : t # T(2, 12)}],
        [Schemas EXCEPT !.start.cmd.num_rows = 1, !.tables = @ \cup {[T(1, 21) EXCEPT !.rows = 0]},
                        !.constraints = @ \cup {Fk(1, 60, 21, 1, 53)}]}

(* Tables of every kind, in partitions, organized by an index, not to be   *)
(* unloaded at all, too short, not to be counted, with names that meet.    *)
Kinds ==
  [Plain EXCEPT
    !.start.cmd.num_rows = 3,
    !.tables =
      {[T(1, 13) EXCEPT !.partitioned = TRUE, !.mbytes = 3, !.rows = 3], [T(1, 14) EXCEPT !.iot = "IOT"],
       [T(1, 15) EXCEPT !.iot = "IOT_OVERFLOW"], [T(1, 16) EXCEPT !.temporary = TRUE],
       [T(1, 901) EXCEPT !.dropped = TRUE], T(1, 17), T(1, 18), T(1, 301),
       [T(1, 19) EXCEPT !.rows = 2]},
    !.externals = {[owner |-> 1, name |-> 17]},
    !.mviews = {[owner |-> 1, name |-> 18, updatable |-> FALSE],
                [owner |-> 1, name |-> 14, updatable |-> TRUE]},
    !.columns = {[C(1, 13, 1, TRUE) EXCEPT !.type = "LOB"], [C(1, 14, 1, TRUE) EXCEPT !.type = "LONG"]},
    !.parttables = {[owner |-> 1, name |-> 13]},
    !.partitions = {[owner |-> 1, name |-> 13, part |-> p, bytes |-> p] : p \in 1..2},
    !.objects = {Object(1, 13, p, "TABLE PARTITION") : p \in 1..2}
                \cup {[Object(1, 14, 0, "TABLE") EXCEPT !.hasData = FALSE]},
    !.indexes = {[Index(1, 66, 14, TRUE) EXCEPT !.type = "IOT - TOP"], Index(1, 67, 901, TRUE)},
    !.constraints = {KeyCons(1, 51, 14, "P", 66), Con(1, 52, 901, "C"), Con(1, 53, 111, "C"),
                     Con(1, 54, 211, "C")}]

Collections ==
  {[Kinds EXCEPT !.start.cmd.partitioning = p] : p \in 0..5}
  \cup {[Kinds EXCEPT !.tables = @ \cup S] :
          S \in {{T(1, 111), T(1, 211)}, {T(1, 531)},
                 {[T(1, 11) EXCEPT !.fails = TRUE]},
                 {[T(1, 20) EXCEPT !.fails = TRUE]},
                 {[T(1, 12) EXCEPT !.mbytes = 0, !.fails = TRUE]}}}
  \cup {[Kinds EXCEPT !.start.cmd.src_user = <<{1, 2}>>, !.users = {1, 2}, !.tables = @ \cup {T(2, 18)}]}
  \cup {[Kinds EXCEPT !.dba = TRUE, !.start.cmd.rowid_split_min_size = m, !.tables = @ \cup {T(1, 11)},
                      !.objects = @ \cup {Object(1, 11, 0, "TABLE")},
                      !.extents = Extents([lengths |-> <<3, 3>>, gap |-> 1])] : m \in {4, 12}}
  \cup {[Schemas EXCEPT !.tables = @ \cup {T(1, 1)}, !.triggers = @ \cup {Trigger(1, 72, 1)}]}

(* Failures, signals, and a process that is killed.                        *)
Small ==
  [Plain EXCEPT
    !.trouble = 1,
    !.tables = {T(1, 11), T(1, 12)},
    !.columns = {C(1, 11, 1, TRUE)},
    !.constraints = {KeyCons(1, 51, 11, "P", 61), Fk(1, 54, 12, 1, 51), Con(1, 56, 12, "C")},
    !.indexes = {Index(1, 61, 11, TRUE), Index(1, 64, 12, FALSE)}]

(* A repository that is a file, and a dictionary that changes.             *)
Changed(S) ==
  {[c EXCEPT !.status = IF c.name = 56 THEN "DISABLED" ELSE @, !.validated = c.name # 54] :
     c \in {d \in S : d.name # 51}} \cup {KeyCons(1, 51, 11, "P", 61), Con(1, 57, 11, "C")}
Family ==
  LET first == [Small EXCEPT !.start.cmd.repos_fn = "repo.db", !.family = 1]
  IN  {first,
       [first EXCEPT !.trouble = 0, !.constraints = Changed(@)],
       [first EXCEPT !.trouble = 0, !.start.cmd.listtable = <<{12}>>],
       [first EXCEPT !.trouble = 0, !.constraints = {c \in @ : c.name = 51}]}

(* Where the parameters come from.                                         *)
Tiny == [Small EXCEPT !.trouble = 0, !.users = {1, 2}, !.tables = @ \cup {T(2, 11)}]
Without(options) == [o \in DOMAIN Start.cmd \ options |-> Start.cmd[o]]
Setting(set, refs) == [set |-> set, refs |-> refs]
Included ==
  [Tiny EXCEPT
    !.start.cmd = Without({"src_user", "listtable", "num_rows"}),
    !.start.files = "home.conf" :> Setting([src_user |-> <<{1}>>, include |-> "more", num_rows |-> 1], <<>>)
                    @@ "more" :> Setting([src_user |-> <<{2}>>, listtable |-> <<{11}>>, num_rows |-> 9], <<>>)
                    @@ "conf" :> Setting([listtable |-> <<{12}>>], [src_user |-> "OWNERS"])]
Began(env) == [Included EXCEPT !.start.env = env]
Starts ==
  {Included,
   [Included EXCEPT !.start.files["home.conf"] = EmptyConf],
   [Included EXCEPT !.start.files["home.conf"].set.include = "gone"],
   [Included EXCEPT !.start.cmd = @ @@ [include |-> "more"], !.start.files["home.conf"].set.include = "conf"],
   [Included EXCEPT !.start.conf = "conf"],
   [Included EXCEPT !.start.conf = "conf", !.start.env = @ @@ "OWNERS" :> <<{1, 2}>>],
   [Included EXCEPT !.start.conf = "confdir", !.start.dirs = @ @@ "confdir" :> "conf"],
   [Included EXCEPT !.start.conf = "gone"],
   [Included EXCEPT !.start.dirs["bin"] = "more"],
   [Included EXCEPT !.start.cmd = @ @@ [listtable |-> <<{12}>>, num_rows |-> 0]],
   Began(<<>>), Began("HOME" :> "home"), Began("HOME" :> "gone"),
   Began("HOME" :> "gone" @@ "SA_HOME" :> "home"),
   [Included EXCEPT !.start.files = "conf" :> @["conf"]],
   [Included EXCEPT !.start.conf_tar = FALSE],
   [Included EXCEPT !.start.cmd = @ @@ [sid |-> 1]],
   [Included EXCEPT !.start.files["more"].set = @ @@ [sid |-> 1]],
   [Included EXCEPT !.start.asks = {"help"}],
   [Included EXCEPT !.start.asks = {"help"}, !.start.cmd = @ @@ [sid |-> 1]],
   [Included EXCEPT !.start.cmd = @ @@ [parallelism |-> 0]],
   [Included EXCEPT !.start.cmd = @ @@ [cmntlvl |-> 3]],
   [Included EXCEPT !.start.cmd = @ @@ [output |-> "gone"]],
   [Included EXCEPT !.start.cmd = @ @@ [output |-> "a file"]],
   [Included EXCEPT !.start.cmd = @ @@ [prc_affinity_mask |-> ""]],
   [Included EXCEPT !.start.cmd = @ @@ [extnameclob |-> "1st"]],
   [Included EXCEPT !.start.files["home.conf"].set.src_user = <<>>],
   [Included EXCEPT !.start.cmd.feature = "getmeta"],
   [Included EXCEPT !.start.cmd.feature = "other"]}

(* Where the files go.                                                     *)
Locations ==
  {<<Macro("O"), Text("/"), Macro("T"), Text("."), Macro("X")>>,
   <<Macro("O"), Text("/"), Macro("T"), Macro("P"), Text("."), Macro("X")>>,
   <<Macro("O"), Text("/"), Macro("C")>>,
   <<Macro("O"), Text("/"), Macro("I"), Text("/"), Macro("C"), Text("."), Macro("X")>>,
   <<Text("/dev/null")>>, <<Text("tmp"), Text("/"), [macro |-> "E", opt |-> "NODE"], Macro("D"), Macro("C")>>,
   <<Macro("A"), Macro("W"), Macro("C"), Text("."), Macro("X")>>,
   <<Macro("Z")>>, <<>>}
Locators ==
  {[scheme |-> "file", location |-> l] : l \in Locations}
  \cup {[scheme |-> s, location |-> sDefaultStreamLocator_.location] : s \in {"ipc_pipe", "named_pipe", "ftp"}}
Parts(g, parts) == [g EXCEPT !.start.cmd.partitioning = parts]
Outputs ==
  LET Pieces ==
        [Kinds EXCEPT !.dba = TRUE, !.start.cmd.rowid_split_min_size = 4, !.tables = @ \cup {T(1, 11)},
                      !.objects = @ \cup {Object(1, 11, 0, "TABLE")},
                      !.extents = Extents([lengths |-> <<3, 3>>, gap |-> 1])]
      Short == [Pieces EXCEPT !.tables = {t \in @ : t.name \in {11, 13, 14}}]
  IN  {[Parts(Short, p) EXCEPT !.start.cmd.stdout = b, !.start.cmd.stream_locator = l] :
         p \in {0, 3}, b \in {1, 2, 3}, l \in Locators}
      \cup {[Short EXCEPT !.start.cmd.suppress_ctrlf = TRUE],
            [Short EXCEPT !.start.cmd.dataext = "ctl"],
            [Small EXCEPT !.trouble = 0, !.tables = @ \cup {T(1, 111), T(1, 211)},
                          !.start.cmd.suppress_ctrlf = TRUE]}

(* A user who has not been granted the views of the administrator.         *)
Privileges ==
  {[Schemas EXCEPT !.tabprivs = {}, !.sysprivs = s, !.me = me] :
     s \in {{}, {<<"SELECT", "ANY TABLE">>}}, me \in {1, 2}}
  \cup {[Schemas EXCEPT !.tabprivs = {}, !.me = SYS, !.objects = {Object(SYS, DBA_INDEXES, 0, "VIEW")}]}

(* Statements, in directories, in files and as texts.                      *)
File(owner, stem, stmts) == [owner |-> owner, stem |-> stem, ext |-> "sql", regular |-> TRUE, stmts |-> stmts]
Dir(entries) == [kind |-> "directory", entries |-> entries]
OneFile(stem, stmts) == [kind |-> "file", stem |-> stem, stmts |-> stmts]
SqlText(into, stmts) == [kind |-> "text", semicolon |-> TRUE, select |-> TRUE, into |-> into, stmts |-> stmts]
Sources ==
  "dir" :> Dir(<<File(0, 31, <<1, 2>>), [File(1, 32, <<3>>) EXCEPT !.ext = ""], File(1, 33, <<4>>),
                 [File(1, 34, <<5>>) EXCEPT !.ext = "txt"], File(2, 33, <<6>>),
                 [File(0, 35, <<7>>) EXCEPT !.regular = FALSE]>>)
  @@ "twice" :> Dir(<<File(0, 31, <<8>>), File(1, 31, <<9>>)>>)
  @@ "file" :> OneFile(36, <<10, 11>>)
  @@ "blank" :> OneFile(37, <<12, 0, 13>>)
  @@ "nothing" :> OneFile(38, <<>>)
  @@ "first blank" :> OneFile(38, <<0, 14>>)
  @@ "dollar" :> OneFile(138, <<15>>)
  @@ "text" :> SqlText(39, <<16>>)
  @@ "plain text" :> SqlText(0, <<17>>)
  @@ "other text" :> SqlText(31, <<18>>)
  @@ "update" :> [SqlText(0, <<19>>) EXCEPT !.select = FALSE]
  @@ "many" :> OneFile(40, [i \in 1..NAX_NUM_ELEMENT_QUERIES |-> 1000 + i])
Query1 ==
  [Plain EXCEPT !.start.cmd.feature = "query", !.users = {1, 2}, !.start.cmd.src_user = <<{1, 2}>>,
                !.sources = Sources]
Queries ==
  {[Query1 EXCEPT !.start.cmd.queryvar = v, !.start.cmd.queryfix = f, !.start.cmd.partitioning = p,
                  !.start.cmd.src_user = <<w>>] :
     v \in {"dir", "file", "twice", "text"},
     f \in {"blank", "nothing", "first blank", "dollar", "plain text", "other text", "update", "gone"},
     p \in {0, 1}, w \in {{1}, {1, 2}}}
  \cup {[Query1 EXCEPT !.start.cmd.queryfix = "many", !.start.cmd.partitioning = 1],
        [Query1 EXCEPT !.start.cmd.queryfilename = [any |-> FALSE, of |-> {<<1, 33>>}]],
        [Query1 EXCEPT !.start.cmd.queryfilename = NoStem],
        [Query1 EXCEPT !.bind = FALSE],
        [Query1 EXCEPT !.start.cmd = @ @@ "dst_info" :> [user |-> "", db |-> "DB"]], [Query1 EXCEPT !.start.cmd.skipscr = TRUE],
        [Query1 EXCEPT !.start.cmd.stdout = 1,
                       !.start.cmd.stream_locator.location = <<Macro("O"), Text("/"), Macro("I"), Text("_"), Macro("C")>>],
        [Query1 EXCEPT !.trouble = 1]}

(* One or two failures or signals, and many objects with a failure.        *)
Troubled == {[Small EXCEPT !.trouble = 2], [Schemas EXCEPT !.trouble = 1]}

MCGiven ==
  Layouts \cup Selections \cup Collections \cup Troubled \cup Family
  \cup Starts \cup Outputs \cup Privileges \cup Queries
=============================================================================
