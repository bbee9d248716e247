-------------------------------- MODULE Query --------------------------------
(***************************************************************************)
(* The feature "query": queryvar and queryfix each name a directory of     *)
(* files with statements, one such file, or are a statement themselves     *)
(* (cQuery).  For a schema they become tasks, whose results go where       *)
(* StreamLocator says.                                                     *)
(*                                                                         *)
(* x.sources is what the paths there are lead to, and the texts.  A source *)
(* is a directory, with its entries in the order in which they are found; a*)
(* file, with its stem and its statements; or a text, with its statements  *)
(* and the name behind INTO, 0 when there is none.  The statements are what*)
(* stands between semicolons; 0 is a blank.  An entry has the schema in    *)
(* front of its stem, 0 when there is none.                                *)
(***************************************************************************)
EXTENDS StreamLocator

NAX_NUM_ELEMENT_QUERIES == 1000

(* tFmtOfData: the parameters, and the stem of a text without INTO.        *)
FMT_VAR == [sConfParam_ |-> "queryvar", sDefaultFn_ |-> 81]
FMT_FIX == [sConfParam_ |-> "queryfix", sDefaultFn_ |-> 82]

Raises == [raises |-> TRUE]
Item(table, stmts) == [raises |-> FALSE, table |-> table, stmts |-> stmts]

(* wild_strmatch with queryfilename, which sees the schema in the stem.    *)
wild_strmatch(pattern, entry) == pattern.any \/ <<entry.owner, entry.stem>> \in pattern.of

IsImported(conf_, owner, entry) ==
  /\ entry.regular
  /\ entry.ext # "" /\ entry.ext = conf_.extnamesql
  /\ entry.owner \in {0, owner}
  /\ wild_strmatch(conf_.queryfilename, entry)

(* vAddTaskItem: what is to be submitted for a schema.                     *)
Items(conf_, owner, fmt, source) ==
  CASE source.kind = "directory" ->
         LET found == SelectSeq(source.entries, LAMBDA e : IsImported(conf_, owner, e))
         IN  [i \in DOMAIN found |-> Item(<<owner, found[i].stem>>, found[i].stmts)]
    [] source.kind = "file" -> <<Item(<<owner, source.stem>>, source.stmts)>>
    [] source.kind = "text" ->
         IF ~source.semicolon \/ ~source.select THEN <<Raises>>
         ELSE <<Item(<<0, IF source.into = 0 THEN fmt.sDefaultFn_ ELSE source.into>>,
                     source.stmts)>>

(* The statements are taken up to the first blank one.                     *)
UntilBlank(stmts) ==
  SubSeq(stmts, 1, Min({Len(stmts) + 1} \cup {i \in DOMAIN stmts : stmts[i] = 0}) - 1)

Executed(owner, stmt) == [schema |-> owner, stmt |-> stmt]

(* The parameters of SQL*Loader: for the conventional path, or the direct. *)
sGetParfName(iCondition) == IF iCondition THEN <<"_par1.txt">> ELSE <<"_par0.txt">>

QueryTask(owner, table, part, stmts) ==
  [p |-> [owner |-> owner, table |-> table, part |-> part],
   tag |-> table, param |-> sGetParfName(TRUE),
   selects |-> [i \in DOMAIN stmts |-> Executed(owner, stmts[i])]]

IsRefused(conf_, item) ==
  \/ item.raises
  \/ item.stmts = <<>>
  \/ Bit(conf_.partitioning, 1) /\ Len(item.stmts) >= NAX_NUM_ELEMENT_QUERIES

(* vSubmitWithSqlStmt: a task for each statement, or one for all of them.  *)
vSubmitWithSqlStmt(conf_, owner, item) ==
  LET stmts == UntilBlank(item.stmts)
  IN  IF Bit(conf_.partitioning, 1)
      THEN [i \in DOMAIN stmts |-> QueryTask(owner, item.table, i, <<stmts[i]>>)]
      ELSE <<QueryTask(owner, item.table, 0, stmts)>>

(* A path that leads nowhere is a text.                                    *)
Source(x, path) ==
  IF path \in DOMAIN x.sources THEN x.sources[path]
  ELSE [kind |-> "text", semicolon |-> FALSE, select |-> FALSE, into |-> 0, stmts |-> <<>>]

OwnerItems(x, conf_, owner) ==
  Items(conf_, owner, FMT_VAR, Source(x, conf_.queryvar))
  \o Items(conf_, owner, FMT_FIX, Source(x, conf_.queryfix))

(* Up to the first item that is refused.                                   *)
Submitted(conf_, owner, items) ==
  LET upto == Min({Len(items) + 1} \cup {i \in DOMAIN items : IsRefused(conf_, items[i])}) - 1
  IN  FlattenSeq([i \in 1..upto |-> vSubmitWithSqlStmt(conf_, owner, items[i])])

IsAnyRefused(conf_, items) == \E i \in DOMAIN items : IsRefused(conf_, items[i])
=============================================================================
