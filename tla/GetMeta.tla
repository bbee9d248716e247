------------------------------- MODULE GetMeta -------------------------------
(***************************************************************************)
(* The script of getmeta (cGetMetaImpl::vRun from line 434 on).  All lists *)
(* have been read (MetaFetch).  For one owner after the other the main     *)
(* describers are printed; a printer writes its clauses and calls the      *)
(* printers of other describers, which look their rows up by key in lists  *)
(* they all share, and erase them when they are done.                      *)
(*                                                                         *)
(* agenda is the call stack: the items still to be written, in order.  A   *)
(* call is replaced by what it prints, its rows one by one, and an item    *)
(* that erases the rows behind the last of them (vPrintMatched); a row is  *)
(* replaced by its clauses and calls when its turn comes, so a printer     *)
(* sees the lists as its predecessors left them.                           *)
(***************************************************************************)
EXTENDS MetaObjects, MetaTables, MetaConstraints, MetaPartitions, MetaIndexes

CONSTANT Dictionaries   (* What the program may be started on.             *)

IsSequence(q) == q \in Seq({q[i] : i \in DOMAIN q})

VARIABLES
  d,          (* The parameters and the dictionary.                        *)
  store,      (* The lists of the describers.                              *)
  agenda,     (* What is still to be written.                              *)
  script,     (* What has been written.                                    *)
  oNumBojs,   (* cAllObjects: how many programs, by label.                 *)
  banner      (* cNumObjs: the figures of the header; empty until the end. *)

vars == <<d, store, agenda, script, oNumBojs, banner>>

(* --- The lists --------------------------------------------------------- *)

(* The rows of every query; the columns are copied for those who look up a *)
(* name or a number.                                                       *)
Queried(dict) ==
  [AllTabPrivs |-> AllTabPrivsRows(dict),
   UserObjAuditOpts |-> UserObjAuditOptsRows(dict),
   UserAuditObject |-> UserAuditObjectRows(dict),
   AllTabComments |-> AllTabCommentsRows(dict),
   AllColComments |-> AllColCommentsRows(dict),
   AllTriggers |-> AllTriggersRows(dict),
   UserDbLinks |-> UserDbLinksRows(dict),
   AllSequences |-> AllSequencesRows(dict),
   AllObjects |-> AllObjectsRows(dict),
   AllSource |-> AllSourceRows(dict),
   AllViews |-> AllViewsRows(dict),
   AllSynonyms |-> AllSynonymsRows(dict),
   AllRefresh |-> AllRefreshRows(dict),
   AllRefreshChildren |-> AllRefreshChildrenRows(dict),
   UserJobs |-> UserJobsRows(dict),
   OutputOrderTbl |-> OutputOrderTblRows(dict),
   AllTables |-> AllTablesRows(dict),
   AllExternalTables |-> AllExternalTablesRows(dict),
   AllExternalLocations |-> AllExternalLocationsRows(dict),
   AllTabColumns |-> AllTabColumnsRows(dict),
   AllColumns |-> AllTabColumnsRows(dict),
   DataDefault |-> DataDefaultRows(dict),
   UserSegments |-> UserSegmentsRows(dict),
   AllLobs |-> AllLobsRows(dict),
   AllLogGroups |-> AllLogGroupsRows(dict),
   AllLogGroupColumns |-> AllLogGroupColumnsRows(dict),
   AllClusters |-> AllClustersRows(dict),
   UserCluColumns |-> UserCluColumnsRows(dict),
   HashExpr |-> HashExprRows(dict),
   AllMviews |-> AllMviewsRows(dict),
   AllMviewLogs |-> AllMviewLogsRows(dict),
   DbaMviewLogFilterCols |->
     IF dict.dba THEN DbaMviewLogFilterColsRows(dict) ELSE {},
   AllConsColumnsKey |-> AllConsColumnsKeyRows(dict),
   AllConsColumnsRef |-> AllConsColumnsRefRows(dict),
   ConsOfAKey |-> ConsOfAKeyRows(dict),
   ConsOfCheck |-> ConsOfCheckRows(dict),
   ConsOfFKey |-> ConsOfFKeyRows(dict),
   EffectiveKeyCons |-> EffectiveKeyConsRows(dict),
   ParentWithChild |-> ParentWithChildRows(dict),
   TablesWithFk |-> TablesWithFkRows(dict),
   AllPartTables |-> AllPartTablesRows(dict),
   AllPartKeyColumns |-> AllPartKeyColumnsRows(dict),
   AllSubPartKeyColumns |-> AllSubPartKeyColumnsRows(dict),
   AllTabPartitions |-> AllTabPartitionsRows(dict),
   AllTabSubPartitions |-> AllTabSubPartitionsRows(dict),
   AllSubPartitionTemplates |-> AllSubPartitionTemplatesRows(dict),
   UserIndexes |-> UserIndexesRows(dict),
   AllIndColumns |-> AllIndColumnsRows(dict),
   AllIndExpressions |-> AllIndExpressionsRows(dict),
   AllPartIndexes |-> AllPartIndexesRows(dict),
   AllIndPartitions |-> AllIndPartitionsRows(dict),
   AllIndSubPartitions |-> AllIndSubPartitionsRows(dict)]

(* Owners are listed in the order of the script, and a query returns       *)
(* finitely many rows.                                                     *)
ASSUME DictionariesAssumption ==
  \A x \in Dictionaries :
    /\ IsSequence(x.owners)
    /\ LET queried == Queried(x)
       IN  \A list \in DOMAIN queried : IsFiniteSet(queried[list])

(* How a caller selects rows: the list, and the fields its key is about.   *)
Describers ==
  [AllTabPrivs |-> AllTabPrivs, UserObjAuditOpts |-> UserObjAuditOpts,
   UserAuditObject |-> UserAuditObject, AllTabComments |-> AllTabComments,
   AllColComments |-> AllColComments, AllTriggers |-> AllTriggers, UserDbLinks |-> UserDbLinks,
   AllSequences |-> AllSequences, AllObjects |-> AllObjects, AllSource |-> AllSource,
   AllViews |-> AllViews, AllSynonyms |-> AllSynonyms, AllRefresh |-> AllRefresh,
   AllRefreshChildren |-> AllRefreshChildren, UserJobs |-> UserJobs,
   OutputOrderTbl |-> OutputOrderTbl, AllTables |-> AllTables,
   AllExternalTables |-> AllExternalTables, AllExternalLocations |-> AllExternalLocations,
   AllTabColumns |-> AllTabColumns, DataDefault |-> DataDefault, UserSegments |-> UserSegments,
   AllLobs |-> AllLobs, AllLogGroups |-> AllLogGroups, AllLogGroupColumns |-> AllLogGroupColumns,
   AllClusters |-> AllClusters, UserCluColumns |-> UserCluColumns, HashExpr |-> HashExpr,
   AllMviews |-> AllMviews, AllMviewLogs |-> AllMviewLogs,
   DbaMviewLogFilterCols |-> DbaMviewLogFilterCols, AllConsColumnsKey |-> AllConsColumnsKey,
   AllConsColumnsRef |-> AllConsColumnsRef, ConsOfAKey |-> ConsOfAKey,
   ConsOfCheck |-> ConsOfCheck, ConsOfFKey |-> ConsOfFKey, EffectiveKeyCons |-> EffectiveKeyCons,
   ParentWithChild |-> ParentWithChild, TablesWithFk |-> TablesWithFk,
   AllPartTables |-> AllPartTables, AllPartKeyColumns |-> AllPartKeyColumns,
   AllSubPartKeyColumns |-> AllSubPartKeyColumns, AllTabPartitions |-> AllTabPartitions,
   AllTabSubPartitions |-> AllTabSubPartitions,
   AllSubPartitionTemplates |-> AllSubPartitionTemplates, UserIndexes |-> UserIndexes,
   AllIndColumns |-> AllIndColumns, AllIndExpressions |-> AllIndExpressions,
   AllPartIndexes |-> AllPartIndexes, AllIndPartitions |-> AllIndPartitions,
   AllIndSubPartitions |-> AllIndSubPartitions, ViewColumns |-> AllTabColumns,
   PartTableStorage |-> PartTableStorage, TabPartsByQuantity |-> TabPartsByQuantity,
   TabSubPartsByQuantity |-> TabSubPartsByQuantity, DerivedFromTemplate |-> DerivedFromTemplate,
   IndPartsByQuantity |-> IndPartsByQuantity, IndSubPartsByQuantity |-> IndSubPartsByQuantity,
   IotIndex |-> IotIndex, UsingIndex |-> UsingIndex, ConsByName |-> ConsByName,
   EffectiveByName |-> EffectiveByName, IotOverflow |-> IotOverflow,
   VirtualColumn |-> VirtualColumn]

(* The lists are sorted (but see ConsOfCheckSorted).                       *)
Loaded(dict) ==
  LET queried == Queried(dict)
      Order(list) == IF list = "AllColumns" THEN AllTabColumns.order
                     ELSE IF list = "ConsOfCheck" /\ ~ConsOfCheckSorted(dict) THEN <<>>
                     ELSE Describers[list].order
  IN  [list \in DOMAIN queried |-> Sorted(Order(list), queried[list])]

(* The printer of row i of q, the rows call c has found in the lists s.    *)
PrintRow(s, c, q, i) ==
  LET r == q[i]
  IN
  CASE c.by = "AllTabPrivs" -> PrintPriv(r)
    [] c.by = "UserObjAuditOpts" -> PrintAuditOpts(r)
    [] c.by = "UserAuditObject" -> PrintTrail(r)
    [] c.by = "AllTabComments" -> PrintTabComment(r)
    [] c.by = "AllColComments" -> PrintColComment(r)
    [] c.by = "AllTriggers" -> PrintTrigger(r)
    [] c.by = "UserDbLinks" -> PrintDbLink(r, i)
    [] c.by = "AllSequences" -> PrintSequence(r)
    [] c.by = "AllObjects" -> PrintObject(r)
    [] c.by = "AllSource" -> PrintSource(r)
    [] c.by = "AllViews" -> PrintView(r)
    [] c.by = "AllSynonyms" -> PrintSynonym(r)
    [] c.by = "AllRefresh" -> PrintRefresh(r)
    [] c.by = "AllRefreshChildren" -> PrintRefreshChild(r, i)
    [] c.by = "UserJobs" -> PrintJob(r)
    [] c.by = "OutputOrderTbl" -> PrintTable(d, s, r)
    [] c.by = "AllTables" -> PrintTableAttributes(r)
    [] c.by = "AllExternalTables" -> PrintExternal(r)
    [] c.by = "AllExternalLocations" -> PrintLocation(r)
    [] c.by = "AllTabColumns" -> PrintTabColumn(d, r)
    [] c.by = "DataDefault" -> PrintDefault(r)
    [] c.by = "UserSegments" -> PrintSegment(r)
    [] c.by = "AllLobs" -> PrintLob(r)
    [] c.by = "AllLogGroups" -> PrintLogGroup(r)
    [] c.by = "AllLogGroupColumns" -> PrintLogGroupColumn(r)
    [] c.by = "AllClusters" -> PrintCluster(r)
    [] c.by = "UserCluColumns" -> PrintCluColumn(r)
    [] c.by = "HashExpr" -> PrintHashExpr(r)
    [] c.by = "AllMviews" -> PrintMview(s, r)
    [] c.by = "AllMviewLogs" -> PrintMviewLog(d, r)
    [] c.by = "DbaMviewLogFilterCols" -> PrintFilterCol(s, r)
    [] c.by = "AllConsColumnsKey" -> PrintConsColumn(r)
    [] c.by = "AllConsColumnsRef" -> PrintConsColumn(r)
    [] c.by = "ConsOfAKey" -> PrintAKey(r, c.arg[1])
    [] c.by = "ConsOfCheck" -> PrintCheck(r)
    [] c.by = "ConsOfFKey" -> PrintFKey(r)
    [] c.by = "EffectiveKeyCons" -> PrintEffective(r)
    [] c.by = "ParentWithChild" -> PrintParent(r)
    [] c.by = "TablesWithFk" -> PrintTableWithFk(d, r)
    [] c.by = "AllPartTables" -> PrintPartTable(r)
    [] c.by = "AllPartKeyColumns" -> PrintPartKeyColumn(r)
    [] c.by = "AllSubPartKeyColumns" -> PrintSubPartKeyColumn(r)
    [] c.by = "AllTabPartitions" -> PrintTabPartition(r, c.arg)
    [] c.by = "AllTabSubPartitions" -> PrintTabSubPartition(r, c.arg)
    [] c.by = "AllSubPartitionTemplates" -> PrintTemplate(r, c.arg)
    [] c.by = "UserIndexes" -> PrintIndex(r)
    [] c.by = "AllIndColumns" -> PrintIndColumn(r)
    [] c.by = "AllIndExpressions" -> PrintIndExpression(r)
    [] c.by = "AllPartIndexes" -> PrintPartIndex(r)
    [] c.by = "AllIndPartitions" -> PrintIndPartition(r, c.arg)
    [] c.by = "AllIndSubPartitions" -> PrintIndSubPartition(r, c.arg)
    [] c.by = "ViewColumns" -> PrintViewColumn(r)
    [] c.by = "PartTableStorage" -> PrintPartStorage(r)
    [] c.by = "IotOverflow" -> PrintIotOverflow(r)
    [] c.by = "VirtualColumn" -> PrintVirtual(r)
    [] c.by = "UsingIndex" -> PrintUsingIndex(r)
    [] c.by = "IotIndex" -> PrintIotIndex(r, ColumnName(s, r.owner, r.table, r.include))
    [] OTHER -> PrintStoreIn(q, i)

(* --- One call ---------------------------------------------------------- *)

(* What is printed before the first row, behind the last, and for none.    *)
PrintPreRows(s, c) ==
  CASE c.by = "UserDbLinks" -> UserDbLinksPre(s.UserDbLinks)
    [] c.by = "UserObjAuditOpts" -> AuditOptsPre(c.key)
    [] c.by = "AllSource" -> AllSourcePre(c.key)
    [] c.by = "DataDefault" -> DataDefaultPre(c.key)
    [] c.by = "UserCluColumns" -> UserCluColumnsPre(c.key)
    [] c.by = "ConsOfAKey" -> ConsOfAKeyPre(c.key, c.arg[2])
    [] c.by = "EffectiveKeyCons" -> EffectivePre(c.key)
    [] OTHER -> <<>>

PrintPostRows(c) ==
  CASE c.by = "AllRefreshChildren" -> AllRefreshChildrenEnd(c.key)
    [] c.by = "ViewColumns" -> Say("end of view columns", c.key)
    [] OTHER -> <<>>

PrintNotFound(c) ==
  CASE c.by = "AllSource" -> AllSourceNotFound(c.key)
    [] c.by = "AllRefreshChildren" -> AllRefreshChildrenEnd(c.key)
    [] c.by = "EffectiveKeyCons" -> EffectiveNotFound(c.key)
    [] c.by = "TabPartsByQuantity" -> TabPartsNotFound(c.key, c.arg[1])
    [] OTHER -> <<>>

(* The position a program is counted under is filled once, by the first    *)
(* owner (map::insert).                                                    *)
Labels == [type |-> "TYPE", pckg |-> "PACKAGE", func |-> "FUNCTION", proc |-> "PROCEDURE",
           typb |-> "TYPE BODY", pkgb |-> "PACKAGE BODY"]

(* vPrintMatched, and what its callers do with the positions it returns.   *)
PrintMatched(s, c) ==
  LET q    == Found(s, Describers[c.by], c.key)
      rows == [i \in DOMAIN q |-> [do |-> "row", call |-> c, rows |-> q, i |-> i]]
  IN  IF q = <<>> THEN PrintNotFound(c)
      ELSE PrintPreRows(s, c) \o rows \o PrintPostRows(c)
           \o <<[do |-> "erase", list |-> Describers[c.by].list, rows |-> q,
                 dispose |-> c.dispose]>>

(* The index-organized mode of cUserIndexes has a key and a printer of its *)
(* own, and cAllObjects a loop of its own.                                 *)
PrintItems(s, c) ==
  IF c.by = "UserIndexes" /\ c.arg = <<TRUE>>
  THEN PrintMatched(s, [do |-> "print", by |-> "IotIndex", key |-> <<c.key[1], c.key[2], "IOT - TOP">>,
                        dispose |-> c.dispose, arg |-> c.arg])
  ELSE PrintMatched(s, c)
       \o When(c.by = "AllObjects",
            <<[do |-> "count", label |-> c.arg[1],
               n |-> Len(Found(s, AllObjects, c.key))]>>)

(* --- The script -------------------------------------------------------- *)

Programs(owner, label) == PrintAllWith("AllObjects", <<owner, Labels[label]>>, <<label>>)

(* What a faulty script would do: enable the foreign keys first.           *)
PrintOwnerKeysFirst(owner) ==
  Say("alter session", <<owner>>)
  \o PrintAll("UserDbLinks", <<owner>>) \o PrintAll("AllSequences", <<owner>>)
  \o PrintAll("AllClusters", <<owner>>)
  \o PrintAll("TablesWithFk", <<owner>>) \o PrintAll("OutputOrderTbl", <<owner>>)

PrintOwner(owner) ==
  Say("alter session", <<owner>>)
  \o PrintAll("UserDbLinks", <<owner>>) \o PrintAll("AllSequences", <<owner>>)
  \o Programs(owner, "type") \o Programs(owner, "pckg")
  \o Programs(owner, "func") \o Programs(owner, "proc")
  \o PrintAll("AllClusters", <<owner>>) \o PrintAll("OutputOrderTbl", <<owner>>)
  \o PrintAll("AllMviews", <<owner>>) \o PrintAll("TablesWithFk", <<owner>>)
  \o PrintAll("AllRefresh", <<owner>>) \o PrintAll("AllViews", <<owner>>)
  \o Programs(owner, "typb") \o Programs(owner, "pkgb")
  \o PrintAll("AllSynonyms", <<owner>>) \o PrintAll("UserJobs", <<owner>>)

(* What a faulty count would do: count what is left of the list.           *)
RowsLeft(list) == Len(store[list])

(* iGetNumRows: the rows a list had when it was sorted.                    *)
NumRows(list) == Len(Loaded(d)[list])

(* vSetValues, whose ninth and tenth arguments are called iChds and iSnps: *)
(* it is given the materialized views ninth, and the tables with foreign   *)
(* keys tenth.                                                             *)
SetValues ==
  [dlns |-> NumRows("UserDbLinks"), seqs |-> NumRows("AllSequences"),
   clus |-> NumRows("AllClusters"), tabs |-> NumRows("OutputOrderTbl"),
   chds |-> NumRows("AllMviews"), snps |-> NumRows("TablesWithFk"),
   refs |-> NumRows("AllRefresh"), view |-> NumRows("AllViews"),
   syns |-> NumRows("AllSynonyms"), jobs |-> NumRows("UserJobs")] @@ oNumBojs

Init ==
  /\ d \in Dictionaries
  /\ store = Loaded(d)
  /\ agenda = [i \in DOMAIN d.owners |-> [do |-> "owner", owner |-> d.owners[i]]]
  /\ script = <<>>
  /\ oNumBojs = <<>>
  /\ banner = <<>>

Turn(kind) == agenda # <<>> /\ Head(agenda).do = kind

Owner ==
  /\ Turn("owner")
  /\ agenda' = PrintOwner(Head(agenda).owner) \o Tail(agenda)
  /\ UNCHANGED <<d, store, script, oNumBojs, banner>>

Write ==
  /\ Turn("say")
  /\ script' = Append(script, [kind |-> Head(agenda).kind, of |-> Head(agenda).of])
  /\ agenda' = Tail(agenda)
  /\ UNCHANGED <<d, store, oNumBojs, banner>>

Call ==
  /\ Turn("print")
  /\ agenda' = PrintItems(store, Head(agenda)) \o Tail(agenda)
  /\ UNCHANGED <<d, store, script, oNumBojs, banner>>

Row ==
  /\ Turn("row")
  /\ LET a == Head(agenda)
     IN  agenda' = PrintRow(store, a.call, a.rows, a.i) \o Tail(agenda)
  /\ UNCHANGED <<d, store, script, oNumBojs, banner>>

Without(q, rows) == Kept(q, {i \in DOMAIN q : ~\E j \in DOMAIN rows : rows[j] = q[i]})

Erase ==
  /\ Turn("erase")
  /\ LET a == Head(agenda)
     IN  store' = IF a.dispose THEN [store EXCEPT ![a.list] = Without(@, a.rows)] ELSE store
  /\ agenda' = Tail(agenda)
  /\ UNCHANGED <<d, script, oNumBojs, banner>>

(* iSubtractCtxItemList                                                    *)
EraseUnprinted ==
  /\ Turn("subtract")
  /\ LET a == Head(agenda)
         x == Describers[a.by]
     IN  store' = [store EXCEPT ![x.list] = Without(@, Found(store, x, a.key))]
  /\ agenda' = Tail(agenda)
  /\ UNCHANGED <<d, script, oNumBojs, banner>>

Count ==
  /\ Turn("count")
  /\ oNumBojs' = oNumBojs @@ (Head(agenda).label :> Head(agenda).n)
  /\ agenda' = Tail(agenda)
  /\ UNCHANGED <<d, store, script, banner>>

(* A kind of log group or of index the code does not know: the exception   *)
(* leaves vRun, the file has been written up to here.                      *)
Raise ==
  /\ Turn("raise")
  /\ agenda' = <<>>
  /\ banner' = [raised |-> TRUE]
  /\ UNCHANGED <<d, store, script, oNumBojs>>

(* The header is overwritten with the figures.                             *)
Finish ==
  /\ agenda = <<>> /\ banner = <<>>
  /\ banner' = SetValues
  /\ UNCHANGED <<d, store, agenda, script, oNumBojs>>

Ended == banner # <<>> /\ UNCHANGED vars

Next == Owner \/ Write \/ Call \/ Row \/ Erase \/ EraseUnprinted \/ Count \/ Raise \/ Finish \/ Ended

Spec == Init /\ [][Next]_vars

(* --- Properties -------------------------------------------------------- *)

(* Row r is in a list of s.                                                *)
Has(s, list, r) == \E i \in DOMAIN s[list] : s[list][i] = r

(* The list an item stands on.                                             *)
ListOf(a) == IF a.do = "row" THEN Describers[a.call.by].list ELSE a.list

(* The rows that printers still stand on, or will erase, are in their      *)
(* lists: no printer further down erases them (vPrintMatched keeps         *)
(* iterators into the lists all printers share).                           *)
RowsStayWhileRead ==
  \A k \in DOMAIN agenda :
    LET a == agenda[k]
    IN  /\ a.do = "erase" => \A i \in DOMAIN a.rows : Has(store, ListOf(a), a.rows[i])
        /\ a.do = "row" => Has(store, ListOf(a), a.rows[a.i])

(* --- The inductive invariant behind it --------------------------------- *)

(* Printers call printers of lists further down only: the lists that       *)
(* vRun prints, what is written inside these, and so on; what is not named *)
(* here calls no other.                                                    *)
Depth(list) ==
  IF list \in {"UserDbLinks", "AllSequences", "AllObjects", "AllClusters", "OutputOrderTbl",
               "AllMviews", "TablesWithFk", "AllRefresh", "AllViews", "AllSynonyms", "UserJobs"}
  THEN 0
  ELSE IF list \in {"AllMviewLogs", "AllTabColumns", "ConsOfAKey", "ConsOfFKey", "AllLogGroups",
                    "AllExternalTables", "AllLobs", "UserIndexes"} THEN 1
  ELSE IF list \in {"AllTables", "AllPartIndexes", "AllIndColumns"} THEN 2
  ELSE IF list \in {"AllPartTables", "AllIndPartitions"} THEN 3
  ELSE IF list = "AllTabPartitions" THEN 4
  ELSE 5

At(by) == Depth(Describers[by].list)

(* An item that erases nothing of a list so deep or less, whatever its     *)
(* printer may call.                                                       *)
StaysBelow(a, depth) ==
  \/ a.do \in {"say", "raise", "count"}
  \/ a.do \in {"print", "subtract"} /\ At(a.by) > depth
  \/ a.do = "erase" /\ Depth(a.list) > depth
  \/ a.do = "row" /\ At(a.call.by) >= depth

(* What an item may be: a printer that exists, rows that are in their list.*)
IsItem(s, a) ==
  \/ a.do \in {"say", "raise", "count", "owner"}
  \/ a.do \in {"print", "subtract"} /\ a.by \in DOMAIN Describers
  \/ /\ a.do = "row" /\ a.call.by \in DOMAIN Describers
     /\ Has(s, ListOf(a), a.rows[a.i])
  \/ /\ a.do = "erase" /\ a.list \in DOMAIN s
     /\ \A i \in DOMAIN a.rows : Has(s, ListOf(a), a.rows[i])

AreLists(s) ==
  /\ \A by \in DOMAIN Describers : Describers[by].list \in DOMAIN s
  /\ \A list \in DOMAIN s : IsSequence(s[list])

(* Whatever comes before a row, or before the end of its printer, leaves   *)
(* its list alone.                                                         *)
CallsGoDown(q) ==
  \A j, k \in DOMAIN q :
    j < k /\ q[k].do \in {"row", "erase"} => StaysBelow(q[j], Depth(ListOf(q[k])))

IsAgenda(s, q) ==
  /\ IsSequence(q)
  /\ \A k \in DOMAIN q : IsItem(s, q[k])
  /\ CallsGoDown(q)

AgendaInv == AreLists(store) /\ IsAgenda(store, agenda)

Complete == banner # <<>> /\ ~("raised" \in DOMAIN banner)

(* The places of a kind of clause in the script, and of one clause.        *)
Places(kind) == {i \in DOMAIN script : script[i].kind = kind}
PlacesOf(kind, of) == {i \in Places(kind) : script[i].of = of}

(* A clause of a kind about this, and the same before place i.             *)
Said(kind, of) == PlacesOf(kind, of) # {}
SaidBefore(i, kind, of) == \E j \in PlacesOf(kind, of) : j < i

Described(owner) == \E i \in DOMAIN d.owners : d.owners[i] = owner

(* Tables the script has to create: not those the database makes for an    *)
(* overflow, a log or a snapshot, nor those in the recycle bin.            *)
RealTables ==
  {t \in InOwners(d, d.tables) :
     /\ t.iot # "IOT_OVERFLOW" /\ ~t.mlog /\ ~t.dropped
     /\ ~\E m \in d.mviews : m.owner = t.owner /\ m.view = t.name /\ m.immediate}

(* A table whose only keys refer to schemas that are not described is in   *)
(* neither half of the query for the order (cOutputOrderTbl.cpp:248).      *)
RefersAbroadOnly(t) ==
  LET keys == {c \in d.constraints : c.owner = t.owner /\ c.table = t.name
                                    /\ c.type \in {"P", "U", "R"}}
  IN  keys # {} /\ \A c \in keys : c.type = "R" /\ ~Described(c.rOwner)

(* An index that two constraints use is two rows of the outer join.        *)
Shared(owner, index) ==
  \E b, c \in d.constraints :
    b # c /\ b.owner = owner /\ c.owner = owner /\ b.index = index /\ c.index = index

(* Every table of the schemas is created, and once, whatever its keys and  *)
(* the keys that refer to it, and the lists in which it also occurs; so is *)
(* every index (but the shared ones) and every key, once.                  *)
EverythingIsCreatedOnce ==
  Complete =>
    /\ \A t \in RealTables :
         Cardinality(PlacesOf("create table", <<t.owner, t.name>>)) =
           (IF RefersAbroadOnly(t) THEN 0 ELSE 1)
    /\ \A kind \in {"create table", "create index", "using index", "key", "foreign key",
                    "create mview", "create log", "create view", "partition"} :
         \A i, j \in Places(kind) : script[i].of = script[j].of =>
           i = j \/ (kind = "create index" /\ Shared(script[i].of[1], script[i].of[3]))

(* The substitution variable of link clause i holds the password of this   *)
(* link: it was asked for last under this number.                          *)
IsAskedFor(i) ==
  \E j \in Places("accept password") :
    /\ j < i /\ script[j].of = script[i].of
    /\ \A k \in Places("accept password") \cap j + 1..i - 1 : script[k].of[1] # script[i].of[1]

(* When the script comes to this owner, the list of all links still begins *)
(* with those of another owner.                                            *)
LinksAreAhead(owner) ==
  \E i, j \in DOMAIN d.owners :
    /\ d.owners[i] = owner /\ i < j /\ d.owners[j] < owner
    /\ \E l \in d.links : l.owner = d.owners[j]

(* A foreign key is written where what it refers to exists: inside CREATE  *)
(* TABLE, the other table has been created, unless it has a foreign key    *)
(* itself (the levels of the query end at 2); it is enabled when the key   *)
(* it refers to is.  What is enabled has been created, but for the foreign *)
(* keys to other schemas, which are not written.  A log is created on an   *)
(* enabled primary key.  A link is identified by the password the user has *)
(* been asked for, and not by that of another link, if the links of no     *)
(* owner who sorts before it are still in the list.                        *)
ScriptIsInOrder ==
  Complete =>
    /\ \A i \in Places("references") :
         LET o == script[i].of[1] t == script[i].of[2] IN
           \/ SaidBefore(i, "create table", <<o, t>>)
           \/ d.dependent /\ \E c \in d.constraints : c.type = "R" /\ c.owner = o /\ c.table = t
    /\ \A i \in Places("enable"), c \in d.constraints :
         script[i].of = <<c.owner, c.table, c.name>> =>
           IF c.type = "R"
           THEN /\ \/ SaidBefore(i, "foreign key", script[i].of) \/ c.rOwner # c.owner
                /\ \A p \in d.constraints :
                     p.owner = c.owner /\ c.rOwner = c.owner /\ p.name = c.rName =>
                       SaidBefore(i, "enable", <<p.owner, p.table, p.name>>)
           ELSE \/ SaidBefore(i, "key", script[i].of \o <<FALSE>>)
                \/ SaidBefore(i, "key", script[i].of \o <<TRUE>>)
    /\ \A i \in Places("create log"), c \in d.constraints :
         script[i].of = <<c.owner, c.table>> /\ c.type = "P" =>
           SaidBefore(i, "enable", <<c.owner, c.table, c.name>>)
    /\ \A i \in Places("identified by") : IsAskedFor(i) \/ LinksAreAhead(script[i].of[2])

(* The columns a foreign key names on either side.                         *)
ColumnsBehind(i) ==
  Cardinality({j \in Places("key column") :
                 j > i /\ \A k \in i + 1..j : script[k].kind = "key column"})

(* Partitions, subpartitions and templates with a name of their own: those *)
(* a STORE IN clause or a template stands for are not in the script.       *)
Named ==
  {p \in InOwners(d, d.tabpartitions) : ~p.sysname}
  \cup {p \in InOwners(d, d.tabsubpartitions) : ~p.sysname /\ ~p.prefixed}
  \cup InOwners(d, d.templates)

BoundIsWhole(p) ==
  p.high # <<>> =>
    \E kind \in {"values", "values less than"} : \E i \in Places(kind) :
      /\ \A j \in 1..3 : script[i].of[j] = <<p.owner, p.table, p.name>>[j]
      /\ \/ ReadsAs(script[i].of[4], p.high)
         \/ Len(p.high) > 1 /\ Shortened(p.high[1])

(* What a piece of a table is compressed for when the script has been run: *)
(* what is said of it, otherwise of its partition, otherwise of the table. *)
CompressionRead(t, pieces) ==
  LET at(n) == {i \in Places("compress") : SubSeq(script[i].of, 1, 3) = Append(t, n)}
      said == SelectSeq(pieces, LAMBDA n : at(n) # {})
  IN  IF said = <<>> THEN <<>> ELSE <<script[Min(at(said[1]))].of[4]>>

(* c is its compression, above are those of what it is a part of: there is *)
(* no word against them.                                                   *)
IsCompressedAs(t, pieces, c, above) ==
  LET read == CompressionRead(t, pieces)
  IN  IF c.on = "ENABLED"
      THEN /\ read # <<>>
           /\ \/ read[1] = c.for
              \/ c.for \notin {<<"ALL">>, <<"OLTP">>} /\ IsPrefix(read[1], c.for)
      ELSE read = <<>> \/ \E b \in above : b.on = "ENABLED"

CompressionIsKept ==
  LET Created(S) == {p \in S : Said("create table", <<p.owner, p.table>>)}
      Above(p) == {t.compress : t \in {u \in d.parttables : <<u.owner, u.name>> = <<p.owner, p.table>>}}
  IN  /\ \A t \in {u \in RealTables : ~u.part /\ u.iot = ""} :
           Said("attributes", <<t.owner, t.name>>) =>
             IsCompressedAs(<<t.owner, t.name>>, <<0>>, t.compress, {})
      /\ \A p \in Created(Named \cap d.tabpartitions) :
           ~p.composite => IsCompressedAs(<<p.owner, p.table>>, <<p.name, 0>>, p.compress, Above(p))
      /\ \A p \in Created(Named \cap d.tabsubpartitions) :
           LET q == CHOOSE r \in d.tabpartitions :
                      <<r.owner, r.table, r.name>> = <<p.owner, p.table, p.partition>>
           IN  IsCompressedAs(<<p.owner, p.table>>, <<p.name, q.name, 0>>, p.compress,
                              Above(p) \cup {q.compress})

(* Nothing that belongs to a table or a view of the script is left in a    *)
(* list, and every partition has the bounds it has in the database, but    *)
(* for those behind a first one that has a shorter form, and is compressed *)
(* as it is there, unless it is the one piece that is not.  A foreign key  *)
(* names as many columns of the key it refers to as of its own, unless     *)
(* another one has used them up; a clustered table says so, unless the     *)
(* name of its cluster is cut off.                                         *)
NothingIsForgotten ==
  Complete =>
    /\ \A list \in {"AllTabPrivs", "UserObjAuditOpts", "UserAuditObject", "AllTabComments",
                    "AllColComments"} :
         \A i \in DOMAIN store[list] :
           LET of == <<store[list][i].owner, store[list][i].name>> IN
             ~\E kind \in {"create table", "create view", "create mview", "create cluster"} :
               Said(kind, of)
    /\ \A list \in {"ConsOfAKey", "ConsOfCheck", "ConsOfFKey", "EffectiveKeyCons", "UserIndexes",
                    "AllTriggers", "AllTabColumns", "DataDefault", "AllLobs", "AllLogGroups",
                    "AllTabPartitions", "AllTabSubPartitions"} :
         \A i \in DOMAIN store[list] :
           ~Said("create table", <<store[list][i].owner, store[list][i].table>>)
    /\ \A i \in Places("references") :
         LET own == CHOOSE j \in Places("foreign key") :
                      j < i /\ \A k \in j + 1..i - 1 : script[k].kind = "key column"
         IN  \/ ColumnsBehind(own) = ColumnsBehind(i)
             \/ \E k \in PlacesOf("references", script[i].of) : k < i
    /\ \A t \in RealTables :
         t.cluster # 0 /\ t.cluster < 100 /\ d.dba =>
           Said("cluster", <<t.owner, t.name, t.cluster>>)
    /\ CompressionIsKept
    /\ \A p \in Named : Said("create table", <<p.owner, p.table>>) => BoundIsWhole(p)

Number(kind) == Cardinality(Places(kind))

ProgramsOf(owners, label) ==
  Cardinality({i \in Places("create program") \cup Places("no source") :
                 script[i].of[1] \in owners /\ script[i].of[3] = Labels[label]})

ChildTables ==
  {<<c.owner, c.table>> : c \in {k \in InOwners(d, d.constraints) : k.type = "R"}}

(* A foreign key of a schema that is not described, which refers to one    *)
(* that is.                                                                *)
IsReferredToFromAbroad ==
  \E c \in d.constraints : c.type = "R" /\ ~Described(c.owner) /\ Described(c.rOwner)

(* The figures of the header, taken from the lists before they were        *)
(* printed, are those of the script: nothing that was counted is missing,  *)
(* and nothing printed was not counted.  Tables of other schemas that      *)
(* refer to these are counted with them.  Of the figures for snapshots and *)
(* for tables with foreign keys it is not said under which label either    *)
(* one stands (they are swapped, against cNumObjs.cpp:95-96), and of those *)
(* for programs not whether they count all of them ("Number of types", and *)
(* so on, cNumObjs.cpp:89) or those of the owner described first.          *)
BannerCounts ==
  Complete =>
    /\ banner.dlns = Number("create link") /\ banner.seqs = Number("create sequence")
    /\ banner.clus = Number("create cluster") /\ banner.view = Number("create view")
    /\ banner.refs = Number("make group") /\ banner.syns = Number("create synonym")
    /\ banner.jobs = Number("submit job")
    /\ ~IsReferredToFromAbroad => banner.tabs = Number("create table")
    /\ {<<banner.snps, banner.chds>>, <<banner.chds, banner.snps>>}
         = {<<Number("create mview"), Cardinality(ChildTables)>>,
            <<Cardinality(ChildTables), Number("create mview")>>}
    /\ \A label \in DOMAIN Labels :
         banner[label] \in {ProgramsOf({d.owners[1]}, label), ProgramsOf(Range(d.owners), label)}
=============================================================================
