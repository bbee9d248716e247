---------------------------- MODULE MetaObjects ----------------------------
(***************************************************************************)
(* The describers of everything but tables: database links, sequences,     *)
(* programs, views, synonyms, refresh groups and jobs, and what hangs on   *)
(* an object: privileges, audit options, the audit trail, comments and     *)
(* triggers.                                                               *)
(*                                                                         *)
(* A describer is its list with the order and the key of its attributes,   *)
(* the rows its query returns, and what its printer writes for a row r     *)
(* that is the i-th of its key.                                            *)
(***************************************************************************)
EXTENDS MetaPrint, SequencesExt

(* --- What hangs on an object ------------------------------------------ *)

AllTabPrivs == [list |-> "AllTabPrivs", order |-> <<"owner", "name", "priv", "grantee">>,
                key |-> <<"owner", "name">>]

(* The join with ALL_OBJECTS repeats a privilege for every object of the   *)
(* name whose type is not excluded.                                        *)
AllTabPrivsRows(d) ==
  {[owner |-> po[1].owner, name |-> po[1].name, priv |-> po[1].priv, grantee |-> po[1].grantee,
    type |-> po[2].type] :
     po \in {po \in InOwners(d, d.privs) \X d.objects :
        /\ po[1].owner = po[2].owner /\ po[1].name = po[2].name
        /\ po[2].type \notin {"PACKAGE BODY", "TYPE BODY", "TABLE PARTITION",
                              "TABLE SUBPARTITION", "TRIGGER"}}}

PrintPriv(r) == Say("grant", <<r.owner, r.name, r.priv, r.grantee>>)

UserObjAuditOpts == [list |-> "UserObjAuditOpts", order |-> <<"owner", "name">>,
                     key |-> <<"owner", "name">>]

UserObjAuditOptsRows(d) == {r \in Accessible(d, d.auditopts) : r.opts # {}}

AuditedActions ==
  <<"ALTER", "AUDIT", "COMMENT", "DELETE", "GRANT", "INDEX", "INSERT", "LOCK", "RENAME", "SELECT",
    "UPDATE", "EXECUTE", "CREATE", "READ", "WRITE", "FLASHBACK">>

PrintAuditOpts(r) ==
  LET Audit(o) == [do |-> "say", kind |-> "audit", of |-> <<r.owner, r.name, o>>]
  IN  Kept([i \in DOMAIN AuditedActions |-> Audit(AuditedActions[i])],
           {i \in DOMAIN AuditedActions : AuditedActions[i] \in r.opts})

AuditOptsPre(key) == Say("noaudit", key)

UserAuditObject == [list |-> "UserAuditObject", order |-> <<"owner", "name", "at">>,
                    key |-> <<"owner", "name">>]

(* A negative numdays_audit skips the execution of the query.              *)
UserAuditObjectRows(d) ==
  IF d.numdays < 0 THEN {} ELSE {r \in Accessible(d, d.trail) : r.age < d.numdays}

PrintTrail(r) == Say("trail", <<r.owner, r.name, r.at>>)

AllTabComments == [list |-> "AllTabComments", order |-> <<"owner", "name">>,
                   key |-> <<"owner", "name">>]

AllTabCommentsRows(d) ==
  {r \in InOwners(d, d.comments) :
     /\ ~r.mlog
     /\ CASE d.cmntlvl = 0 -> FALSE [] d.cmntlvl = 1 -> r.given [] OTHER -> TRUE}

PrintTabComment(r) == Say("comment on table", <<r.owner, r.name>>)

AllColComments == [list |-> "AllColComments", order |-> <<"owner", "name", "id">>,
                   key |-> <<"owner", "name">>]

AllColCommentsRows(d) ==
  {[owner |-> ct[1].owner, name |-> ct[1].name, column |-> ct[1].column, id |-> ct[2].id] :
     ct \in {ct \in InOwners(d, d.colcomments) \X d.columns :
        /\ ct[1].owner = ct[2].owner /\ ct[1].name = ct[2].table
        /\ ct[1].column = ct[2].column
        /\ CASE d.cmntlvl = 0 -> FALSE [] d.cmntlvl = 1 -> ct[1].given [] OTHER -> TRUE}}

PrintColComment(r) == Say("comment on column", <<r.owner, r.name, r.column>>)

AllTriggers == [list |-> "AllTriggers", order |-> <<"owner", "table", "name">>,
                key |-> <<"owner", "table">>]

AllTriggersRows(d) ==
  {r \in InOwners(d, d.triggers) : r.tableOwner = r.owner /\ r.base \in {"TABLE", "VIEW"}}

PrintTrigger(r) == Say("create trigger", <<r.owner, r.name, r.table>>)

(* --- Database links ---------------------------------------------------- *)

UserDbLinks == [list |-> "UserDbLinks", order |-> <<"owner", "name">>, key |-> <<"owner">>]

UserDbLinksRows(d) == InOwners(d, d.links)

(* What a faulty prompt would do: number the links with a password only.   *)
UserDbLinksPreNamed(q) ==
  LET named == SelectSeq(q, LAMBDA l : l.user = "named")
  IN  [i \in DOMAIN named |->
         [do |-> "say", kind |-> "accept password", of |-> <<i, named[i].owner, named[i].name>>]]

(* A password is asked for every link still in the list, not only for those*)
(* of the key, and numbered by its place in the list.                      *)
UserDbLinksPre(q) ==
  Kept([i \in DOMAIN q |->
          [do |-> "say", kind |-> "accept password", of |-> <<i, q[i].owner, q[i].name>>]],
       {i \in DOMAIN q : q[i].user = "named"})

(* The password is named by the place among the rows of the key.           *)
PrintDbLink(r, i) ==
  Say("create link", <<r.owner, r.name>>)
  \o When(r.user = "named", Say("identified by", <<i, r.owner, r.name>>))
  \o PrintAll("UserAuditObject", <<r.owner, r.name>>)

(* --- Sequences --------------------------------------------------------- *)

AllSequences == [list |-> "AllSequences", order |-> <<"owner", "name">>, key |-> <<"owner">>]

AllSequencesRows(d) == InOwners(d, d.sequences)

(* What Oracle takes for the bounds of an ascending and of a descending    *)
(* sequence; -9 and 9 stand for the 26 and 27 digits of the code.          *)
AscMin == 1
DescMin == -9
AscMax == 9
DescMax == -1

(* The bounds are compared with the defaults of both directions, whatever  *)
(* the direction of this sequence; an empty clause is nominvalue.          *)
PrintSequence(r) ==
  LET Clause(v, defaults) == IF v \in defaults THEN <<>> ELSE <<v>>
  IN  Say("create sequence",
          <<r.owner, r.name, Clause(r.min, {AscMin, DescMin}),
            Clause(r.max, {AscMax, DescMax}), r.by>>)
      \o PrintAll("AllTabPrivs", <<r.owner, r.name>>)
      \o PrintAll("UserObjAuditOpts", <<r.owner, r.name>>)
      \o PrintAll("UserAuditObject", <<r.owner, r.name>>)

(* --- Programs ---------------------------------------------------------- *)

(* Types are only compared for equality among the rows of one key.         *)
AllObjects == [list |-> "AllObjects", order |-> <<"owner", "name">>, key |-> <<"owner", "type">>]

AllObjectsRows(d) ==
  {[owner |-> o.owner, type |-> o.type, name |-> o.name] :
     o \in {r \in InOwners(d, d.objects) :
        /\ ~r.generated
        /\ r.type \in {"CLUSTER", "FUNCTION", "MATERIALIZED VIEW", "PACKAGE", "PACKAGE BODY",
                       "PROCEDURE", "SEQUENCE", "SYNONYM", "TABLE", "TRIGGER", "TYPE",
                       "TYPE BODY", "VIEW"}}}

PrintObject(r) == PrintAll("AllSource", <<r.owner, r.name, r.type>>)

AllSource == [list |-> "AllSource", order |-> <<"owner", "name", "line">>,
              key |-> <<"owner", "name", "type">>]

AllSourceRows(d) == InOwners(d, d.source)

AllSourcePre(key) == Say("create program", <<key[1], key[2], key[3]>>)

PrintSource(r) == Say("source line", <<r.owner, r.name, r.type, r.line>>)

AllSourceNotFound(key) == Say("no source", key)

(* --- Views, synonyms --------------------------------------------------- *)

AllViews == [list |-> "AllViews", order |-> <<"owner", "name">>, key |-> <<"owner">>]

AllViewsRows(d) ==
  {v \in InOwners(d, d.views) :
     ~\E m \in d.mviews : m.owner = v.owner /\ m.view = v.name}

(* What a faulty printer would leave out: the audit options.               *)
PrintViewUnaudited(r) ==
  LET oKey == <<r.owner, r.name>>
  IN  Say("create view", oKey)
      \o PrintAll("ViewColumns", oKey)
      \o PrintAll("AllTabComments", oKey) \o PrintAll("AllColComments", oKey)
      \o PrintAll("AllTriggers", oKey) \o PrintAll("AllTabPrivs", oKey)
      \o PrintAll("UserAuditObject", oKey)

PrintView(r) ==
  LET oKey == <<r.owner, r.name>>
  IN  Say("create view", oKey)
      \o PrintAll("ViewColumns", oKey)
      \o PrintAll("AllTabComments", oKey) \o PrintAll("AllColComments", oKey)
      \o PrintAll("AllTriggers", oKey) \o PrintAll("AllTabPrivs", oKey)
      \o PrintAll("UserObjAuditOpts", oKey) \o PrintAll("UserAuditObject", oKey)

AllSynonyms == [list |-> "AllSynonyms", order |-> <<"owner", "name">>, key |-> <<"owner">>]

AllSynonymsRows(d) == InOwners(d, d.synonyms)

PrintSynonym(r) ==
  Say("create synonym", <<r.owner, r.name>>) \o PrintAll("UserAuditObject", <<r.owner, r.name>>)

(* --- Refresh groups, jobs ---------------------------------------------- *)

AllRefresh == [list |-> "AllRefresh", order |-> <<"owner", "name">>, key |-> <<"owner">>]

AllRefreshRows(d) == InOwners(d, d.refresh)

PrintRefresh(r) ==
  Say("destroy group", <<r.owner, r.name>>)
  \o PrintAll("AllRefreshChildren", <<r.owner, r.name>>)
  \o Say("make group", <<r.owner, r.name>>)

AllRefreshChildren == [list |-> "AllRefreshChildren", order |-> <<"owner", "name", "of", "mview">>,
                       key |-> <<"owner", "name">>]

AllRefreshChildrenRows(d) == InOwners(d, d.refreshchildren)

PrintRefreshChild(r, i) == Say("group member", <<i, r.owner, r.name, r.of, r.mview>>)

(* The list of members is closed whether there are any or not.             *)
AllRefreshChildrenEnd(key) == Say("end of members", key)

UserJobs == [list |-> "UserJobs", order |-> <<"owner", "job">>, key |-> <<"owner">>]

(* The jobs of refresh groups are made with the groups.                    *)
UserJobsRows(d) ==
  {j \in Accessible(d, d.jobs) : ~\E g \in d.refresh : g.job = j.job /\ g.owner = j.owner}

PrintJob(r) == Say("submit job", <<r.owner, r.job>>)
=============================================================================
