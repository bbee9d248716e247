------------------------------ MODULE Configures ------------------------------
(***************************************************************************)
(* The parameters of a run of xtru: what the environment, the command line *)
(* and the configuration files give (cConfigures), the options there are   *)
(* (cAppConf), and what main makes of them.                                *)
(*                                                                         *)
(* s is how the program is started:                                        *)
(*   env    the variables that are set; SA_HOME and HOME name directories  *)
(*   dirs   the directories there are, each with the path of its xtru.conf *)
(*   files  the configuration files there are, each with what it sets, and *)
(*          what it sets to the name of a variable (refs)                  *)
(*   argv0  the directory in which argv[0] seems to be                     *)
(*   conf   the argument of --config, "" when there is none                *)
(*   cmd    the other options on the command line, and                     *)
(*   asks   whether help or the version is among them                      *)
(*   places what there is at a path that "output" may name                 *)
(*   conf_tar whether the archive with the templates is installed          *)
(* A value is what the option's text stands for: a number, a name, the     *)
(* patterns in a list, the bits of a mask, the patterns in the file named. *)
(***************************************************************************)
EXTENDS Integers, FiniteSets, TLC

CONSTANT iNumPhisicalCores

(* po::store: a value that has been given before stays.                    *)
Store(vm, options) ==
  [o \in DOMAIN vm \cup DOMAIN options |-> IF o \in DOMAIN vm THEN vm[o] ELSE options[o]]

(* --- The options ------------------------------------------------------- *)

Common == {"filelog", "filetrace", "include"}

(* Schema SCOTT is 4.  A locator is a scheme and a location, in which there*)
(* are macros and text.                                                    *)
Macro(name) == [macro |-> name, opt |-> ""]
Text(text) == [macro |-> "", opt |-> text]
sDefaultStreamLocator_ ==
  [scheme |-> "file",
   location |-> <<Macro("O"), Text("/"), Macro("C"), Text("."), Macro("X")>>]

NoStem == [any |-> FALSE, of |-> {}]
AnyStem == [any |-> TRUE, of |-> {}]

Defaults1 ==
  [input |-> "input", output |-> "output", feedback |-> 100, parallelism |-> iNumPhisicalCores,
   prc_affinity_mask |-> "-", bulk_size |-> 1000, userid |-> "SYSTEM/MANAGER", feature |-> "unload",
   src_user |-> <<{4}>>, repos_fn |-> ":memory:", dst_info |-> [user |-> "SCOTT/TIGER", db |-> ""],
   stream_locator |-> sDefaultStreamLocator_,
   queryfix |-> "qryfix", queryvar |-> "qryvar", queryfilename |-> AnyStem,
   filebind |-> "bind.dat",
   fileexcpt |-> <<>>, filefixed |-> <<>>, filefkrb |-> "fkrb.sql", filemeta |-> "meta.sql",
   fileplsn |-> "plsn.txt", fileplsp |-> "plsp.txt", filetable |-> <<>>]
Others1 ==
  {"alter_dest", "listexcpt", "listfixed", "listtable", "min_bulk_size", "minimum_free_size",
   "auxiliary_dest", "dfile_alt_dirs", "stdout", "filesize"}

Defaults2 ==
  [filetbln |-> "tbln.txt", filetblp |-> "tblp.txt", dependent |-> FALSE, compress |-> FALSE,
   metadiv |-> FALSE, cmntlvl |-> 1, longtransit |-> 0, numdays_audit |-> -1, skipscr |-> FALSE,
   exec_load |-> "sqlldr", exec_plus |-> "sqlplus", extnameblob |-> "blo", extnameclob |-> "clo",
   extnamesql |-> "sql", findstrcmd |-> "grep", printcolid |-> FALSE, pre_rep_exec_pls |-> "",
   post_rep_exec_pls |-> ""]
Others2 ==
  {"loadmethod", "rows", "num_rows", "discrete", "sorting", "diralias", "consistent", "wintarget",
   "mngscrout", "sort_area_size", "optimizer_mode", "nmencls", "sqlfmt", "rerunpoint", "getexttbl",
   "bind_size", "fbqscn", "fbqtime"}

Defaults3 ==
  [rowid_split_num_parts |-> 4, rowid_split_min_size |-> 0, nobyteordermark |-> FALSE,
   maxlongsize |-> 1000, date_mask |-> "YYYYMMDDHH24MISS", timestamp_mask |-> "YYYYMMDDHH24MISSXFF"]
Others3 ==
  {"merge_lobs_into_sdf", "io_overlap_scale", "overlap_buffer_length",
   "db_file_multiblock_read_count", "partitioning", "optimizer_hints", "file_mapping",
   "priority_class", "thread_priority", "num_asynclobs", "charsetid", "number2bcd", "charsetform",
   "reversebyteorder", "client_id", "serveroutput", "wait_sync_interval", "wait_sync_maxretry",
   "minidump_type", "protect_from", "showstmt", "showcltdtm", "showstat", "showvers", "executable",
   "exec_mpx"}

Defaults4 ==
  [timestamp_tz_mask |-> "YYYYMMDDHH24MISSXFFTZHTZM", terminator |-> ",", encloser |-> "~~",
   reclength |-> 10, taf_delay_time |-> 60, rowseparator |-> "newline", dataext |-> "dat",
   scr_make_sh |-> "_make.sh", par_par0_txt |-> "_par0.txt", par_par1_txt |-> "_par1.txt",
   scr_conn_sql |-> "_conn.sql", scr_wait_here_sh |-> "_wait_here.sh",
   scr_disable_deps_sql |-> "_disable_deps.sql", scr_enable_deps_sql |-> "_enable_deps.sql"]
Others4 ==
  {"events_10046", "embed_column_name", "encloser2", "endterm", "suppress_ctrlf", "usualpath",
   "recoverable", "fpnumfmt"}

Defaults == Store(Store(Store(Defaults1, Defaults2), Defaults3), Defaults4)
cmd_or_conf_opts_ == DOMAIN Defaults \cup Common \cup Others1 \cup Others2 \cup Others3 \cup Others4

(* cAppConf::iValidate.                                                    *)
NotEmpty ==
  {"input", "output", "userid", "queryfix", "queryvar", "filebind", "filefkrb", "filemeta",
   "fileplsn", "fileplsp", "filetbln", "filetblp", "exec_load", "exec_plus", "extnameblob",
   "extnameclob", "extnamesql", "findstrcmd", "scr_make_sh"}

IsValid(vm) ==
  /\ \A o \in NotEmpty : vm[o] # ""
  /\ vm["queryfilename"] # NoStem
  /\ \A o \in {"parallelism", "bulk_size", "rowid_split_num_parts"} : vm[o] > 0
  /\ \A o \in {"cmntlvl", "longtransit"} : vm[o] \in 0..2
  /\ vm["reclength"] \in 0..10
  /\ vm["numdays_audit"] >= -1

(* --- Where they come from ---------------------------------------------- *)

(* The directory that SA_HOME names, or sa_home under the one of HOME.     *)
sPsHome_(s) == IF "SA_HOME" \in DOMAIN s.env THEN s.env["SA_HOME"] ELSE s.env["HOME"]

IsThere(s, path) == path \in DOMAIN s.files

(* cSubstituter: the name of a variable that is not set stays in the text, *)
(* and no schema and no table has such a name.                             *)
Substituted(s, file) ==
  [o \in DOMAIN file.refs |->
     IF file.refs[o] \in DOMAIN s.env THEN s.env[file.refs[o]] ELSE <<{}>>] @@ file.set

sDefaultConf(s) ==
  IF IsThere(s, s.dirs[s.argv0]) THEN s.dirs[s.argv0] ELSE s.dirs[sPsHome_(s)]

sConfFile_(s) ==
  LET given == IF s.conf # "" THEN s.conf ELSE sDefaultConf(s)
  IN  IF given \in DOMAIN s.dirs THEN s.dirs[given] ELSE given

AttachOne(s, vm, path) == IF IsThere(s, path) THEN Store(vm, Substituted(s, s.files[path])) ELSE vm

(* vAttchToConf: a file, and one file that it includes.                    *)
vAttchToConf(s) ==
  LET first == sConfFile_(s)
      vm == AttachOne(s, s.cmd, first)
  IN  IF IsThere(s, first) /\ "include" \in DOMAIN vm THEN AttachOne(s, vm, vm["include"]) ELSE vm

Attached(s) ==
  LET first == sConfFile_(s)
      vm == AttachOne(s, s.cmd, first)
  IN  {p \in {first} \cup IF IsThere(s, first) /\ "include" \in DOMAIN vm THEN {vm["include"]} ELSE {} :
         IsThere(s, p)}

(* An option that nobody has declared.                                     *)
IsUnknown(s) ==
  \/ ~(DOMAIN s.cmd \subseteq cmd_or_conf_opts_)
  \/ \E p \in Attached(s) :
       ~(DOMAIN s.files[p].set \cup DOMAIN s.files[p].refs \subseteq cmd_or_conf_opts_)

(* What vm_ holds in the end; defaults are replaced, values are not.       *)
vm_(s) == Store(vAttchToConf(s), Defaults)

(* cConfigures::as: an option that nobody gives is value-initialised.      *)
Initial ==
  [listtable |-> <<>>, listfixed |-> <<>>, listexcpt |-> <<>>, num_rows |-> 0,
   partitioning |-> 0, mngscrout |-> {}, stdout |-> 0, suppress_ctrlf |-> FALSE,
   usualpath |-> FALSE]
as(vm, option) == IF option \in DOMAIN vm THEN vm[option] ELSE Initial[option]

(* --- main -------------------------------------------------------------- *)

(* iCheckHomeOrMakeIt, iCheckConfOrMakeIt: a directory that is made now has*)
(* no xtru.conf; one that is unpacked now is to be looked at first.        *)
IsInterrupted(s) ==
  \/ sPsHome_(s) \notin DOMAIN s.dirs
  \/ ~s.conf_tar
  \/ ~IsThere(s, s.dirs[sPsHome_(s)])

(* Where the output goes must be there, even for the help.                 *)
HasOutput(s, vm) == vm["output"] \in DOMAIN s.places

Outcome(s) ==
  IF {"SA_HOME", "HOME"} \cap DOMAIN s.env = {} THEN "terminated"
  ELSE IF IsInterrupted(s) THEN "ended"
  ELSE IF s.asks # {}
  THEN IF DOMAIN s.cmd \subseteq cmd_or_conf_opts_ /\ HasOutput(s, s.cmd @@ Defaults)
       THEN "ended" ELSE "raised"
  ELSE IF IsUnknown(s) \/ ~IsValid(vm_(s)) \/ ~HasOutput(s, vm_(s)) THEN "raised"
  ELSE "parsed"
=============================================================================
