--------------------------------- MODULE Mpx ---------------------------------
(***************************************************************************)
(* The program mpx around ExtProc: mpx.cpp (main), its options             *)
(* (cAppConf.cpp), what they stand for (cStartValues.cpp), and what        *)
(* cAppLocal::vRun does before the first line: it goes to the startup      *)
(* directory, reads the script with the placeholders in its lines replaced,*)
(* and has mkcrd decrypt what the children are to be sent.                 *)
(*                                                                         *)
(* start is how mpx is started:                                            *)
(*   home       the home directory with xtru.conf, and its archive, are    *)
(*              there                                                      *)
(*   cmd        the options on the command line or in the file, and        *)
(*   positional whether a word without an option's name is there too       *)
(*   asks       whether help or the version is asked for, or nothing given *)
(*   env        the words that environment variables stand for             *)
(*   places     the directories there are                                  *)
(*   scripts    the scripts in the startup directory: a line is a sequence *)
(*              of atoms, which are words, blanks and placeholders         *)
(*   mkcrd      whether the credential utility is there and can read a file*)
(*                                                                         *)
(* A placeholder that is not in the table leaves an iterator at its end,   *)
(* and the size of what it does not point to says where to go on: anywhere *)
(* in the line, for ever at the same place, or nowhere at all.             *)
(***************************************************************************)
EXTENDS ExtProc, Integers, TLC

CONSTANTS
  Starts,               (* The ways to start mpx.                          *)
  iNumPhisicalCores

VARIABLES
  start,                (* How mpx has been started; never changes.        *)
  mpx,                  (* Where main is; "lines": in the loop of vRun.    *)
  rc                    (* cRtn: what the process returns.                 *)

main == <<start, mpx, rc>>

(* --- The options ------------------------------------------------------- *)

cmd_or_conf_opts_ ==
  {"parallelism", "nice", "mpxlist", "ignlist", "startup", "csi", "cso", "cse",
   "scr_make_sh"}

(* The startup directory is the current one.                               *)
Defaults ==
  [parallelism |-> iNumPhisicalCores, nice |-> 0,
   mpxlist |-> {"sqlldr", "sqlplus"}, ignlist |-> {"grep"},
   startup |-> [name |-> "here", bare |-> FALSE],
   csi |-> "", cso |-> "stdout.log", cse |-> "stderr.log",
   scr_make_sh |-> <<"_make.sh">>]

vm_(s) == s.cmd @@ Defaults

IsValid(vm) ==
  /\ vm.parallelism \in 1..64
  /\ vm.nice \in -20..19
  /\ vm.scr_make_sh # <<>>

(* The word without a name is to be the option "cmd", which nobody has     *)
(* declared.                                                               *)
IsUnknown(s) == s.positional \/ ~(DOMAIN s.cmd \subseteq cmd_or_conf_opts_)

(* main looks for a bare name in the home directory, vRun in the current.  *)
InHome(dir) == IF dir.bare THEN "home/" \o dir.name ELSE dir.name
FromHere(dir) == IF dir.bare THEN "here/" \o dir.name ELSE dir.name

sCmdFile_(s) == vm_(s).scr_make_sh[1]
sParamValue_(s) == Tail(vm_(s).scr_make_sh)

(* --- The files of oOut_ and oErr_ -------------------------------------- *)

(* cSink: a stream begins with a file of its own, and open moves that to a *)
(* name.  What has the name already is removed, though it be the file of   *)
(* the other stream, which goes on writing to what nobody can read.        *)
Removed == "removed"

Open(files, stream, name) ==
  [t \in DOMAIN files |->
     IF name = "" THEN files[t]
     ELSE IF t = stream THEN name
     ELSE IF files[t] = name THEN Removed ELSE files[t]]

FilesOf(s) ==
  Open(Open([oOut_ |-> "_mpx_0.log", oErr_ |-> "_mpx_1.log"], "oOut_", vm_(s).cso), "oErr_", vm_(s).cse)

(* --- The lines of the script ------------------------------------------- *)

Blank == " "
Atom == [kind : {"word", "arg", "env"}, name : STRING]
Word(w) == [kind |-> "word", name |-> w]
Arg(n) == [kind |-> "arg", name |-> ToString(n)]
Env(name) == [kind |-> "env", name |-> name]

(* Only what is written as a variable is put in upper case.                *)
Upper(name) == IF name = "tool" THEN "TOOL" ELSE name

oTableOfReplacement_(s) ==
  LET arg == [n \in {ToString(i - 1) : i \in DOMAIN sParamValue_(s)} |->
                sParamValue_(s)[CHOOSE i \in DOMAIN sParamValue_(s) : ToString(i - 1) = n]]
  IN  arg @@ s.env

Key(atom) == IF atom.kind = "env" THEN Upper(atom.name) ELSE atom.name

Lost == "lost"
Torn == "torn"      (* A word in which there is a placeholder still.       *)

(* What the line may read like from atom k on, where rest says so of the   *)
(* atoms behind it; the character after what has been replaced is skipped, *)
(* so that a '$' in its place is not seen.                                 *)
Dollar == {"seen", "skipped"}

ReadAt(line, table, rest, k, dollar) ==
  IF k = Len(line) + 1 THEN {<<>>}
  ELSE IF line[k].kind = "word"
  THEN {<<line[k].name>> \o r : r \in rest[k + 1]["seen"]}
  ELSE IF dollar = "skipped"
  THEN {<<Torn>> \o r : r \in rest[k + 1]["seen"]}
  ELSE IF Key(line[k]) \in DOMAIN table
  THEN {<<table[Key(line[k])]>> \o r : r \in rest[k + 1]["skipped"]}
  ELSE {<<Lost>>} \cup
       UNION {{<<Torn>> \o r : r \in rest[j]["seen"]} :
                j \in (k + 1)..(Len(line) + 1)}

ReadFrom(line, table) ==
  LET f[k \in 1..(Len(line) + 1)] ==
        [dollar \in Dollar |-> ReadAt(line, table, f, k, dollar)]
  IN  f

Replaced(line, table) == ReadFrom(line, table)[1]["seen"]

(* The program is what stands before the first blank.                      *)
Program(words) ==
  LET blanks == {k \in DOMAIN words : words[k] = Blank}
      first == IF blanks = {} THEN Len(words)
               ELSE (CHOOSE k \in blanks : \A l \in blanks : k <= l) - 1
  IN  IF \E k \in DOMAIN words : words[k] = Lost THEN Lost
      ELSE IF first = 0 THEN ""
      ELSE IF words[1] \in Remarks \/ first = 1 THEN words[1]
      ELSE Torn

(* Every placeholder of the line has a value and none follows another.     *)
IsReadable(line, table) ==
  \A k \in DOMAIN line :
    line[k].kind # "word" => /\ Key(line[k]) \in DOMAIN table
                             /\ k > 1 => line[k - 1].kind = "word"

(* What the user means an atom to be, and a line to run.                   *)
Value(atom, table) ==
  IF atom.kind = "word" THEN atom.name ELSE table[Key(atom)]

Meant(line, table) ==
  Program([k \in DOMAIN line |-> Value(line[k], table)])

(* A script that is not there, or is never come to, has no lines.          *)
IsStarted(s) == ~IsUnknown(s) /\ IsValid(vm_(s))

Text(s) ==
  IF IsStarted(s) /\ sCmdFile_(s) \in DOMAIN s.scripts
  THEN s.scripts[sCmdFile_(s)] ELSE [i \in Lines |-> <<>>]

Readings(s, i) ==
  IF IsStarted(s) THEN {Program(r) : r \in Replaced(Text(s)[i], oTableOfReplacement_(s))}
  ELSE {""}

ASSUME MpxAssumption ==
  \A s \in Starts :
    /\ \A i \in Lines : /\ Text(s)[i] \in Seq(Atom)
                       /\ Readings(s, i) \subseteq Programs
    /\ IsStarted(s) => /\ vm_(s).parallelism = iConcurrency
                       /\ vm_(s).mpxlist = MaxList
                       /\ vm_(s).ignlist = IgnList

MpxInit ==
  /\ start \in Starts
  /\ mpx = "home"
  /\ rc = 0
  /\ stmts \in [Lines -> UNION {Readings(start, i) : i \in Lines}]
  /\ \A i \in Lines : stmts[i] \in Readings(start, i)
  /\ Init

-----------------------------------------------------------------------------
(* main.                                                                   *)

(* What raises is caught in main, and makes the process return failure.    *)
Step(from, to, condition) ==
  /\ mpx = from
  /\ mpx' = IF condition THEN to ELSE "report"
  /\ rc' = IF condition THEN rc ELSE 1
  /\ UNCHANGED <<start, vars>>

(* iCheckHomeOrMakeIt and iCheckConfOrMakeIt.                              *)
CheckHome ==
  /\ mpx = "home"
  /\ mpx' = IF start.home THEN "parse" ELSE "ended"
  /\ UNCHANGED <<start, rc, vars>>

(* conf.oParse; where help is asked for nothing is validated.              *)
Parse ==
  Step("parse", "place",
       ~IsUnknown(start) /\ (start.asks # {} \/ IsValid(vm_(start))))

CheckPlace == Step("place", "help", InHome(vm_(start).startup) \in start.places)

Help ==
  /\ mpx = "help"
  /\ mpx' = IF start.asks # {} THEN "ended" ELSE "startup"
  /\ UNCHANGED <<start, rc, vars>>

(* cAppLocal::vRun up to the loop.                                         *)
EnterStartup ==
  Step("startup", "script", FromHere(vm_(start).startup) \in start.places)

OpenScript == Step("script", "read", sCmdFile_(start) \in DOMAIN start.scripts)

ReadScript ==
  /\ mpx = "read"
  /\ mpx' = IF \E i \in Lines : stmts[i] = Lost THEN "lost" ELSE "credential"
  /\ UNCHANGED <<start, rc, vars>>

(* A csi that begins with '@' names the file with the credential.          *)
ReadCredential ==
  Step("credential", "lines", vm_(start).csi = "@file" => start.mkcrd = "works")

Prepare ==
  \/ CheckHome \/ Parse \/ CheckPlace \/ Help \/ EnterStartup \/ OpenScript
  \/ ReadScript \/ ReadCredential

LoopEnds ==
  /\ mpx = "lines"
  /\ pc = "end"
  /\ mpx' = "report"
  /\ UNCHANGED <<start, rc, vars>>

(* The data rate is divided by the milliseconds it took, which may be none *)
(* when no child was launched.                                             *)
Report ==
  /\ mpx = "report"
  /\ mpx' \in {"ended"} \cup IF \A i \in Lines : child[i] = "none" THEN {"crashed"} ELSE {}
  /\ UNCHANGED <<start, rc, vars>>

(* The handler is there before anything else, and until main returns.      *)
CancelMain ==
  /\ mpx \notin {"ended", "crashed", "lost"}
  /\ SignalArrives
  /\ UNCHANGED main

MainLine ==
  /\ mpx = "lines"
  /\ Main
  /\ UNCHANGED main

RunLine(i) ==
  /\ mpx = "lines"
  /\ vRun(i)
  /\ UNCHANGED main

ChildStep(i) ==
  /\ ChildExits(i) \/ OutputEnds(i)
  /\ UNCHANGED main

MpxNext ==
  \/ Prepare \/ LoopEnds \/ Report
  \/ CancelMain
  \/ MainLine
  \/ \E i \in Lines : RunLine(i) \/ ChildStep(i)

MpxVars == <<main, vars>>

(* The fairness of ExtProc; main is a thread like the others.              *)
MpxSpec ==
  /\ MpxInit /\ [][MpxNext]_MpxVars
  /\ WF_MpxVars(Prepare) /\ WF_MpxVars(LoopEnds \/ Report) /\ WF_MpxVars(MainLine)
  /\ \A i \in Lines : /\ WF_MpxVars(RunLine(i))
                      /\ WF_MpxVars(ChildExits(i) /\ UNCHANGED main)
                      /\ WF_MpxVars(OutputEnds(i) /\ UNCHANGED main)

-----------------------------------------------------------------------------
(* Properties.                                                             *)

(* What a line runs: what it means where it can be read, and otherwise what*)
(* has become of it.                                                       *)
Named(i) ==
  LET table == oTableOfReplacement_(start)
  IN  IF IsStarted(start) /\ IsReadable(Text(start)[i], table)
      THEN Meant(Text(start)[i], table) ELSE stmts[i]

(* The groups of the script, as its lines are meant, run one after the     *)
(* other: a child is launched only when every earlier line of another group*)
(* is through, whichever lines name their program by an argument or by a   *)
(* variable.                                                               *)
GroupsRunInOrder ==
  LET named == [i \in Lines |-> Named(i)]
      OneGroup(i, j) == named[i] \in MaxList /\ \A k \in i..j : named[k] = named[i]
  IN  \A i, j \in Lines :
        i < j /\ child[j] # "none" /\ named[i] \notin Remarks /\ ~OneGroup(i, j)
          => proc[i] = "done"

(* What main says of a run that was neither refused nor cancelled: every   *)
(* line that is no comment has been run, what failed was to be ignored,    *)
(* and what the line has written is in a file, unless one name is given for*)
(* both streams.                                                           *)
IsCompleted == mpx = "ended" /\ rc = 0 /\ start.home /\ start.asks = {} /\ cont_
IsLogged(i, stream) ==
  /\ FilesOf(start)[stream] # Removed
  /\ \E n \in DOMAIN out : out[n] = i /\ (n % 2 = 1 <=> stream = "oOut_")
ReportIsTrue ==
  IsCompleted => \A i \in Lines :
    Named(i) \notin Remarks =>
      /\ child[i] = "reaped" /\ ~Fatal(i)
      /\ \A stream \in {"oOut_", "oErr_"} : IsLogged(i, stream) \/ vm_(start).cso = vm_(start).cse

(* mpx comes to its end, and "Completed successfully" is true, unless a    *)
(* child could not be launched, a placeholder has no value, or the run was *)
(* too short for its data rate.                                            *)
MpxEnds ==
  <>(\/ mpx = "ended" /\ ReportIsTrue
     \/ mpx \in {"crashed", "lost"}
     \/ \E i \in Lines : child[i] = "failed")
=============================================================================
