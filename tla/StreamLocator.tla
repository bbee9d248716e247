---------------------------- MODULE StreamLocator ----------------------------
(***************************************************************************)
(* Where an unloader writes: stream_locator names a scheme and a location  *)
(* whose macros stand for the output directory, the table, the partition   *)
(* and so on (nsStreamLocator).  The bits of the parameter stdout say which*)
(* kinds of files go there; the others go to the default locator.          *)
(*                                                                         *)
(* The place of a stream is the sequence of its scheme and of what the     *)
(* tokens of the location yield, each marked with its kind.  A stream is    *)
(* described by the record p: the schema, the table <<schema, name>>, where*)
(* the schema is 0 when the name has none, and the partition, 0 when there *)
(* is none.                                                                *)
(***************************************************************************)
EXTENDS Configures, Sequences, SequencesExt

Str(text) == <<"text", text>>
Table(name) == <<"table", name>>

Bit(n, b) == (n \div b) % 2 = 1

iExtData == 1
iExtCtrl == 2
iExtClob == 3
iExtBlob == 4

oExts_(conf_) == <<conf_.dataext, "ctl", conf_.extnameclob, conf_.extnameblob>>

(* "%s_%s": names from 400 on are a shorter name with a number behind it.  *)
Joined(n, piece) == 400 + 10 * n + piece

(* The name in {C}, under which _make.sh looks for the control file, too.  *)
FileName(p) == IF p.part = 0 THEN p.table ELSE <<p.table[1], Joined(p.table[2], p.part)>>

(* What the macros stand for; the directory of {A} is never set, and the   *)
(* clock does not move while a run lasts.                                  *)
oMacroMap_(conf_, env, p, ext, opt) ==
  [O |-> <<Str(conf_.output)>>,
   T |-> <<Table(p.table)>>,
   P |-> <<IF p.part = 0 THEN Str("np") ELSE <<"part", p.part>>>>,
   C |-> <<Table(FileName(p))>>,
   A |-> <<>>,
   I |-> <<<<"owner", p.owner>>>>,
   X |-> <<Str(oExts_(conf_)[ext])>>,
   D |-> <<Str("date")>>,
   W |-> <<Str("time")>>,
   E |-> IF opt \in DOMAIN env THEN <<Str(env[opt])>> ELSE <<>>]

oSchemeMap_ == {"file", "ipc_pipe", "named_pipe"}
Macros == {"O", "T", "P", "C", "A", "I", "X", "D", "W", "E"}

(* vInitialize: what is asked of the parameters.                           *)
IsIdentifier(ext) == ext \notin {"", "1st", "d.t"}

vInitialize(conf_, places) ==
  /\ conf_.stream_locator.scheme \in oSchemeMap_
  /\ conf_.stream_locator.location # <<>>
  /\ \A i \in DOMAIN conf_.stream_locator.location :
       conf_.stream_locator.location[i].macro \in Macros \cup {""}
  /\ places[conf_.output] = "directory"
  /\ \A i \in DOMAIN oExts_(conf_) : IsIdentifier(oExts_(conf_)[i])

(* LOBs follow the bit of the data or that of the control files.           *)
sGetStreamLocator(conf_, ext) ==
  IF \/ ext = iExtData /\ Bit(conf_.stdout, 1)
     \/ ext = iExtCtrl /\ Bit(conf_.stdout, 2)
     \/ ext \in {iExtClob, iExtBlob} /\ (Bit(conf_.stdout, 1) \/ Bit(conf_.stdout, 2))
  THEN conf_.stream_locator
  ELSE sDefaultStreamLocator_

(* cStreamLocator::oOpen.                                                  *)
Located(conf_, env, p, ext) ==
  LET locator == sGetStreamLocator(conf_, ext)
      Yield(token) == IF token.macro = "" THEN <<Str(token.opt)>>
                      ELSE oMacroMap_(conf_, env, p, ext, token.opt)[token.macro]
  IN  <<Str(locator.scheme)>>
      \o FlattenSeq([i \in DOMAIN locator.location |-> Yield(locator.location[i])])

(* filename(): what comes behind the last directory.                       *)
Directory(place) ==
  LET slashes == {i \in DOMAIN place : place[i] = Str("/")}
  IN  SubSeq(place, 1, Max({1} \cup slashes))
oGetsLastOpendFilename(place) == SubSeq(place, Len(Directory(place)) + 1, Len(place))
=============================================================================
