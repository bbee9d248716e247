------------------------------ MODULE MCExtProc ------------------------------
(* Mpx, and ExtProc in it, on small instances; the cfg chooses the bounds. *)
EXTENDS Mpx

MCPrograms == {"", "#", "cp", "sqlldr", "sqlplus", Torn, Lost}
MCRemarks == {"", "#"}
MCMaxList == {"sqlldr", "sqlplus"}
MCIgnList == {"sqlplus"}

(* The options: the second program run in parallel may fail.               *)
MCCmd == [ignlist |-> MCIgnList, scr_make_sh |-> <<"_make.sh", "sqlldr", "cp">>]
MCEnv == [TOOL |-> "sqlplus", HOME |-> "home"]

MCStart(text) ==
  [home |-> TRUE, cmd |-> MCCmd, positional |-> FALSE, asks |-> {}, env |-> MCEnv,
   places |-> {"here"}, scripts |-> [s \in {"_make.sh"} |-> text], mkcrd |-> "absent"]

(* Lines that can be read, for each place in the script.                   *)
First ==
  { <<Word("#"), Word(Blank), Word("cp")>>,
    <<Word("cp"), Word(Blank), Arg(1)>>,
    <<Word("sqlldr")>> }
Second ==
  { <<Arg(0), Word(Blank), Env("HOME")>>,
    <<Env("tool"), Word(Blank), Arg(0)>> }
Third ==
  { <<Arg(1)>>,
    <<Word("sqlldr")>>,
    <<Word("sqlplus")>> }

(* ... and lines that cannot: a placeholder after another, and one without *)
(* a value, in a line to be run and in a comment.                          *)
Odd ==
  { <<Arg(0), Arg(1), Word(Blank), Word("cp")>>,
    <<Word("cp"), Word(Blank), Env("NONE"), Word("x"), Arg(0)>>,
    <<Env("NONE"), Word(Blank), Arg(1)>>,
    <<Word("#"), Word(Blank), Arg(9)>> }

Scripts ==
  {<<first, second, third>> : first \in First, second \in Second, third \in Third} \cup
  {[i \in Lines |-> IF i = 2 THEN odd ELSE <<Word("sqlldr")>>] : odd \in Odd}

AScript == [i \in Lines |-> <<Word("sqlldr")>>]
AStart == MCStart(AScript)
With(cmd) == [AStart EXCEPT !.cmd = cmd @@ MCCmd]

(* What goes wrong, or otherwise, before the first line.                   *)
Others ==
  { [AStart EXCEPT !.home = FALSE],
    [AStart EXCEPT !.positional = TRUE],
    [AStart EXCEPT !.asks = {"version"}],
    [AStart EXCEPT !.scripts = [s \in {} |-> AScript]],
    [AStart EXCEPT !.places = {}],
    With([parallelism |-> 0]), With([parallelism |-> 65]),
    With([nice |-> -21]), With([nice |-> 20]),
    With([cmd |-> "_make.sh"]),
    With([scr_make_sh |-> <<>>]),
    With([csi |-> "text"]), With([cso |-> ""]), With([cse |-> "stdout.log"]) } \cup
  { [With([startup |-> [name |-> "sub", bare |-> TRUE]]) EXCEPT !.places = {"here"} \cup p] :
      p \in {{"here/sub"}, {"home/sub"}, {"here/sub", "home/sub"}} } \cup
  { [With([csi |-> "@file"]) EXCEPT !.mkcrd = m] : m \in {"absent", "fails", "works"} }

MCStarts == {MCStart(s) : s \in Scripts} \cup Others
=============================================================================
