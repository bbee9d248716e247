----------------------------- MODULE NamedPipes -----------------------------
(***************************************************************************)
(* Output streams that lead out of the process: commands (LocalProcess) or *)
(* named pipes (lib/nsStreamLocator/cNamedPipe.cpp); stream_locator names  *)
(* one scheme, so those of a run are all of one kind.                      *)
(*                                                                         *)
(* A static map counts the streams of this process that have a pipe open   *)
(* and says whether the first of them made it; the last one removes it.    *)
(* A static mutex guards the map, and is held while a pipe is opened,      *)
(* which ends when a reader has come.                                      *)
(***************************************************************************)
EXTENDS LocalProcess

CONSTANTS
  NumPipeStreams,  (* Streams to named pipes.                              *)
  NumNames         (* Names: streams may be given the same one.            *)

ASSUME NamedPipesAssumption == NumPipeStreams \in Nat /\ NumNames \in Nat \ {0}

PipeStreams == 1..NumPipeStreams
Names       == 1..NumNames

VARIABLES
  name_,        (* The name of each stream, ...                            *)
  at,           (* ... where its thread is, ...                            *)
  isOpen,       (* ... and those that are open for writing.                *)
  mtx_,         (* The stream whose thread holds the mutex.                *)
  oNamedPipes,  (* How often a pipe is open, and whether it was made here. *)
  node,         (* External: what the file system has under a name, ...    *)
  found,        (* ... what it had at the beginning, ...                   *)
  habit,        (* ... how the pipes are read, ...                         *)
  reader_       (* ... and where the reader of each is.                    *)

setting  == <<name_, found, habit>>
pipeVars == <<name_, at, isOpen, mtx_, oNamedPipes, node, found, habit, reader_>>
allVars  == <<vars, pipeVars>>

Writers(n) == {s \in isOpen : name_[s] = n}

(* Either the pipes are read all at once, each as often as it appears; or  *)
(* each once; or one after the other, in order.                            *)
Habits == {"each", "once", "serial"}

Coming(n) ==
  /\ reader_[n] = "away"
  /\ habit = "serial" => \A m \in 1..n - 1 : reader_[m] = "gone"

-----------------------------------------------------------------------------
NoPipes ==
  /\ name_ = [s \in PipeStreams |-> 1]
  /\ at = [s \in PipeStreams |-> "closed"]
  /\ found = [n \in Names |-> "none"]
  /\ habit = "each"

(* The streams of commands are all past their ends.                        *)
NoCommands ==
  /\ pc = [s \in Streams |-> "closed"]
  /\ loud = [s \in Streams |-> {}]
  /\ oPipeSafe_ = None
  /\ fds = [n \in Fds |-> Free]
  /\ oSrc_ = [s \in Streams |-> {}]
  /\ reader = [s \in Streams |-> [p \in Outputs |-> "none"]]
  /\ posted = {}
  /\ child = [s \in Streams |-> "none"]
  /\ held = [s \in Streams |-> {}]
  /\ lost = {}

PipesInit ==
  /\ name_ \in [PipeStreams -> Names]
  /\ at = [s \in PipeStreams |-> "open"]
  /\ found \in [Names -> {"none", "fifo", "file"}]
  /\ habit \in Habits

StreamsInit ==
  /\ (Init /\ NoPipes) \/ (NoCommands /\ PipesInit)
  /\ isOpen = {}
  /\ mtx_ = None
  /\ oNamedPipes = [n \in Names |-> [refs |-> 0, made |-> FALSE]]
  /\ node = found
  /\ reader_ = [n \in Names |-> "away"]

-----------------------------------------------------------------------------
Move(s, from, to) == at[s] = from /\ at' = [at EXCEPT ![s] = to]

(* mkfifo, which fails when the name exists.                               *)
Made(n) == node[n] = "none"

(* What is under the name is no pipe.  The entry stays, with no reference. *)
NotAPipe(s) ==
  /\ Move(s, "open", "failed")
  /\ mtx_ = None
  /\ node[name_[s]] = "file"
  /\ UNCHANGED <<isOpen, mtx_, oNamedPipes, node, reader_, setting>>

(* The constructor up to its call of open.                                 *)
Register(s) ==
  LET n == name_[s]
      oItem == oNamedPipes[n]
  IN  /\ Move(s, "open", "opening")
      /\ mtx_ = None /\ mtx_' = s
      /\ node[n] # "file"
      /\ node' = [node EXCEPT ![n] = "fifo"]
      /\ oNamedPipes' = [oNamedPipes EXCEPT
           ![n] = [refs |-> oItem.refs + 1,
                   made |-> IF oItem.refs = 0 THEN Made(n) ELSE oItem.made]]
      /\ UNCHANGED <<isOpen, reader_, setting>>

(* open returns when the pipe is being read; a reader that waits for a     *)
(* writer and a writer that waits for a reader let each other go.          *)
OpenPipe(s) ==
  LET n == name_[s]
  IN  /\ Move(s, "opening", "write")
      /\ reader_[n] = "reading" \/ Coming(n)
      /\ reader_' = [reader_ EXCEPT ![n] = "reading"]
      /\ isOpen' = isOpen \cup {s}
      /\ mtx_' = None
      /\ UNCHANGED <<oNamedPipes, node, setting>>

(* A signal interrupts open; nobody asks whether it succeeded, and the     *)
(* stream's first write will fail.                                         *)
OpenIsInterrupted(s) ==
  /\ Move(s, "opening", "write")
  /\ mtx_' = None
  /\ UNCHANGED <<isOpen, oNamedPipes, node, reader_, setting>>

(* What a faulty destructor would do: count this stream among the others.  *)
CloseAndKeep(s) ==
  /\ Move(s, "write", "closed")
  /\ mtx_ = None
  /\ isOpen' = isOpen \ {s}
  /\ oNamedPipes' = [oNamedPipes EXCEPT ![name_[s]].refs = @ - 1]
  /\ UNCHANGED <<mtx_, node, reader_, setting>>

(* The destructor: close, and remove what was made.  Who still reads the   *)
(* removed pipe comes to its end.                                          *)
ClosePipe(s) ==
  LET n == name_[s]
      oItem == oNamedPipes[n]
      removed == oItem.refs = 1 /\ oItem.made
  IN  /\ Move(s, "write", "closed")
      /\ mtx_ = None
      /\ isOpen' = isOpen \ {s}
      /\ node' = IF removed THEN [node EXCEPT ![n] = "none"] ELSE node
      /\ oNamedPipes' = [oNamedPipes EXCEPT
           ![n] = IF oItem.refs = 1 THEN [refs |-> 0, made |-> FALSE]
                  ELSE [oItem EXCEPT !.refs = @ - 1]]
      /\ reader_' = IF removed /\ reader_[n] = "reading"
                    THEN [reader_ EXCEPT ![n] = "leaving"] ELSE reader_
      /\ UNCHANGED <<mtx_, setting>>

(* External: the end of a pipe that nobody writes to.                      *)
ReaderEnds(n) ==
  /\ reader_[n] = "leaving" \/ (reader_[n] = "reading" /\ Writers(n) = {})
  /\ reader_' = [reader_ EXCEPT ![n] = IF habit = "each" THEN "away" ELSE "gone"]
  /\ UNCHANGED <<at, isOpen, mtx_, oNamedPipes, node, setting>>

PipeStep(s) == NotAPipe(s) \/ Register(s) \/ OpenPipe(s) \/ ClosePipe(s)

StreamsNext ==
  \/ Next /\ UNCHANGED pipeVars
  \/ /\ UNCHANGED vars
     /\ \/ \E s \in PipeStreams : PipeStep(s) \/ OpenIsInterrupted(s)
        \/ \E n \in Names : ReaderEnds(n)

(* The readers read; every stream is opened and closed by its thread.  As  *)
(* with the commands, nothing can be done for ever.                        *)
PipeFairness ==
  WF_allVars(/\ UNCHANGED vars
             /\ \/ \E s \in PipeStreams : PipeStep(s)
                \/ \E n \in Names : ReaderEnds(n))

StreamsSpec == StreamsInit /\ [][StreamsNext]_allVars /\ Fairness /\ PipeFairness

-----------------------------------------------------------------------------
(* A redirector that returned at once, and whose child needs it.           *)
Unread(s) == \E p \in loud[s] : reader[s][p] = "gone"

(* A stream waits, with the mutex, for a reader that does not come: it has *)
(* been there, or it waits for the end of another pipe, whose stream waits *)
(* for the mutex.                                                          *)
WaitsInVain ==
  \E s \in PipeStreams :
    /\ at[s] = "opening" /\ habit # "each"
    /\ reader_[name_[s]] # "reading" /\ ~Coming(name_[s])

CommandsAreOver == \A s \in Streams : pc[s] \in {"closed", "failed", "abandoned"}
PipesAreOver    == \A s \in PipeStreams : at[s] \in {"closed", "failed"}

(* In the end every stream has closed, or its constructor has raised, be it*)
(* before the fork or because a thread could not be made behind it.  The   *)
(* destructor of a stream to a command waits for the child, which may wait *)
(* for the children of other streams: they are closed meanwhile, because   *)
(* vWaitForChild releases the lock.  The exception is a child stopped by a *)
(* pipe whose redirector found no work; everyone who waits for it, waits.  *)
(* A stream to a named pipe closes when every pipe has readers of its own; *)
(* it may wait for ever when one reader takes the pipes in turn, or comes  *)
(* once to a pipe that is made twice.  No pipe is removed while a stream   *)
(* has it open; those made here are removed, and those found stay.         *)
StreamsClose ==
  /\ <>[](\/ CommandsAreOver /\ PipesAreOver
          \/ Over \/ WaitsInVain \/ \E s \in Streams : Unread(s))
  /\ [](\A s \in isOpen : node[name_[s]] = "fifo")
  /\ [](PipesAreOver => node = found)

-----------------------------------------------------------------------------
(* The inductive invariant of the named pipes: the entry of a name counts  *)
(* the streams that are past mkfifo, and the file system has the pipe while*)
(* there are any, otherwise what it had.                                   *)

Users(n) ==
  {s \in PipeStreams : name_[s] = n /\ at[s] \in {"opening", "write"}}

NamesInv ==
  /\ name_ \in [PipeStreams -> Names]
  /\ at \in [PipeStreams -> {"open", "opening", "write", "closed", "failed"}]
  /\ \A s \in isOpen : s \in PipeStreams /\ at[s] = "write"
  /\ found \in [Names -> {"none", "fifo", "file"}]
  /\ node \in [Names -> {"none", "fifo", "file"}]
  /\ oNamedPipes \in [Names -> [refs : Nat, made : BOOLEAN]]
  /\ \A n \in Names :
       /\ oNamedPipes[n].refs = Cardinality(Users(n))
       /\ oNamedPipes[n].made <=> Users(n) # {} /\ found[n] = "none"
       /\ node[n] = IF Users(n) = {} THEN found[n] ELSE "fifo"
       /\ found[n] = "file" => Users(n) = {}
=============================================================================
