# xtru in TLA+

This directory is a verification project for *xtru*, a C++11 program that unloads
data and metadata from an Oracle database, and for *mpx*, which runs the lines of a
script as processes in parallel. It holds TLA+ modules translated from the source,
TLC configurations that check them on small instances, and theorems proved with TLAPS
for every value of the constants. Paths below are relative to the repository.

Nothing here was derived from the documentation alone: a definition models the code
lines `PROJECT.json` maps it to. Where a comment of the code disagrees with what the
code does, a run shows the disagreement, or the property it breaks names it as an
exception (see *Findings*).

## 1. The system

### Components

| Component | State it keeps | Operations | What makes it correct |
|---|---|---|---|
| Dispatcher and thread pool: `inc/cDispatcher.h`, `inc/cPool.h`, `lib/cRtn.cpp` | queue of tasks, pool of `std::thread` objects with mutex and condition variable, `ep`, `rtn_` | `vSynchronize`, `vRun`, `oPop`, `vPush`, `vBreak` | every task of the queue runs once unless cancelled; at most `iConcurrency` at a time; a thread object serves one task; the first exception wins; nothing outlives the call; the call returns |
| Connection service: `lib/sql/occi/cSvc.cpp`, `lib/cSemaphore.cpp` | permits, pool of connections, environments, the server's version | `oMakeSvc`, `vShowServerVersion`, `oGetCon`, `vCheckout`, `vRelCon` | a connection is lent to one statement; a permit means a connection; no lost wake-up; a statement is served |
| Session parameters and failover: `lib/sql/occi/cFailover.cpp` | map of parameters, history per connection, mutex | `vCheckout`, `vAlterSession`, the TAF callback, `vModParam` | a statement executes with the parameters in force; the mutex is released on every path |
| Unloader: `lib/sql/occi/cUnloader.cpp`, `cStmt.cpp`, `nsPsOcci.cpp` | one stream, an element per SELECT (define buffer, row buffer, thread), spin lock, thread-specific subscript | `vExecuteAndFetch`, `iFetch` and the bulk actions | each row once and whole in the file; an exception reaches the caller; no thread survives |
| mpx: `app/mpx` | options, table of placeholders, queue of lines, set of process ids, static mutex | start-up, the loop over the script, launch, `on_exit`, the report | groups of `mpxlist` do not overlap; cancellation reaches every child; output in blocks; what it reports is true |
| Stream locator: `lib/nsStreamLocator` | scheme and location; static spin lock, pipes, child per stream; static mutex and count per FIFO | choice of the place; open, write, close | every file has a place of its own; the child sees the end of its input; every stream closes |
| Console, trace, distributor: `inc/cSafeOstream.h`, `lib/cDistributor.cpp` | a mutex per stream | `<<` chains | lines not mixed |
| SQLite dictionary: `lib/sql/lite3` | one connection, its transaction, prepared statements | bind, execute, fetch, reset, commit | what is committed when a run ends, raises or is killed |
| Dictionary copy: `app/xtru/copydd`, `lib/sql/cTransporter.cpp` | tables of a local SQLite database, one of which survives in a file | one task per dictionary view; choice of the target tables; ranges of row ids; refresh | the targets are the tables asked for; the constraints are theirs |
| Data extraction: `app/xtru/getdata` | queue of unloaders, schedule of partitions, scripts | unload and query, `vExpData` per schema, `_make.sh` | every row is in one file and is loaded once; the scripts put back what they take away |
| Metadata extraction: `app/xtru/getmeta` | lists filled by some sixty dictionary readers | a task per reader, then the output of DDL, which erases what it has printed | a list is the result of its query; everything is created once, in order of dependency, with all that belongs to it |
| Configuration and start-up: `lib/cConfigures.cpp`, `app/xtru/cAppConf.cpp` | variables map, home directory, configuration files | parse, include, check, default | the parameters a feature sees are those given, in order of precedence |
| Delimiters and conversions; OCI buffers; timers and signals; credential utility; platform helpers; demonstrations | see `PROJECT.json` | | |

### How they interact

`main` of xtru reads the configuration, starts a thread that waits for SIGINT and
SIGTERM (`cSignal`, whose handler calls `rtn_.vBreak`), opens the connection service
with `parallelism` connections and calls a feature. *getmeta* reads the dictionary by
some sixty statements and writes one script. *unload* first copies a part of the
dictionary into SQLite, chooses there what to unload, and fills a queue of *fetchables*
per schema; *query* does so with statements of the user. A queue goes to
`vSynchronize`, which runs `vExecuteAndFetch` of each on one of `parallelism` recycled
threads. A task borrows a connection from the service (semaphore, then pool), which
first alters its session when the parameters have changed or the session was replaced
by a failover (a callback of the client library on the thread that is in a call); it
executes SELECTs, and an unloader starts one more thread for each SELECT that fetches
and writes under a spin lock to the stream all of them share. That stream is a file, a
named pipe, or a child process with its own pipes and two reader threads, as the stream
locator says. Exceptions travel by `std::exception_ptr` from thread to thread.

Beside the data lie control files, parameter files and the scripts `_make.sh` calls in
its order: what must be switched off before the load is in one, what is switched on
again in several. mpx, another program, runs the lines of such a script as processes; it
uses the same dispatcher for groups of equal programs, and asio callbacks for the
children.

### What is hard

Hand-over of thread objects between pool and threads; tests made before a wait and
used after it; a permit and a connection that have to move together, on error paths
too; callbacks on a thread that holds a lock; identity of a thread taken from the
order of arrival; threads alive while an exception unwinds what they refer to; child
processes that inherit each other's pipes; signals between a test and a registration;
an open that blocks under a mutex; a repository file that outlives a killed run; lists
that printers share and erase from; scripts whose order the database enforces; arithmetic
on extents with remainders; files whose names meet. `PROJECT.json` lists each hazard at
its line, with the properties aimed at it or the reason there is none.

## 2. Modules

`<Module>Proofs` holds a module's theorems (`ConnPoolProofs` also those of `Services`,
`MpxProofs` of `ExtProc`, `LocalProcessProofs` of `NamedPipes`). A `.cfg` gives the
constants of the module it is named after, or of `MC<Module>` where an instance needs
definitions. Names follow the source (`oPop`, `vPush`, `oTls_`, ...). A definition whose
comment says "What a faulty ... would do" (or "Fault:") is a variant with a plausible bug; nothing in a
specification uses it, it shows that a property notices the bug.

**Pool, Dispatcher, Executor.** `Pool` is `cPool<T>`: a sequence and the threads asleep
on its condition variable; a lock region is an action, where all who use the pool take the
lock. `Dispatcher` is one call of
`vSynchronize`: the main thread (`pc`: test of the loop, `oPop`, creating the thread,
moving its handle, the test of `ep`, the scope exit, the destruction of the pool, the end
of `main`) and `vRun` of every task (run, catch, detach, push). The order "thread started,
handle moved" of line 183 is two actions, because the new thread may run to its end
between them. The scope exit reads the size of the pool without its mutex
(`cPool.h:160`) and need not take it; so `vPush` is two actions (`PushThread`, `PushEnds`),
the unlocked reading may come out either way while somebody is about to stack
(`SizeReadsFull`, `SizeReadsShort`), and the destructor, which takes the mutex for every
thread object it deletes, is an action per object (`Destruct`). A thread may fail to be
made (`SpawnRaises`): its object is lost and the scope exit waits for ever (`Hangs`).
`Executor` is what callers rely on: tasks start in queue order, at most `iConcurrency` are active,
nothing is active when the call is over.

**Semaphore, ConnPool, Services, Lease.** `cSemaphore` and the dedicated service; a
client is a statement's `oGetCon` ... `vRelCon`. `Services` puts the rest of `cSvc.cpp`
around it: which of three services is made, the environments and connections made one by
one (a failure in between unwinds them), the version query, which borrows a connection
like any statement, the library's own pool (a connection created for each loan and
terminated after it, in a deleter that must not raise), the single connection. The
applications construct the dedicated one. `Lease` is the abstract service: a connection
is lent to one client at a time.

**PooledTasks** extends `Dispatcher` by an instance of `ConnPool`: a running task is a client of the
pool and returns or raises only when the client is through. A task takes one connection
there. A task that unloads one file by several statements takes one for each of them,
but its fetch threads end and give them back without waiting for anything else of it,
so that it holds no connection while it waits for the last; this case is not composed.

**Failover** models what `vCheckout` does to a session: version query, `vAlterSession`
under the mutex, registration of the callback, use; sessions die at any call, and the
callback runs on the thread in that call. Its own `alter session` may raise; the
exception then leaves the call that was interrupted. `ModParam` is `vModParam` between two rounds.

**Unloader** models one call of `vExecuteAndFetch`: the calling thread, a fetch thread
per statement, the subscript given out at the first `vPreBulkAction`, conversion into
row buffers, writing under the spin lock, joining. A row is a pair of statement and
number, a line is the sequence of the rows its text holds, so a torn, lost
or doubled row is visible. `file` is what the stream has taken, `written` how much of it
is in the file once the stream has been flushed and deleted, which nobody checks
(`FlushAndDelete`). A later statement that raises, or whose thread cannot be made, takes
two steps: the stream is closed and the frame is left (`ExecuteRaises`, `FrameLost`),
while the threads go on and may use either; then the process is terminated
(`Unwind`). The header is there only with `iDoesEmbedColumnNames`; the first element of
`file` stands for it, or for nothing. `cStmt.cpp:288` tests and assigns `ep` without a lock; the
test and the assignment are two atomic steps here, two threads may both assign, and a
torn `exception_ptr` is not modelled.

**ExtProc, Mpx.** `ExtProc` is the loop over the script's lines, the dispatcher's part
of it in one step per task, and each line's launch and `on_exit` under the static mutex.
`Mpx` is the program around it: the home directory, options from the command line or a
file, the startup directory, the script with its placeholders (`Replaced`:
`cAppLocal.cpp:160-181` skips a character after each, and reads past the table for one
that is not in it: any continuation is possible then), the credential utility, the log
files and which of them are removed as empty, the report and the exit code.

**LocalProcess, NamedPipes.** `LocalProcess` models the streams that are the input of a
command: the constructor's lock region (pipes, fork, detach), the two redirectors, the
destructor with the lock released around `waitpid`. A redirector whose thread cannot be
made ends the constructor by an exception (`StartRaises`, `Abandon`) and leaves a child
behind; what the other redirector does after that, with members that are gone, is undefined,
and there the model stops. Descriptors are numbers given out
lowest first, because the destructor closes the descriptors of the outputs twice.
`NamedPipes` adds streams to named pipes, with the static map of counts and the static
mutex held over the open. `stream_locator` names one scheme, so a behaviour has commands
or pipes, never both. Readers are external, and of three habits (`habit`): one per pipe
that comes whenever the pipe is there, one that takes the pipes in turn, one that comes
once.

**Configures, StreamLocator, Query, PrivsGiven, RowidRanges, CopyDd, GetData** are one
specification, the features unload and query from `main` to the end of the process. All
but the last are operators. `Configures`: where the configuration file is found, what
the command line, the files they include and the environment give, which of two wins,
what is refused. `StreamLocator`: the place of a data or control file as a sequence of
tokens. `Query`: which files or texts mean which statements, with the wild-card match.
`PrivsGiven`: whether the user may read a view. `RowidRanges`: the cut of a segment's
extents into ranges, and which blocks it leaves over or takes twice. `CopyDd`: for every
table of the repository the query that fills it. `GetData` is the state machine: start,
copy (each table whole or cut short), choice and counting of the targets, refresh of
`EFFECTIVE_CONS`, schedule, one step per task, scripts, commit. The scripts are made in
steps: the only test whether to go on, the reading of columns, that of the index lists
(`ReadLists`: whole, cut short by a signal, or by a failure that is seen or is not), the
output of one file after the other. A statement fails, a task, reader or file raises, in
the phases in which the code can; a signal and a kill come between any two steps; and
there is a restart on the repository file. The database in which `_make.sh` is
executed (`Do`) is external: what Oracle does with the few commands there are, and that
a refused command changes nothing.

**MetaFetch** is how getmeta reads: a reader per describer, executed at once or as a
pooled task, with a static array two readers share. **MetaPrint, MetaObjects,
MetaTables, MetaConstraints, MetaPartitions, MetaIndexes, HighValues, GetMeta** are how
it writes. A describer is an operator that gives the rows its query yields, in its
order, from a dictionary (`...Rows`), and a printer that gives the clauses and calls of
one row (`Print...`). `GetMeta` keeps the lists and an `agenda`, the call stack: a
printer sees the lists as its predecessors have left them, since a list loses the rows
that have been printed. The agenda begins with one `owner` item for each owner to be
printed, in the order of `TARGET_OWNERS`, which is any; `Queried` is what the readers have
fetched, `Loaded` the lists sorted from it.
`HighValues` is the short form of a partition's bounds.

## 3. Runs

| Run | Instance | What it shows |
|---|---|---|
| `dispatcher` | 2 threads, 4 tasks, any may raise, a thread may not be made, cancellation at any time | hand-over, cancellation, first exception, refinement of `Executor`, the end of the pool, return |
| `dispatcher_detached` | 2 threads, 2 tasks | finding 1 |
| `connpool` | the three services, 2 connections, the caller and 4 statements; making, checkout, creation and release may fail | permits and connections in step, exclusiveness (refinement of `Lease`), no lost wake-up, service |
| `pooled_tasks` | 2 threads and connections, 3 tasks | a task waits only for a lost connection, and the call returns unless the pool is lost or a thread could not be made |
| `failover` | 2 connections, 2 owners, 4 checkouts, 2 deaths, callbacks that raise | parameters in force, mutex released, a checkout ends unless a thread locked itself out |
| `unloader` | 2 statements, up to 3 rows each, 2 per fetch | rows, exceptions, threads, final action, end |
| `unloader_rows` | 2 statements, up to 2 rows | finding 2 |
| `extproc` | scripts of 3 lines over words, arguments and variables, 2 at a time; starts that are refused | groups, cancellation, output blocks, end and truth of the report |
| `local_process` | 2 streams to commands and 12 descriptors, or 3 streams to pipes under 2 names | no circular wait, outputs private, every stream closes or its constructor raises |
| `getmeta_fetch` | 5 readers, 2 at a time, two bound to one array, 2 rows per fetch | lists are results of their queries, a script is made from whole lists |
| `getmeta` | 56 dictionaries and parameter sets | rows stay while read, everything created once, in order, nothing forgotten, figures of the header |
| `getdata` | some 1,700 starts, each followed to the end of the process and, on a repository file, through a second run | targets, rows, constraints, scripts, order of the loads |

Why the bounds are enough. Four tasks on two threads let a thread object be recycled
twice, a task wait for each of two threads, and a cancellation or exception come before,
during and after the last start. Four clients on two connections give two sleepers and
two newcomers that compete for one permit. Three rows in fetches of two give a full
fetch, a partial last one and, with two rows, an empty last one; the readers of getmeta
have such lists too. Three lines give a group before, across and after a line of another
kind. Two streams are enough for one child to inherit from another in either order; all
twelve descriptors can be open only if the lock failed. Three streams under two names
share a pipe and wait for another. `MaxCheckouts` and `MaxDeaths` bound counters of
`Failover`: a session can die again while the first failover is resumed, and a
connection is used in both rounds.

The starts of `getdata` are families that vary one matter at a time: every segment of up
to three extents of one to four blocks, adjoining or apart, cut into one to four ranges,
in one file or many; two schemas that refer to each other, with every subset of the
scripts that matters; tables of every kind and names that meet; directories of statements;
locators that move or merge files; privileges; configurations, which are refused or
not. `MaxRuns` = 2: a run reads nothing of earlier ones but `EFFECTIVE_CONS`, and the
second meets it as a run that ended, was interrupted or was killed has left it. `MaxMissing` = 1 says that a copy cut short lacks one row or all of them.
The output directory is assumed to be emptied between two runs. The dictionaries of
`getmeta` are one of each kind of object, for one owner or for two in either order, with and without
privileges and dependent tables; an agenda is deterministic, so its run is as long as
its scripts. `iNumPhisicalCores` is a number of the machine that a default depends on.
No run uses symmetry; liveness is checked on the full graphs.

Deadlock is checked in the runs of the dispatcher and of getmeta, whose specifications
have a step of their own for the end. In the others the system really stops
(`CHECK_DEADLOCK FALSE`): a call returns, a script ends, a stream is closed, a process
is over.

**Fairness.** Weak fairness of each thread's next step, of a call into the database, of
the child processes: threads are preempted but scheduled, the environment answers.
Mutexes and spin locks get no strong fairness. It is not needed: the number of times
other threads take a lock is bounded in every instance, as it is by the tasks, rows or
streams in the code, so a lock is free for good or held for good in the end. In
`LocalProcess` and `NamedPipes` no step can be taken for ever (each stream goes through
its stages once), so weak fairness of the next-state relation as a whole is the same as
that of every thread. Children are assumed to read their input to the end and to
terminate. A signal, a kill, an interrupted open and a failure are never fair.

## 4. Proofs

Everything proved is `Spec => []...` or a refinement, for all values of the constants
under the named `ASSUME`s (numbers of threads, connections, statements, streams, names
positive or natural; finite clients; an `oQueue` with every reader once; scripts that are
sequences of atoms; dictionaries that list their owners in an order, give every
query finitely many rows and every table one). TLC evaluates them in the runs, and has checked every invariant
named here before it was proved. The argument is an inductive invariant kept by every
action, one proof step per action; the specifications of `Services`, `Mpx`, `NamedPipes`
and `PooledTasks`, which put more of the program around a proved module, either refine
that module's or repeat its steps.

* **PooledTasksProofs**, first half, on `Dispatcher`. `DispatcherInv` says that each thread object is in one place
  (pool, the main thread's hand, a task), tasks are taken in order, a late start ends
  the loop, and `ep` is set as soon as a task has raised while it lives. The properties
  alone are not inductive: exclusiveness says nothing of the thread between `oPop` and
  the start. From it follow the bounds on concurrency and late starts, completeness of
  the queue, that the earliest exception is kept, and `ImplementsExecutor`. That nothing
  outlives the call (`CallOutlivesItsTasks`) does not follow from `cPool::vSynchronize`,
  whose unlocked reading may see a full pool while the last thread is still in `vPush`: the
  barrier is `~cPool`, which pops each thread object under the mutex. So the invariant says
  of the deleted ones that no task has them and none is stacked, and that once all are
  deleted nobody holds the mutex.
* **ConnPoolProofs.** `ConnPoolInv` counts: free permits, clients with a permit and
  connections on the way back are together the connections in the pool. This needs
  finite cardinalities; lemmas state how they change when a client moves between two
  stages. `WakeUpsAreNotLost` uses that a sleeper implies an awake client for each free
  permit. `ImplementsLease` maps a borrowed connection to the abstract one. The second
  half is about `Services`: in `ServicesInv` the count is an inequality, because a
  connection that the library's pool could not create stays in it without a permit
  (`Surplus`), and a single connection is lent to nobody exclusively. The same results
  follow for whichever service is made.
* **PooledTasksProofs**, second half. A step of the composition is a step of the
  dispatcher or none, and one of the connection service or none
  (`PartsKeepTheirSpecifications`), so the dispatcher's theorems hold of it.
  `PooledInv` says that free permits and their holders are
  together `iConcurrency`, that who sleeps or has a loan is running, and that somebody
  awake will come for each free permit. At most `iConcurrency` tasks run, and one of them
  sleeps: so there is a holder that is not running, and it has failed
  (`TasksWaitOnlyForTheLost`).
* **FailoverProofs.** `SessionInv` describes what a checkout and a callback have
  achieved at each stage; a served connection that was registered has the map's parameters,
  also when a callback has raised in a call before.
* **UnloaderProofs.** `CallInv` covers the control of the call (launched and joined in
  order, failures are in `ep` or in a catch clause). Threads that still run when the frame
  has been left are those of statements before the one that raised, and no such call is
  seen to end (`NoThreadSurvives`). `TypeInv` adds that subscripts are
  counted in order of arrival and no fetch exceeds its bulk. `ResultInv` ties the final
  action to what the file has at that moment. `RowInv` is about rows, for calls in which
  order of arrival and position agree: what a thread has fetched is what its buffer
  and the stream have of its statement, in order and without gaps, and a buffer is written
  whole while the spin lock is held. `FileIsFaithful` follows, and `RowsAreComplete` of the file, where the last flush has not
  failed.
* **MpxProofs.** First `ExtProc`. `MpxInv`: a running child is registered or was late.
  `OutputInv`: the stream has the blocks of the children that were flushed, one after the
  other, because a block is written under the static mutex. `OrderInv`: a line is
  started only when those before its group are through, whatever a cancelled
  `vSynchronize` leaves in its queue. Then `Mpx` refines `ExtProc` (`MpxImplementsExtProc`:
  what `main` does around the loop leaves it alone), so what holds of the loop holds of
  the program. `GroupsAreOrdered` also needs that the program a line executes is
  the one its text means: `ReplacedIsMeant` says that `Replaced` has one result, the line
  with the values of its placeholders, unless it reads past the table, and is proved by
  the position that is the last to go wrong.
* **LocalProcessProofs.** `PipesInv`: an end without a child, and a child's own side of
  its pipes, exist only while the lock is held; so a fork copies only ends of streams
  forked before. `NoCircularWait` is inductive with it: the child just forked is the one
  whose input nobody else has, and any set without it was safe before. The theorems
  listed are about `NamedPipes`, whose behaviours contain those of `LocalProcess`.
  `NamesInv` says that the entry of a name counts the streams past `mkfifo`, and that the
  file system has the pipe as long as there are any and otherwise what it had before;
  no pipe goes while it is open, and none that was made stays (`PipesStayAndGo`, the
  safety part of `StreamsClose`).
* **GetMetaProofs**, first half, on `GetMeta`: `RowsStayWhileRead` for every dictionary.
  `AgendaInv` says that the
  lists are sequences, that each item of the agenda stands for a printer that exists and
  for rows that are in their list, and that whatever comes before a row, or before the
  erasure at the end of its printer, erases nothing of its list (`CallsGoDown`). The
  property alone is not inductive: it says nothing of what the items in front of a row
  will call. `Depth` supplies it: the lists fall into six layers, and each of the
  fifty-seven printers calls printers of deeper layers only (`RowCalls`, a case per
  printer). Sorting and erasure keep lists sequences (`SortedOf`, `KeptOf`), and a row
  further back in the agenda survives what is erased in front of it (`ErasureKeeps`).
* **GetMetaProofs**, second half, on `MetaFetch`. `FetchInv` says for each reader how many
  rows the server has sent, that the fetched part of its array holds them as long as
  nobody else has it, and that its list has those before; a reader that is not alone with
  its array is the exception that `ListsAreTheirQueries` states.
* **GetDataProofs.** `TargetsAreTheTablesAsked` and `ConstraintsAreThoseOfTheTargets` for
  every dictionary, start and pattern, and any number of earlier runs. `GivenAssumption` is
  what they need of the inputs: finitely many tables, one row for each, a name
  of the recycle bin only for a dropped one, options of their types. `CopyInv` follows the
  preparation: the options used are those that were parsed; of the tables the choice looks
  at (`Consulted`) each has been copied whole or is still to come; `EFFECTIVE_CONS` is what
  was inherited until it is refreshed; and while rows are counted, `TARGET_TABLES` is the
  targets counted and those still to be counted, none twice, sorted by size across the two
  lists, each of them asked for, and none that was asked for missing unless it had too few
  rows or may be misjudged. The properties are not inductive: they speak of one moment, the
  beginning of the schedule, and nothing that holds only then is kept by the steps before
  it. Three groups of lemmas carry the proof. `WantedIsUsed`: the first of all sources that
  has an option is the one whose value is used, through five nested stores. `LargestFirst`:
  the loop over the targets takes each of them once and in order of size; it rests on
  `Ranked`, that in a finite set a strict order gives every element one place, proved by
  counting. `RowsOfTargets` and `RefreshedHasTheKeys`: what the chains of insertions,
  changes and deletions leave in the two tables.

**Only model-checked.** Liveness (`CallReturns`, `EveryLoanEnds`, `CallEnds`, `MpxEnds`,
`StreamsClose`, ...) and whatever needs `ENABLED`, which the prover cannot do.
`EveryRowIsUnloadedOnce`, `ScriptsRestore` and `LoadsAreUnchecked` of `GetData`, and
`EverythingIsCreatedOnce`, `ScriptIsInOrder`, `NothingIsForgotten` and `BannerCounts` of
`GetMeta`: they compare the end of a whole run (files, scripts, the database after the
scripts) with the dictionary, through folds and sorts of sequences that come from data.
The induction theorems of the library take an operator as a parameter and cannot be used;
a lemma about a recursive function can be proved from the least counterexample, as for
`ReplacedIsMeant`, but the folds of these two modules have other operators inside. That the
cuts of `RowidRanges` miss and repeat only the blocks `IsLeftOver` and `IsOverrun` name is
checked for all segments within the bounds.

## 5. Findings

Two are the counterexamples of runs; `PROJECT.json` quotes the comments they contradict.

1. `inc/cDispatcher.h:183` - a task that ends before its handle is moved into the thread
   object leaves a joinable object in the pool; the next assignment terminates the process.
2. `lib/sql/occi/cUnloader.cpp:386` - the subscript of a thread is its order of arrival,
   not its statement's position; rows are lost or doubled when they differ.
   `FileIsFaithful` and `RowsAreComplete` are stated for the runs in which they agree.

The next ones happen in the behaviours of passing runs; a property names each as a
case of which it promises nothing or less, and would be violated otherwise.

3. `inc/cDispatcher.h:183` - when `std::thread` cannot be made, the object that was popped
   never comes back and the scope exit waits for a full pool for ever (`Hangs` in
   `CallReturns` and `CallReturnsOrPoolIsLost`), although `vSynchronize` "blocks until the
   number of elements is zero" (148) and the queue is empty.
4. `lib/sql/occi/cUnloader.cpp:285` - nobody asks whether the last flush of the data stream
   has worked; the call returns and the end of the file is missing (`"cut"` in
   `RowsAreComplete`), what the flush is there to prevent by its comment (283).
5. `lib/sql/occi/cUnloader.cpp:291` - a later statement that raises closes the stream and
   leaves the frame with `ep` under the running threads of earlier ones (`FrameLost` in
   `NoThreadSurvives`); by the documentation both streams are closed "Finally"
   (`inc/sql/occi/cUnloader.h:290`).
6. `app/xtru/getdata/cUnload.cpp:448` - the lists behind the scripts are read after the last
   test whether to go on; cut short, they give scripts that drop an index and do not create
   it again (`MayChange` in `ScriptsRestore`), create it under another name, or leave it on
   (`IsUnread` in `LoadsAreUnchecked`).
7. `app/xtru/getmeta/cUserDbLinks.cpp:288` - links are numbered for their passwords by their
   place in the list and read by their place among the owner's: with owners described in
   another order than that of their names a link gets another's password, or one nobody was
   asked for (`LinksAreAhead` in `ScriptIsInOrder`).
8. `app/xtru/getmeta/cGetMeta.cpp:473` - in the header snapshots and tables with foreign
   keys are swapped; `BannerCounts` asks for the two figures under either label.
9. `app/xtru/getmeta/cAllObjects.h:190` - the header counts the programs of the first owner
   only; `BannerCounts` admits either count.

The others are exceptions that a property names, too, or were met while modelling.

**Threads, connections, streams.**
`cDispatcher.h:198`: `ep` is tested before the last tasks are waited for, and their
exceptions are lost. `cSvc.cpp:292`: a failed checkout loses its connection and permit;
when all are lost, `vSynchronize` may wait for ever (`CallReturnsOrPoolIsLost`). The
shared service terminates the process when its deleter raises. `cFailover.cpp:168`: a
callback waits for the mutex of its own thread (`CheckoutEndsOrSelfLock`).
`cAsyncRedirector.cpp:61`: the reader's thread may end before its work is posted; the
child's messages are lost, and a child that writes much hangs (`StreamsClose`); when the
thread cannot be made, the constructor leaves a child that nobody reaps and, for the second
redirector, a thread that uses what is gone (`Over`). The
destructor of `cLocalProcessImpl` closes the descriptors of the outputs through `out_`
and `err_`, and then again, without the lock, through the redirectors (`lost` in
`LocalProcess`); once the second close has hit somebody else's descriptor that model
stops, and the properties speak of behaviours up to that point. `cNamedPipe.cpp:83`: an
open that fails does not raise, and readers that take pipes in turn, or come once, never
come to one that waits for the mutex (`WaitsInVain`).

**mpx.** A launch that fails registers a process id that means everybody
(`cExtProc.cpp:269`, the exception in `MpxEnds`). A program that is not found leaves sh to
run its argument (204-222). A failed child leaves the exit code at success (293). A
placeholder without a value reads past the table (`cAppLocal.cpp:172`). The data rate is
divided by milliseconds that may be none (`mpx.cpp:175`, `xtru.cpp:143`). With one name
for both logs the one of stdout may be removed (`cSink.h:78`). The startup directory is
checked relative to the home directory and entered relative to the current one
(`mpx.cpp:61`, `cAppLocal.cpp:106`). The positional option is registered as `cmd` and
named `scr_make_sh` (`mpx/cAppConf.cpp:112-120`).

**unload and query** (exceptions of `EveryRowIsUnloadedOnce`, unless said otherwise).
Blocks behind the last chunk of a segment are in no range, and a range that ends with an
extent may end too late (`cRowidRanges.cpp:95`). Tasks whose files have one name write
over each other: names that differ in `$` and `#`, a table named as another's partition,
locators without the macros that tell tables apart. Row id ranges and statements in files
of their own are loaded into partitions that do not exist (`cPartitionedByRowid.cpp:233`).
A blank statement ends the list (`cUnloader.cpp:245`). A table name with `$` or `#` is a
lexical error in a control file (`cCtrlFile.cpp:106-114`). An exception of a fetch is
swallowed (`cTransporter.cpp:63`), and an interrupted copy is not noticed: both runs go
on with what there is (`Undisturbed`). A count that fails leaves the answer of the table
before (`cTargetTables.cpp:300`). `filetable` without `listtable` has no effect
(`cCopyDd.cpp:298-310`). Patterns of owners that overlap violate a primary key. Rows that
`EFFECTIVE_CONS` kept from an earlier run keep its status (`ConstraintsAreThoseOfTheTargets`).
Triggers are switched off only for a table named as its schema (`cConsValidate.cpp:371`);
foreign keys of targets to tables that are not unloaded are never switched off, as the
comment on C1024 says they are (`LeftAlone`); the index of a key that the user may not
see comes back under the key's name (`ScriptsRestore`). No columns at all make
`cAllTabColumns.cpp:493` raise. A missing `bind.dat` makes query raise
(`cBind.cpp:278`). A query run in the output directory of an unload run executes the old
script. `:memory:`, the default of `repos_fn`, is a file in the home directory
(`cSqliteDb.cpp:232`). `sExecutablePath_` is changed by `replace_extension`
(`cConfigures.cpp:252`). The bits of `stdout` are not those of the comment
(`nsStreamLocator.cpp:410`), nor is the choice of the parameter file
(`cStartValues.h:81`, `cStartValues.cpp:129`).

**getmeta** (exceptions of the properties of `getmeta` and `getmeta_fetch`). Two readers
share one static array (`cAllConsColumns.cpp:124`). A script is written after an
interrupt, and after a failure behind the loop (`ScriptIsWhole`). The order of tables ends at level 2 (`cOutputOrderTbl.cpp:248`); a table
whose only keys refer to other schemas is not created; such foreign keys are never
created, but enabled. Columns of a referenced key are consumed by the first foreign key.
A cluster's name is cut after seven characters (`cAllTables.cpp:537-554`). An index that
two constraints use is created twice. Subpartitions of a local index are never written.
The rows of overflow segments and the grants on programs
stay in their lists. The next extent is printed as the initial one
(`cUserSegments.cpp:343`). An unknown log group or index type raises amid the script.
The bounds of several columns or values behind a shortened first one are lost
(`cFunctionalReplace.cpp`). A piece that is not compressed within a table that is comes
back compressed, because NOCOMPRESS cannot be reached (`cCompressObject.cpp:76-79`), and the words
QUERY LOW and HIGH, ARCHIVE and ADVANCED are lost (`IsCompressedAs`).

## 6. What is not modelled

The Oracle client and server, SQLite, asio and the operating system appear as
nondeterministic environment. Left out are a child that ends before its input (SIGPIPE in
the writer, which nobody handles) and a failing `dup` in the child
(`cLocalProcess.cpp:252`, after which the child goes on as a copy of the program): in both
the program goes on outside the code modelled. So is the reuse of process ids; one
is of a number the environment chooses. `Dispatcher`, `Unloader` and `LocalProcess`
let the making of a thread fail; `ExtProc` and `MetaFetch`, which take the dispatcher's
loop in larger steps, do not. The exception an `exception_ptr` holds is never torn by the
race on it.

The conversion of column values into text (`OCI buffers`, `lib/cDelimiter.cpp`,
`lib/cEnclosure.cpp`) is sequential, one class per type, and better tested than modelled.
The console, the trace and the statistics are read by nobody. The layout of control files
and of DDL is left out, and so are its words where no property distinguishes them; what a
clause says, in which place and of which object, is kept. Credentials are opaque.

## 7. Plan

Done: all the modules of section 2. What remains worth doing, most important first:

1. **Proofs**: the three bounds on ranges in `RowidRanges`; that the schedule has a task for
   every target and that `_make.sh` loads what was unloaded, from `CopyInv` and the targets
   it ends with; that nothing is created twice, from `AgendaInv` and which rows can be
   found by two callers.
2. **PooledTasks with unloaders**: tasks that take several connections.
3. **A child that ends early** in `LocalProcess`: SIGPIPE ends the process, which every
   other stream then sees.
