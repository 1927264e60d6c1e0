# A verification project for fswatch 1.4.6

fswatch reports changes of files and directories. The program is a library,
libfswatch, with a C++ and a C interface, and a command line tool on top of it.
This directory holds TLA+ models of the parts whose correctness depends on the
order of steps nobody controls: the sessions and locks of the C API; the
inotify, kqueue and poll monitors, which chase a file system that changes while
it is looked at; and the process of the command line tool, which signals
interrupt anywhere.
TLC checks the models on small instances; TLAPS proves their main safety
properties for every instance.

The sources are under `src/fswatch-1.4.6`; `libfswatch/` below stands for
`src/fswatch-1.4.6/libfswatch/src/libfswatch/`. The directories `src/src`,
`src/prj` and `src/fswatch.src` are listings of the same files.

## 1. Inventory

| component | state | operations | modelled |
|---|---|---|---|
| C API `c/libfswatch.cpp` | `sessions`, `session_mutexes`, `session_mutex`, per session: paths, callback, filters, flags, latency, monitor, `running`; per thread: `last_error` | `fsw_init_session`, the setters, `fsw_add_filter`, `fsw_start_monitor`, `fsw_destroy_session`, the callback proxy | `SessionApi` |
| path filters `c++/monitor.cpp` | the compiled filters of a monitor, in order | `add_filter`, `set_filters`, `accept_path` | `PathFilter`, used by `SessionApi` |
| monitor base class and factory `c++/monitor.cpp` | paths, callback, context, flags, `run_mutex`; names of types | construction by type or name, setters, `start` | creation, setters and start in `SessionApi`; creation by name in `FswatchCli` |
| inotify monitor `c++/inotify_monitor.cpp` | `watched_descriptors`, `path_to_wd`, `wd_to_path`, `watches_to_remove`, `descriptors_to_remove`, `events` | the loop `run` and everything it calls | `InotifyMonitor` on `InotifyKernel` and `FileTree` |
| path utilities `c++/path_utils.cpp` | none | `get_directory_children`, `stat_path`, `read_link_path` | as the monitors use them: in `FileTree`, `TimedFiles` and `LinkScan` |
| poll monitor `c++/poll_monitor.cpp` | two maps from paths to times, `events` | scan, compare, swap, notify | `PollMonitor` on `TimedFiles` |
| kqueue monitor `c++/kqueue_monitor.cpp` | `descriptors_by_file_name`, `file_names_by_descriptor`, `file_modes`, `descriptors_to_remove`, `descriptors_to_rescan`, `kq` | the loop `run` and everything it calls | `KqueueMonitor` on `KqueueKernel` and `FileTree` |
| fsevents monitor `c++/fsevents_monitor.cpp` | the stream | `run`, the callback of the system | no: one guard around a run loop of the system |
| events and flags `c++/event.cpp`, `c/cevent.h` | immutable | getters | as records |
| exceptions, logging | none | | exceptions are ways in which a call ends |
| command line tool `src/fswatch.cpp` | options, `active_monitor` | parse, start, print, signal handlers, `atexit` | `FswatchCli`, without the printing |
| build files, translations, manuals | | | no |

How they interact. A client calls the C API from any thread. A start creates a
monitor (with a copy of the session's paths and its callback), configures it
and runs it in the calling thread: `fsw_start_monitor` returns when the monitor
stops. The monitor calls the client back in that thread, through
`libfsw_cpp_callback_proxy`, and the client may call the API from there. The
monitors talk to the kernel: the inotify monitor adds and removes watches and
reads a queue which other processes fill; the kqueue monitor opens a descriptor
for each path and asks the kernel what happened to the inodes behind them; the
poll monitor compares two scans. The command line tool uses the C++
interface directly, creates one monitor and ends with the process.

What is hard in this code:

* two levels of locks, with the registry lock released in the middle of a start
  and a map that is also touched without it;
* a monitor that outlives the call that configured it, and is configured again
  by the next start;
* callbacks that come back into the API;
* exceptions that the API does not catch (`libfsw_exception` is not an `int`);
* a path that leads to another inode at each of `lstat`, `inotify_add_watch`
  and `readdir`;
* events that are read long after what they speak of: after their watch is
  gone, after the path was watched again under another descriptor;
* links that lead back up into the directory that is being scanned, or to each
  other's targets;
* a queue, a number of watches and a number of descriptors that have limits;
* descriptor numbers that the kernel hands out again at once, while tables keyed
  by them are worked off;
* signal handlers that delete an object, call `exit` and interrupt each other,
  `exit` and the functions `exit` calls.

`PROJECT.json` lists these hazards one by one, at the line where each bites,
with the properties that would catch it.

What makes each component correct:

* C API: a monitor is used by one call at a time; a session that is in use is
  not freed; the running flag is exact; calls return; the configuration of a
  session is the one its monitor runs with.
* Filters: the chain a monitor has decides as the session's own list would.
* inotify monitor: its tables cover the watches of the kernel and hold no dead
  ones; a change of what is watched is told under the right path; a root that
  exists is watched in the end.
* Poll monitor: whatever happens to the tree while it is scanned, the events of one
  scan speak of a path once, the events make sense one after the other, and a change in a
  later second than the last one seen is told.
* kqueue monitor: a descriptor and a path belong to each other, no descriptor
  leaks, and a rescan finds what appeared.
* Any monitor with symbolic links: a scan ends, and watches what is below the roots,
  each object once.
* Command line tool: whatever signal comes when, the monitor is deleted once
  and the process ends with the documented code.

## 2. Modules

| module | models |
|---|---|
| `PathFilter` | filter chains and `accept_path`; regular expressions are the relation `Matches` |
| `SessionLifecycle` | abstract: what a client relies on of a session: none, idle, running |
| `SessionApi` | `libfswatch.cpp`, and of `monitor.cpp` what a start uses; refines `SessionLifecycle` |
| `SessionApiMC` | its instances |
| `SessionApi_proofs` | its theorems |
| `SessionFilters_proofs` | the theorem about the filters of a session |
| `FileTree` | external: a tree of inodes and what other processes may do to it; used by both kernels |
| `FileTree_proofs` | lemmas on it |
| `InotifyKernel` | external: the inotify instance, and the events of each change of the tree |
| `InotifyMonitor` | `inotify_monitor.cpp`, composed with `InotifyKernel` |
| `InotifyMonitorMC` | its instances |
| `InotifyMonitor_proofs` | its theorems |
| `TimedFiles` | external: a tree with the times `lstat` returns, the processes that change it, the clock |
| `PollMonitor` | `poll_monitor.cpp`, composed with `TimedFiles` |
| `PollMonitorMC` | its instance |
| `PollMonitor_proofs` | its theorems |
| `WatchTable` | abstract: what the tables of a monitor are for: pairs of a path and a descriptor |
| `KqueueKernel` | external: descriptors and the kqueue, and the notes of each change of the tree |
| `KqueueMonitor` | `kqueue_monitor.cpp`, composed with `KqueueKernel`; refines `WatchTable` |
| `KqueueMonitorMC` | its instance |
| `KqueueMonitor_proofs` | its theorems |
| `FswatchCli` | the process of `src/fswatch.cpp`: options, signals, `atexit`, exit codes |
| `FswatchCliMC` | its instance |
| `FswatchCli_proofs` | its theorems |
| `LinkScan` | one pass of the inotify, the kqueue or the poll monitor over its roots, with symbolic links |
| `LinkScanMC` | its instance |
| `LinkScan_proofs` | its theorems |

### SessionApi

A *frame* `<<t, n>>` is thread `t` in its `n`-th nested API call: `<<t, 1>>` is
made by the client's own code, `<<t, 2>>` by the callback of the monitor that
`<<t, 1>>` runs, and so on up to `MaxDepth`. `at[f]` is where the call is:
`enter` (before the registry lock), `locked` (holding it), `await_sm` (waiting
for the session's mutex with the registry locked), `create`, `configure`,
`running`, `unwind` (the parts of a start, holding the session's mutex only),
`destroy` (holding both), `erase` (after both were released, line 486).

`sessions`, `session_mutex`, `mutexes` (the keys of `session_mutexes`), `sm`
(the owner of each session mutex) and `last_error` are the variables of the
code. `crashed` says that the process has ended by a null pointer or by an
exception nobody catches; no step follows. Every setter is one action, as it
runs under the registry lock from beginning to end; a start is split where it
releases the lock or where other threads can see its effect.

`MonitorStops` lets a monitor's `run` end in every way it may: by returning, by
an `int` the proxy throws, and by a `libfsw_exception`; the guard
`monitor_start_guard` resets `running` in each.

Setters write a session under the registry lock only, and a start reads it
without that lock. This is a data race; where the code reads a field that another
thread may be writing (`Raced`), the model goes on either with the value or with
a crash (`MayCrash`). The two maps are raced for as well: line 486 takes a mutex off
`session_mutexes` after both locks were released (`EraseRaced`), and `create_monitor`
looks the session up in `sessions` without any (`LookupRaced`). These race with
calls under any handle, not only with those under the same.

The model is of the build with mutexes, `thread_local` and `unique_ptr`.

### FileTree, InotifyKernel and InotifyMonitor

An inode is in a seat `<<directory, name>>` or nowhere, and a path is resolved
through the seats each time it is used. What the model starts from is a tree
(`TreeAssumption`): no two inodes have one seat, and a directory that is nowhere has no entries. A directory
is deleted only when it is empty (`Empty`), and what other processes do keeps it a tree. Other processes create, write, delete,
rename and replace. `watch[n]` is the watch descriptor the kernel has for inode
`n`; each change sends the events the kernel documents, to the directory's
watch and to the inode's, merges one that equals the last, and replaces one
that does not fit by a single overflow event. Descriptors are never reused, as
the kernel does not until the counter wraps.

`InotifyMonitor` takes one step per system call or per pass over a table:
`RemovePendingWatch` (one `inotify_rm_watch`), `CleanDescriptors`,
`VisitRoot`, `ScanStat`, `ScanAdd`, `ScanList` (the recursion of `scan` is the
stack `todo`), `SelectTimeout`, `ReadEvents`, `PreprocessEvent` (one per event),
`NotifyEvents`. The maps are total functions: 0 and `Unknown` stand for "no
entry", and `Unknown` is also the empty string that `operator[]` yields for a
missing one. `PreprocessOverflow` throws, and so does a failing `select` or
`read` (`CallFails`), and the
callback may throw (`CallbackFails`); `Restart` is a client that calls `fsw_start_monitor`
again, with whatever the last run left in the tables.

`owed` is history: the paths whose change the callback must hear of. A write
owes a report when the inode, or its directory, is watched under its current
path and no event that ends the watch is waiting. A callback that throws leaves the `events` collected so far where they are:
the next run begins with them, and hands them over when it reads another event. `lossy` is history, too:
whether the queue ever overflowed.

### TimedFiles and PollMonitor

A path leads to a node, which is a directory or not and has an mtime and a
ctime in seconds; the model starts from a tree, in which what exists is in a directory; other processes make, write, delete and move nodes and change
their attributes, and the clock ticks. `PollMonitor` takes one step per `lstat`
(`InitialScan`, `IntermediateScan`: the whole callback, with what `scan` checks
before and after it) and one per `readdir` (`ScanChildren`, in any order of the
names); the recursion of `scan` is the stack `todo`. The two maps of tracked
files are total functions with `Absent` for "no entry". `FindRemovedFiles` is
the rest of `collect_data`: what is left of the old map is removed, the maps are
swapped. `events` is a set, as the order within a batch depends on a hash map.

A callback that throws (`NotifyFails`) ends `run` before the events are cleared,
and leaves the maps as they are. `kept` are the events that stay in the vector `events` of the code
from scans whose callback threw, so that the callback is told `kept` and `events`.
`Restart` is a client that starts the monitor again: the
first scan leaves a path its times when the map has it, and does not enter a directory that is
known, so that the next scan tells what changed in between. A path that appeared
between the two runs is taken as known by that first scan, as any path is by the
first scan of all. An event that equals one of `kept` is one element of
the set.

Three variables are history. `view` is the set of paths that exist for a client
that knows what the first scan found and believes the events since. `owed` are
the paths that need an event: those that changed in a later second than the last
ctime the monitor has seen of them, and of which no event was collected since. When a
directory is moved, the paths below its new place lead to nodes whose times are often
older than those the monitor has of the path; the code compares times with `>`, cannot see such a
change, and the path is not owed an event any more (`Visible`). `steady` says that nothing
has changed since the scan that is under way began.

### KqueueKernel, KqueueMonitor and WatchTable

A descriptor is open on an inode, whatever its path becomes; `open` hands out
the lowest free number. A descriptor that is registered collects notes (`WRITE`,
`DELETE`, `RENAME`) until `kevent` returns them, which clears them (`EV_CLEAR`);
`close` ends the registration and the notes. An inode that is open is not used for another
file. A directory gets a `WRITE` when an entry comes or goes.

`KqueueMonitor` takes one step per system call: `RemoveDeleted` and
`RescanPending` (one descriptor each, in any order, as the code goes through a
hash set), `VisitRoot`, `ScanStat`, `AddWatch` or `AddWatchFails`, `ScanList`,
`RegisterWatches`, `ProcessEvents` (`kevent` and the whole of `process_events`).
`AddWatchFails` may be taken at each `open`: the path is gone or may not be read, or other users of the
process or of the system hold the last descriptor. `CallbackFails` is a `process_events` whose callback throws: the marks
are made by then, the events are lost.
`kevent` may return at any time, with what there is. The two maps are total
functions, with 0 and `Unknown` for no entry. When `kevent` fails the monitor is left, and
a later start throws at once, as `kq` still holds the old kqueue
(`AlreadyRunning`).

The abstract `WatchTable` knows pairs of a path and a descriptor; a pair is added
when neither part is in use and dropped as a whole. The refinement maps the two
maps of the code to the union of the pairs in each: any entry that one map has and
the other has not, or has otherwise, is a pair that no step of the table allows.

Two variables are history. `owed`: the changed paths that the callback must hear
of, because the file was registered under that path, and not marked, when it was
written. `missed`: what the monitor does not get to see: a change made between the listing of
a directory and the `kevent` that registers what was found (`Resting` says
when that is not so: while `kevent` waits, or when nothing is watched and all roots are
still to be looked at); the move of a directory with its contents
(`Uproots`), whose descriptors stay open under the old paths; and a path that could
not be opened. (The
comment at kqueue_monitor.cpp:238 relies on the kernel dropping the events of
descriptors that are closed, but nothing closes those of the children.)

### FswatchCli

The process is a stack of activities: `main`, and the handlers of signals, each
of which interrupts the one below it at whatever step that is. No handler
returns, since all call `exit`; a signal is blocked while its own handler runs, the
others are not (`sa_mask` is empty). `exit` takes a function off the `atexit` list
before it calls it, so that an `exit` inside an `exit` goes on with the rest: this is
what the C library does, and with `close_stream` as the only function it is
the Boolean `atexits`. `close_stream` is four steps: the test, the
beginning of the deletion, its end, the reset of the pointer. To delete
an object that is being deleted or was deleted makes the status of the process
`undefined`, after which nothing is said.

Options are what they come to: which of `-h`, an unknown option and a bad `-l`
comes first, `--version`, a format and what it clashes with, `-o`, `-1`, whether
there are paths, the monitor's name, and whether `set_latency` or `set_filters`
throws. The other options do not change what the process does. `batches`
counts calls of the callback, at most `MaxBatches`.

That `delete` and `exit` are not safe in a signal handler at all (the heap or a
mutex may be in use by what was interrupted) is left out: the model says what
happens even if they were.

### LinkScan

The other monitor modules have no symbolic links. `LinkScan` has them and leaves out
the rest: the tree is at rest, and the module is about the one pass over the
roots that `scan_root_paths` or `collect_data` makes. The three `scan`
functions differ in a few lines only, so that they are one model and `Init` chooses which
of them runs, and whether it follows links. One step is one call of `scan`
(its recursion is the stack `todo`, with `accept_non_dirs` of the inotify monitor as
the field `any`) or one root visited.

What `lstat` finds at a path is nothing, a file, a directory, or a link, and a
link is what `realpath` makes of it: a path at which there is no further link, or
`Broken`. Paths are real: all that leads to one are directories. A
root given as a path below a link is therefore outside the model; the paths that
a scan makes are real, because links are resolved before anything is
put behind them.

What a pass should watch, `Wanted`, follows the code of each monitor in what it leaves out: the inotify
monitor goes into the directories of a directory only (`Entered`), so that it never comes to a
link but at a root.

`AddFails` is `open` of the kqueue monitor, which does not open a link where the
system has `O_NOFOLLOW` only, and `inotify_add_watch`, which follows a link even
when the monitor does not, and fails when it leads nowhere.

## 3. Runs

Every property of a passing run has a mutant in `PROJECT.json`: a plausible bug
in one mapped definition that makes TLC find the property violated under the
same configuration. The mutated forms stand beside the originals, marked
"Mutant".

| run | instance | shows |
|---|---|---|
| `sessions` | 2 threads, callbacks one level deep, 2 handles, 1.0 million states | `TypeOK`, `MonitorExclusive`, `SessionPinned`, `RunningFlagExact`, `CallbackToBlame`, and that the registry implements `SessionLifecycle` |
| `session_filters` | 1 thread and its callbacks, the whole API, 2 filters and one that does not compile, up to 4 filters piled up in the monitor, 390 000 states | `FiltersEffectiveAlways` |
| `session_calls_return` | 2 threads, no nested calls, fair | `CallsReturn` |
| `inotify` | a recursive root directory, two more inodes, 4 changes, a queue of 5, 2 watches, 77 000 states | `TypeOK`, `NoWatchForgotten`, `DeadWatchesNoticed`, `MovesNoticed`, `NoStalePathWhenDistinct`, `ChangesReported`, `RootsWatchedWhenDistinct`, with overflow, failing calls, a callback that throws, restart and the limit of watches |
| `poll` | two overlapping roots, a rejected file, 3 changes in 2 seconds, callbacks that throw, 165 000 states | `TypeOK`, `OneEventPerPath`, `SteadyScanExact`, `EventsCoherent`, `NoChangeSwallowed`, `ViewInSync`, `ChangesReported` |
| `kqueue` | a recursive root directory, two files, 3 descriptors, any `open` may fail, a callback that throws, a rejected path, 3 changes, 59 000 states | `TypeOK`, `NoDescriptorLeaks`, `ChangesNoted`, `CaughtUp`, `ChangesReported`, `CatchesUp`, and that the two maps implement `WatchTable` |
| `cli` | all options, three signals at any step, 2 batches, 243 000 states | `TypeOK`, `DeletedOnce`, `CleanExit`, `EndAdvances`, `SignalEnds`, `OneEventEnds` |
| `links` | every tree of six paths, three monitors, with and without following, 205 000 states | `TypeOK`, `ScanExact`, `PassAdvances`, `ScanEnds` |

### Bounds

* Two threads are enough for every pair of steps to cross; the locks are taken
  two at a time at most. Two handles let a handle be issued again while another
  session is alive. One nested call is enough for a callback to wait for its own
  frame. A client does not open a session when no handle is left (the code
  would look for a free number for ever), adds at most `MaxFilters` filters to a
  session and does not start one whose monitor has more than that.
* Deadlock checking is off in `sessions` and `session_filters`, because a
  callback can deadlock the library (see `refute_nocircularwait`): the states
  before and beside the deadlock are what the runs are about.
* A tree has at most three inodes besides the working directory, names `a` and
  `b` and paths of at most two names: enough to move a file away and back, to
  move one root onto another, to replace a directory by one that is watched, and
  to change a directory between each two system calls of a scan. Four
  changes suffice for "move away, replace, move back, write".
* `MaxWd` (9) is never reached. In `inotify` the queue is full after five events,
  which a scan that is interrupted by two changes reaches, and the third watch
  fails. (With five changes, or with two roots, the properties of this run hold as well; TLC
  takes longer then.) A callback throws at one event at most (`MaxKept`), so that one event is kept for
  the next run beside those of its own.
* In `poll` the tree may change in the seconds 0 and 1: in the second of the
  first scan, and in a later one, during and between scans. The second 2 stands
  for all later ones; the tree rests and the monitor goes on. Three changes are
  enough to move a file out of a directory, put another in its place and
  change that one. The roots `a` and `a/b` make a scan meet `a/b` twice, with
  any change in between.
* In `kqueue` the directory has the descriptor 1 and its file 2 at first, so that a
  rescan closes a number that is handed out again at once. Three changes are enough
  to write a file, move another one over it and delete or move that one, before
  `kevent` or while the rescans of the first change are under way. Three
  descriptors are what the directory and two files need. That `open` fails needs no smaller number, as it
  may fail at each call (`AddWatchFails`), so that a process that has run out of descriptors does nothing
  that is not in the run; the theorems are for any number.
  `a` is
  rejected by the filters, which matters when a file takes its place.
* In `links` four of the six paths are the roots `a` and `b` and the entries of `a`; `c`
  and its entry are outside of the roots, so that they are come to through links only. Links stand
  anywhere and lead anywhere: to the directory they are in, to the other root, to one
  object from two places. One entry is rejected. Deadlock checking is off, because the
  pass ends.
* In `cli` there is one monitor name that exists and one that does not. Signals are bounded
  by the blocking: each of the three can be handled once. Deadlock checking is off,
  because the process ends.

### Fairness

`SessionApi`: a call that can take its next step takes it (weak fairness), and the
registry lock is strongly fair: a mutex that is released again and again is
given to every waiting thread in the end. Only the owner of the registry waits for
a session mutex, so that weak fairness does there. `CallsReturn` assumes in its
statement that monitors stop.

`InotifyMonitor`: the monitor's thread keeps running (weak fairness of
`MonitorStep`). Nobody has to change the tree, and nobody has to start a
monitor again. `select` has a timeout, so that the loop goes round also when
nothing happens; this is what `RootsWatchedWhenDistinct` rests on. No callback has to throw.

`PollMonitor`: the monitor's thread keeps running and the clock advances (weak
fairness of `PollStep` and `PassTime`); `run` is an endless loop around a
`sleep`. Nobody has to start a monitor again whose callback threw. A change is never forced, so that `ViewInSync` speaks of a tree that
rests from some point on.

`KqueueMonitor`: the monitor's thread keeps running (weak fairness of
`MonitorStep`, in which `kevent` returns, at the latest by its timeout). That
`kevent` fails, that the callback throws, that the client starts the monitor again and that the tree
changes are not in it.

`LinkScan`: the monitor's thread keeps running (weak fairness of `Next`).

`FswatchCli`: the process runs (weak fairness of `ProcessStep`). Batches, a
failing monitor and signals come or do not.

### Where documents and code disagree

Four runs expect a violation: a document states a property, and the code breaks it.

| run | statement | what happens |
|---|---|---|
| `refute_nocircularwait` | libfswatch.h:47: "this API is thread safe" | the shortest case has one thread: the callback destroys its own session and waits, at libfswatch.cpp:459 and with the registry locked, for the mutex that the start it was called from holds. With two threads, a destruction (459) or a second start (413) of the other waits so, and the callback waits for the registry |
| `refute_livesessionhasmutex` | libfswatch.cpp:191: "Store the handle and a mutex to guard access to session instances" | `session_mutexes.erase(handle)` (486) runs after the session is gone and both locks are released: another thread gets the handle again before that, and the erasure takes the mutex of its session, which cannot be started then |
| `refute_rootswatched` | README.md:276: paths created after the start are "properly received" | a root moved onto another root: the clean-up of the old descriptor forgets the path's new watch, or the path is taken for watched although its descriptor stands for another path |
| `refute_gracefulexit` | fswatch.7:78: on SIGABRT, SIGINT or SIGTERM fswatch "exits gracefully returning 0" | a second signal, of another kind, comes after `close_stream` began to delete the monitor and before it reset the pointer: the monitor is deleted twice |

`refute_livesessionhasmutex` is of clients that destroy each session they were given once (`CarefulSpec`).
In its trace a thread is given the handle, destroys the session and is about to erase the mutex when the other is
given the handle; a client that destroys a handle it was not given brings about the same in fewer steps.

`RootsWatched` fails as soon as two paths compete: with two roots that are files, and also with
a single recursive root, which may be moved into the directory that takes its place. What it
takes to fail is said by `RootsWatchedWhenDistinct`, which the run `inotify` checks: a descriptor
that is entered under two paths at once (`FoundTwice`), because `add_watch` overwrites the path of a
descriptor it gets a second time and leaves the first in `path_to_wd`. Without that, and unless events
were lost or watches ran out, the clean-up, the rescan and the timeout work together, and a root
that exists is watched in the end.
`ChangesReported` has the same condition: with five changes, an event read after its
directory was found under another path is told under that one.

Other behaviours the models exhibit, for which no run is kept: a setter races
with a start that reads the same session (libfswatch.cpp:419 and after); paths
and the callback that are set after the first start never reach the monitor, which keeps
the copies it was created with (libfswatch.h:50 says that changes take effect at the
next start); a session without
callback, path or supported type makes `fsw_start_monitor` use a null monitor
(`ConfigureNothing`); a session that was given
a filter that does not compile never starts again, as filters cannot be taken out; an inotify event at which the
callback threw is told again only together with the next event that is read, since a `select` that times out
skips `notify_events` (inotify_monitor.cpp:412), and a loop without watches sleeps (`KeptBack`);
an event read after its descriptor was cleaned up is
reported with an empty path (`EventPath`); an excluded path is reported when its
directory is watched, as the filters are asked at a scan only (`Reported`); the
watches below a moved directory keep the old paths; the inotify monitor never follows
a link it comes to in a directory, as it leaves out a child that is no directory before it asks
whether links are followed (fswatch.texi:1066 says that fswatch can "follow them and
monitor the linked object"), and follows a root that is a link also when links are not followed,
through `inotify_add_watch`; a kqueue monitor that cannot open such a root leaves it out; a directory that is made in
a watched one is reported and never scanned; and the first filter that
matches decides (as the man page says), not an inclusion before any exclusion
(as fswatch.texi:979 says). The kqueue monitor misses what happens between a
scan and `kevent`, keeps the mode of another inode when a path changes between
`lstat` and `open`, leaves the descriptors below a moved directory open under the
old paths, cannot be started again after a failure, loses the events of a
batch whose callback throws, and leaves its descriptors
open when it is deleted. The command line tool never exits with `-o` and `-1`
together (`write_one_batch_event` does not look at `_1flag`); exits with 0
when a signal comes while it exits with an error; and takes a negative latency
for an error of the monitor (5), not of the option (3).

## 4. Proofs

`tlapm` on `SessionApi_proofs.tla`, `SessionFilters_proofs.tla`, `FileTree_proofs.tla`,
`InotifyMonitor_proofs.tla`, `PollMonitor_proofs.tla`, `KqueueMonitor_proofs.tla`,
`FswatchCli_proofs.tla` and `LinkScan_proofs.tla` checks every step. Assumptions: those named in the modules
on the constants (`FiltersAssumption`, `ApiAssumption`, `TreeAssumption`,
`KernelAssumption`, `MonitorAssumption`, `FilesAssumption`, `PollAssumption`,
`CliAssumption`, `LinksAssumption`). They say what kind of values the constants are, that the
model values for "nothing" are not among the others, and that the file system is a
tree at first; TLC evaluates them in the runs.

A property that says that something happens in the end cannot be proved here. What is
proved of each is the safety statement it rests on: that nothing gets lost on the way,
that one undisturbed pass is enough, or that each step comes closer to the end. Where
that takes an induction over the length of a path or the position in one, the proof takes the
shortest counterexample (`LeastNumber`), as the induction theorems of the library
cannot be used.

### The C API

`IInv` is `TypeOK /\ LockInv /\ SessionPinned /\ RunningFlagExact`. `LockInv`
says which part of a call goes with which function (`CallShape`), that a frame
owns the registry lock exactly when it is `locked`, `await_sm` or `destroy`
(`RegistryOwner`), and that it owns the mutex of its session exactly in the
parts in which it should (`MutexOwner`). None of the safety properties is
inductive alone: that a session is not freed under a start that released the
registry follows because the start owns the session's mutex, that no other
frame owns it because a mutex has one owner; and the running flag is exact
because only the frame that owns the mutex writes it. `Inductive` proves
`Spec => []IInv`, one lemma per action; `TypeCorrect`, `Exclusion`, `Pinned`
and `RunningFlag` follow, and `Refinement` shows `Spec => ImplementsLifecycle`
step by step from `IInv`.

The deadlock of `refute_nocircularwait` has one cause only. `CallsNested` says that a
thread is in a nested call only while every call below it runs a monitor (`Nesting`).
A call that waits for the mutex of a session waits for a start, as a destruction holds the registry
too (`RegistryOwner`, `MutexOwner`); and the thread of that start is at the registry, or is the one
that waits, only in a nested call. `Blame` proves this, `CallbackToBlame`, for any number of
threads and sessions, and `NoNestingNoDeadlock` that `NoCircularWait` holds where callbacks
do not call the API: what the header promises of its thread safety is true of such clients.

The surprise is that the erasure of a mutex that is in use
(`LiveSessionHasMutex` fails) does not break exclusion: no two frames hold the
mutex of one handle, because a destruction erases the entry only after the
session is gone, and a start that finds no entry fails.

The filters of a session pile up in its monitor, as each start appends those it
was given to those of earlier starts, and a start that fails at an expression
that does not compile appends only the ones before it. (As such a filter stays in the list, no later start of that
session succeeds; its failed starts matter for the chain they leave behind, of which the theorem speaks as well.) That the monitor
nevertheless decides as the session's own list does (`FiltersEffectiveAlways`) is
proved in `SessionFilters_proofs`. `FiltersInv` says of each session that its
monitor's chain is made of the session's filters, each with all those before it
in the session's chain also before it (`MadeOf`), and that each of the two chains has a first
match for a path, or none (`Decided`). A prefix of the session's list appended to
such a chain is such a chain, and so is one to whose list the client added a filter
at the end; and when the whole list is appended, the first match in
the whole is a first match in the session's list (`SameVerdict`). `FiltersInvariant`
and `FiltersAlwaysEffective` are the theorems, for lists of any length.

### The inotify monitor

`WatchInv` is `WatchesDistinct /\ EventsTrue /\ MarksRight /\ NoWatchForgotten`.
`NoWatchForgotten` alone is not inductive: `CleanDescriptors` takes marked
descriptors out of the table, so the marks must be right (`MarksRight`: what is
marked is dead, or its watch is removed before); marks come from events, so an
event that says its watch is gone must be true however late it is read
(`EventsTrue`); and it stays true because descriptors are handed out once
(`WatchesDistinct`). `EventsTrue` is a statement about sequences of events; the
lemma `SendTyped` reduces every change of the queue to the events it adds, and
`DropEffect` and `AddEffect` say what dropping and adding a watch does to the
truth of those already there. An overflow loses events, which only makes the
marks fewer. `WatchInvariant` and `NothingForgotten` are the theorems.

The second invariant, `IInv`, is `TypeOK /\ WatchInv /\ LoopShape /\ LossKnown /\
DeadWatchesNoticed`. Its point is the converse: that no dead descriptor stays in the
tables unannounced. A watch dies when its inode is deleted or replaced or when
the monitor removes it, and each time the kernel sends `IN_IGNORED`; the lemmas
`SendHas` and `IgnoredSent` say that it then is in the queue, unless an overflow event is.
Reading moves it from the queue to the batch (`ReadEventsNotices`), handling it
makes it a mark, and a marked descriptor leaves the tables. `LossKnown` ties
`lossy` to the overflow events still to be read, and `LoopShape` says that the batch is
empty when the next is read. The types of the path and event sequences rest on the
lemmas of `FileTree_proofs`. `InotifyInvariant`, `InotifyTypeOK` and `DeadNoticed` are the theorems.

Two theorems are about the paths in the tables, the half of `RootsWatchedWhenDistinct` that is
safety. `MovesAreNoticed`: what `is_watched` answers for a path in the directory that never moves is
right, or the event of the move is still to be read, or the watch is marked. It needs that
inodes have distinct seats (`SeatsDistinct`), so that an inode that is not at its path was moved, deleted or
replaced after the watch was added, each of which sends an event; and that a descriptor the kernel is
about to hand out is in no table yet (`WdsHandedOut`). `MapsAgree`: as long as no object is
found under two paths (`FoundTwice`), a path that has a descriptor is the one its events are
told under. A step that breaks this makes two paths share a descriptor, which is shown from the state after the
step.

### The poll monitor

`IInv` is `TypeOK /\ ScanMaps /\ ViewExact /\ EventsFound /\ OneEventPerPath`.
That a scan makes one event for a path is not inductive: a scan adds an event of
a path it meets for the first time, and `find_removed_files` one of a path it
did not meet, so that the events must be of paths the scan has met
(`EventsFound`) and the two maps disjoint (`ScanMaps`). That the story is
coherent needs that the maps together are what the client believes to exist
(`ViewExact`): created is what is in neither, changed or removed what is in the
old one. `PollInvariant`, `PollTypes`, `OncePerBatch` and `Coherence` are the
theorems.

`OwedVisible` says of each path that is owed an event that the monitor knows it, from a second
before the change, and that the next comparison sees the change (`Visible`): a change gives the
path a new ctime, or removes it. It is inductive together with `IInv` (`ChangesStayVisible`), and
`NothingSwallowed` follows: a step that replaces what the monitor knows of such a path has compared
it, and found an event. This is what `ChangesReported` rests on.

`SteadyScan` is what `ViewInSync` rests on: a scan during which nothing changes makes the story the tree
as it is. `IsTree` says that what exists is in a directory, which every change keeps, a move
with all that is below the moved directory included (`MovedTree`). `ScanFacts` says of a steady scan that what
it has added is wanted (`ToAdd`, `Below`), that the roots and the entries of each directory it has added
are added or still to be looked at (`Settled`), or that the directory is still to be read. When nothing is left to
do, a shortest wanted path that was not added would be a root or an entry of a directory that was
(`WantedTracked`); so that what was added is what is wanted, and with `ViewExact` the story is about that.

### The kqueue monitor

`IInv` is `TypeOK /\ NoDescriptorLeaks /\ MapsInverse /\ NotesRegistered /\
MarksWorkedOff /\ ScanShape`. That a mark is always on a tracked descriptor (part of
`TypeOK`) is what keeps `operator[]` in `rescan_pending` from making entries;
it holds because notes are made of registered descriptors only
(`NotesRegistered`), these are tracked, a descriptor is marked for one of the two purposes, and
the marks are worked off before the next ones are made (`MarksWorkedOff`; those a callback that
threw leaves behind stay for ever, as the monitor cannot be started again): a
scan never closes anything, and a number that a rescan hands out again is not among the
marks, because marks are on open descriptors. That the
two maps agree with each other (`MapsInverse`) is what makes either form of
`remove_watch`, which look up in different maps, close the right descriptor. `KqueueInvariant`,
`KqueueTypeOK` and `KqueueNoDescriptorLeaks` follow;
`KqueueImplementsWatchTable` shows from `IInv` that each step adds a pair, drops
one, or stutters.

`KqueueChangesNoted` is the safety part of `ChangesReported`: the descriptor through which a
change will be told stays open, registered, unmarked, and under its path until `kevent` returns.

`KqueueCaughtUp` is that of `CatchesUp`: one pass of the loop makes good whatever happened while the
monitor waited. `FactsInv` holds always: the seats are distinct and no directory that is nowhere
has entries, what is watched is below the roots, the position in the loop, and an inode whose deletion is noted
does not come back. `CaughtUpInv` holds while nothing was `missed`, and is about `WatchesRight`: the mode kept
for a descriptor is that of its inode (`ModesRight`); the path of a descriptor leads to its inode, or the
descriptor has a note or a mark (`RightOrSuspect`); the entries of a directory to which nothing
happened are watched or about to be scanned (`Listed`), and so are the roots already visited
(`RootsSeen`). The lemmas on the kernel say which notes each change of the tree leaves
where. Before `kevent`, with no mark left, a shortest path that should be watched and is not would be
a root or an entry of a directory that is watched (`WantedWatched`).

### The command line tool

`IInv` is `TypeOK /\ TopKnows /\ MonitorKnown /\ DeletedOnce /\ CleanExit`. No
activity returns to the one it interrupted, so what is below the top of the stack stays as it
was for ever, and the top has seen no change of the shared state but its own:
`TopKnows` says what it may believe at each of its steps. `MonitorKnown` says when the
pointer and the object may differ: only while some activity is between creating
and assigning (`assign`), deleting (`deleting`) or resetting (`clear`). A double
deletion needs an object that is dying or dead under a set pointer, so one of
these is below the top. `CliInvariant`, `CliTypeOK`, `CliDeletedOnce` and
`CliCleanExit` are the theorems, for any number of batches and any monitors.

`CliEndAdvances` is about the end of the process: once a signal is handled or `exit` was called, each step
enters a handler that was not entered before, takes `close_stream` off the list, or leaves the activity at
the top fewer steps to go. The first can happen once for each signal and the second once, so that this cannot go
on for ever; what `SignalEnds` adds is fairness. It needs that an activity that interrupted another is
in `close_stream` or in `exit` (`HandlersEnd`), where no step goes back.

### Symbolic links

`ScanExact` compares what is watched at the end with `Wanted`, the least set of
paths that has the roots and is closed under going into directories and through links. `IInv`
adds two conjuncts for its two halves. `Sound`: every closed set
contains what is watched and what the calls still on the stack stand for, so that nothing
outside of `Wanted` is ever watched. `Complete`: what is below a visited root
or a watched directory is watched or stood for on the stack, so that at the end,
when the stack is empty, what is watched is closed itself. That a path is left out because it is
watched already keeps `Complete`, since its directory was then listed when it was
watched; this is where links that lead back up stop. `LinksFollowed` and
`ATree` say that only objects are watched and lie where a path can reach them.
`ScanInvariant`, `ScanTypeOK` and `PassExact` are the theorems, for every
finite set of paths and every sequence of roots.

`EveryStepAdvances` shows that each step makes `Remaining` smaller, compared from the left. For the kqueue and the poll monitor it is the
number of paths not yet watched, of roots left, of calls on the stack, and whether the call at the top is at a link.
The inotify monitor scans a directory again that it comes to twice, but goes from a directory down only, never
through a link: what gets smaller is the set of paths below the calls on the stack (`Beneath`), for which the calls must not
be below each other. That no sequence of such tuples goes down for ever is
arithmetic; the conclusion that the pass ends, `ScanEnds`, needs fairness and is model-checked.

### Only model-checked

Liveness, for which the prover has no rules, and ENABLED, which fairness is made of. Each of these
properties has a theorem on the safety it rests on:

| model-checked | theorem |
|---|---|
| `CallsReturn` | `NoNestingNoDeadlock`: no circular wait without nested calls |
| `RootsWatchedWhenDistinct`, `ChangesReported` (inotify) | `MovesAreNoticed`, `MapsAgree`, `DeadNoticed`: nothing wrong stays in the tables unannounced |
| `ChangesReported` (poll) | `NothingSwallowed` |
| `ViewInSync` | `SteadyScan` |
| `ChangesReported` (kqueue) | `KqueueChangesNoted` |
| `CatchesUp` | `KqueueCaughtUp` |
| `SignalEnds`, `OneEventEnds` | `CliEndAdvances` |
| `ScanEnds` | `EveryStepAdvances` |

Every invariant and every action property of the runs that pass is proved.

## 5. What is not modelled

* Symbolic links that come, go or change while a monitor runs, and roots below
  a link; hard links, unmounting, and the
  events that change nothing here: open, close, access, attributes.
* The destructor of the inotify monitor: it removes `watched_descriptors`;
  `NoWatchForgotten` is what it relies on. That of the kqueue monitor closes the kqueue only.
* The notes `ATTRIB`, `LINK`, `EXTEND` and `REVOKE` of a kqueue, and entries with `EV_ERROR`, which
  `process_events` skips (kqueue_monitor.cpp:308): `kevent` reports that a change of a registration failed, and what is registered here is open.
* In the command line tool: the formatting of events and the texts. It keeps no state.
* The order in which the kernel queues the events of one change is one of those
  it produces, the same for each change of a kind.
* The builds without threads, and those without `unique_ptr`.
* The contents of events: time stamps, and the wording of messages.
* The fsevents monitor, as the inventory says.
* Everything that is not fswatch 1.4.6 itself. Of the C and C++ files of the
  repository almost all lines are standard library and system headers under
  `src/prj/sysinclude` and copies of fswatch's files under `src/src`, `src/prj` and
  `src/fswatch.src`, which an analysis tool left there; the program itself is about
  3200 lines of C++, of which the rest is option tables, formatting, usage texts,
  logging, getters and preprocessor alternatives.

## 6. Plan

Done, in this order: the C API and its proofs; the inotify monitor and its proofs;
the poll monitor and its proofs; the kqueue monitor, its refinement and its
proofs; the command line tool and its proofs; symbolic links in a tree at rest
and the proof that a pass is exact; the safety that the liveness properties rest on, and its
proofs.

Left:

1. Symbolic links that change during a scan, as a third kind of inode of `FileTree`.
2. The composition of `SessionApi` with an abstract monitor in place of
   `MonitorStops`.
