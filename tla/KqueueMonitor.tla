---------------------------- MODULE KqueueMonitor ----------------------------
(***************************************************************************)
(* The kqueue monitor (c++/kqueue_monitor.cpp): the loop of run, one step   *)
(* per system call, interleaved with the changes other processes make to    *)
(* the tree.  Symbolic links are left out.                                  *)
(***************************************************************************)
EXTENDS KqueueKernel

CONSTANTS
  Roots,         \* the sequence of paths to monitor
  Recursive,     \* the recursive flag of the monitor
  Rejected,      \* the paths accept_path rejects
  Unknown        \* the path "", which operator[] yields for no entry

ASSUME MonitorAssumption ==
  /\ Roots \in Seq(Paths)
  /\ Recursive \in BOOLEAN
  /\ Rejected \subseteq Paths
  /\ Unknown \notin Paths

VARIABLES
  pc,                        \* the part of the loop run is in
  kq,                        \* whether the monitor has a kqueue
  root,                      \* the next of the root paths scan_root_paths visits
  todo,                      \* what is left to scan: the stack of scan
  caller,                    \* the part of the loop scan returns to
  found,                     \* whether stat found a directory
  descriptors_by_file_name,  \* 0 for a path without an entry
  file_names_by_descriptor,  \* Unknown for a descriptor without an entry
  file_modes,                \* whether stat found a directory, by descriptor
  descriptors_to_remove,
  descriptors_to_rescan,
  owed,                      \* history: changed paths the callback must hear of
  missed                     \* history: a change or a path the monitor did not get to see

scanVars == <<root, todo, caller, found>>
tables == <<descriptors_by_file_name, file_names_by_descriptor, file_modes>>
marks == <<descriptors_to_remove, descriptors_to_rescan>>
history == <<owed, missed>>
monitorVars == <<pc, kq, scanVars, tables, marks>>
vars == <<kernelVars, monitorVars, history>>

Init ==
  /\ KernelInit
  /\ pc = "start"
  /\ kq = FALSE
  /\ root = 1
  /\ todo = <<>>
  /\ caller = "roots"
  /\ found = FALSE
  /\ descriptors_by_file_name = [p \in Paths |-> 0]
  /\ file_names_by_descriptor = [fd \in Fds |-> Unknown]
  /\ file_modes = [fd \in Fds |-> FALSE]
  /\ descriptors_to_remove = {}
  /\ descriptors_to_rescan = {}
  /\ owed = {}
  /\ missed = FALSE

is_path_watched(p) == descriptors_by_file_name[p] # 0

Tracked == {fd \in Fds : file_names_by_descriptor[fd] # Unknown}

-----------------------------------------------------------------------------
(* initialize_kqueue: a monitor that has a kqueue is not started again, and *)
(* it keeps the one of a run that failed.                                   *)
InitializeKqueue ==
  /\ pc = "start"
  /\ ~kq
  /\ pc' \in {"remove", "failed"}
  /\ kq' = (pc' = "remove")
  /\ UNCHANGED <<kernelVars, scanVars, tables, marks, history>>

AlreadyRunning ==
  /\ pc = "start"
  /\ kq
  /\ pc' = "failed"
  /\ UNCHANGED <<kernelVars, kq, scanVars, tables, marks, history>>

(* Mutant: the descriptor is forgotten but stays open. *)
remove_watch_open(p, fd) ==
  /\ descriptors_by_file_name' =
       [q \in Paths |-> IF q = p THEN 0 ELSE descriptors_by_file_name[q]]
  /\ file_names_by_descriptor' =
       [k \in Fds |-> IF k = fd THEN Unknown ELSE file_names_by_descriptor[k]]
  /\ file_modes' = [k \in Fds |-> IF k = fd THEN FALSE ELSE file_modes[k]]
  /\ UNCHANGED kernelVars

(* Mutant: the descriptor keeps its path, the path does not keep it. *)
remove_watch_half(p, fd) ==
  /\ descriptors_by_file_name' =
       [q \in Paths |-> IF q = p THEN 0 ELSE descriptors_by_file_name[q]]
  /\ UNCHANGED <<file_names_by_descriptor, file_modes>>
  /\ Close(fd)

(* Each of the two forms looks the other half of the pair up. *)
remove_watch(p, fd) ==
  /\ descriptors_by_file_name' =
       [q \in Paths |-> IF q = p THEN 0 ELSE descriptors_by_file_name[q]]
  /\ file_names_by_descriptor' =
       [k \in Fds |-> IF k = fd THEN Unknown ELSE file_names_by_descriptor[k]]
  /\ file_modes' = [k \in Fds |-> IF k = fd THEN FALSE ELSE file_modes[k]]
  /\ Close(fd)

RemoveDeleted ==
  /\ pc = "remove"
  /\ \E fd \in descriptors_to_remove :
       /\ remove_watch(file_names_by_descriptor[fd], fd)
       /\ descriptors_to_remove' = descriptors_to_remove \ {fd}
  /\ UNCHANGED <<pc, kq, scanVars, descriptors_to_rescan, history>>

AllRemoved ==
  /\ pc = "remove"
  /\ descriptors_to_remove = {}
  /\ pc' = "rescan"
  /\ UNCHANGED <<kernelVars, kq, scanVars, tables, marks, history>>

(* rescan_pending: the descriptor is closed and its path scanned again, so  *)
(* that a directory is opened anew while the watches below it stay.         *)
RescanPending ==
  /\ pc = "rescan"
  /\ \E fd \in descriptors_to_rescan :
       LET fd_path == file_names_by_descriptor[fd] IN
       /\ remove_watch(fd_path,
            IF fd_path = Unknown THEN 0 ELSE descriptors_by_file_name[fd_path])
       /\ descriptors_to_rescan' = descriptors_to_rescan \ {fd}
       /\ todo' = IF fd_path = Unknown THEN <<>> ELSE <<fd_path>>
  /\ pc' = "scan"
  /\ caller' = "rescan"
  /\ UNCHANGED <<kq, root, found, descriptors_to_remove, history>>

AllRescanned ==
  /\ pc = "rescan"
  /\ descriptors_to_rescan = {}
  /\ pc' = "roots"
  /\ root' = 1
  /\ UNCHANGED <<kernelVars, kq, todo, caller, found, tables, marks, history>>

(* scan_root_paths *)
VisitRoot ==
  /\ pc = "roots"
  /\ root <= Len(Roots)
  /\ root' = root + 1
  /\ IF is_path_watched(Roots[root])
     THEN UNCHANGED <<pc, todo, caller>>
     ELSE pc' = "scan" /\ todo' = <<Roots[root]>> /\ caller' = "roots"
  /\ UNCHANGED <<kernelVars, kq, found, tables, marks, history>>

RootsVisited ==
  /\ pc = "roots"
  /\ root > Len(Roots)
  /\ pc' = "register"
  /\ UNCHANGED <<kernelVars, kq, scanVars, tables, marks, history>>

-----------------------------------------------------------------------------
(* scan: lstat, then open, then readdir.  The path may lead to another      *)
(* inode each time.                                                         *)
Scanned == Head(todo)

ToWatch(p) ==
  /\ Resolve(p) # Nowhere
  /\ IsDir(Resolve(p)) \/ p \notin Rejected
  /\ ~is_path_watched(p)

ScanStat ==
  /\ pc = "scan"
  /\ todo # <<>>
  /\ IF ToWatch(Scanned)
     THEN pc' = "open" /\ found' = IsDir(Resolve(Scanned)) /\ UNCHANGED todo
     ELSE todo' = Tail(todo) /\ UNCHANGED <<pc, found>>
  /\ UNCHANGED <<kernelVars, kq, root, caller, tables, marks, history>>

AddWatch ==
  /\ pc = "open"
  /\ \E fd \in Fds :
       /\ Open(Scanned, fd)
       /\ descriptors_by_file_name' = [descriptors_by_file_name EXCEPT ![Scanned] = fd]
       /\ file_names_by_descriptor' = [file_names_by_descriptor EXCEPT ![fd] = Scanned]
       /\ file_modes' = [file_modes EXCEPT ![fd] = found]
  /\ IF Recursive /\ found
     THEN pc' = "list" /\ UNCHANGED todo
     ELSE pc' = "scan" /\ todo' = Tail(todo)
  /\ UNCHANGED <<kq, root, caller, found, marks, history>>

(* open fails: the path is gone, the file may not be read, or the process or *)
(* the system has no descriptor left, which may be so at any time, whatever *)
(* the monitor itself has open.                                             *)
AddWatchFails ==
  /\ pc = "open"
  /\ pc' = "scan"
  /\ todo' = Tail(todo)
  /\ missed' = TRUE
  /\ UNCHANGED <<kernelVars, kq, root, caller, found, tables, marks, owed>>

(* get_directory_children, in any order. *)
ScanList ==
  /\ pc = "list"
  /\ \E names \in SetToSeqs(Children(Scanned)) :
       todo' = [i \in DOMAIN names |-> Append(Scanned, names[i])] \o Tail(todo)
  /\ pc' = "scan"
  /\ UNCHANGED <<kernelVars, kq, root, caller, found, tables, marks, history>>

ScanDone ==
  /\ pc = "scan"
  /\ todo = <<>>
  /\ pc' = caller
  /\ UNCHANGED <<kernelVars, kq, scanVars, tables, marks, history>>

-----------------------------------------------------------------------------
(* kevent registers all descriptors and waits; with none the loop sleeps    *)
(* and begins again.                                                        *)
RegisterWatches ==
  /\ pc = "register"
  /\ Register(Tracked)
  /\ pc' = IF Tracked = {} THEN "remove" ELSE "wait"
  /\ UNCHANGED <<kq, scanVars, tables, marks, history>>

(* Mutants: what else happened to a deleted file is not passed on; a deleted *)
(* file is rescanned, too; a renamed file keeps its descriptor.             *)
ReportedAlive == {fd \in Fds : notes[fd] # {} /\ "DELETE" \notin notes[fd]}
ToRescanToo ==
  {fd \in Fds : "RENAME" \in notes[fd] \/ ("WRITE" \in notes[fd] /\ file_modes[fd])}
ToRescanDirs ==
  {fd \in Fds : "DELETE" \notin notes[fd] /\ "WRITE" \in notes[fd] /\ file_modes[fd]}

Reported == {fd \in Fds : notes[fd] # {}}

ToRemove == {fd \in Fds : "DELETE" \in notes[fd]}
ToRescan ==
  {fd \in Fds : /\ "DELETE" \notin notes[fd]
                /\ "RENAME" \in notes[fd] \/ ("WRITE" \in notes[fd] /\ file_modes[fd])}

Told == {file_names_by_descriptor[fd] : fd \in Reported} \ Rejected

(* The notes kevent returns, none when it ran into its timeout: descriptors *)
(* are marked, and the callback is called.                                  *)
process_events ==
  /\ Collect
  /\ descriptors_to_remove' = descriptors_to_remove \cup ToRemove
  /\ descriptors_to_rescan' = descriptors_to_rescan \cup ToRescan
  /\ owed' = owed \ Told

ProcessEvents ==
  /\ pc = "wait"
  /\ process_events
  /\ pc' = "remove"
  /\ UNCHANGED <<kq, scanVars, tables, missed>>

(* An exception of the callback leaves run, with the descriptors marked; the *)
(* events are gone.                                                         *)
CallbackFails ==
  /\ pc = "wait"
  /\ Told # {}
  /\ process_events
  /\ pc' = "failed"
  /\ UNCHANGED <<kq, scanVars, tables, missed>>

(* wait_for_events throws. *)
WaitFails ==
  /\ pc = "wait"
  /\ pc' = "failed"
  /\ UNCHANGED <<kernelVars, kq, scanVars, tables, marks, history>>

(* The client starts the monitor again. *)
Restart ==
  /\ pc = "failed"
  /\ pc' = "start"
  /\ UNCHANGED <<kernelVars, kq, scanVars, tables, marks, history>>

-----------------------------------------------------------------------------
(* The monitor watches inode n under path p and has no reason to stop.      *)
Settled(n, p) ==
  \E fd \in registered \ (descriptors_to_remove \cup descriptors_to_rescan) :
    open[fd] = n /\ file_names_by_descriptor[fd] = p

MustReport(p) == p \notin Rejected /\ Settled(Resolve(p), p)

(* The monitor watches nothing, and its next look at the roots is at all of *)
(* them.                                                                    *)
Idle == Tracked = {} /\ todo = <<>> /\ root \notin 2 .. Len(Roots)

(* The monitor waits with everything registered, or watches nothing.        *)
Resting == pc = "wait" \/ Idle

(* The watches below a directory are not looked after when it is moved.     *)
Uproots(p) == ~Empty(Resolve(p))

ChangeTree ==
  /\ Count
  /\ \/ \E p \in Paths : /\ Write(p)
                         /\ owed' = IF MustReport(p) THEN owed \cup {p} ELSE owed
                         /\ UNCHANGED missed
     \/ \E p \in Paths : /\ Create(p) \/ Delete(p)
                         /\ missed' = (missed \/ ~Resting)
                         /\ UNCHANGED owed
     \/ \E p, q \in Paths : /\ Rename(p, q) \/ Replace(p, q)
                            /\ missed' = (missed \/ ~Resting \/ Uproots(p))
                            /\ UNCHANGED owed
  /\ UNCHANGED monitorVars

MonitorStep ==
  \/ InitializeKqueue
  \/ AlreadyRunning
  \/ RemoveDeleted
  \/ AllRemoved
  \/ RescanPending
  \/ AllRescanned
  \/ VisitRoot
  \/ RootsVisited
  \/ ScanStat
  \/ AddWatch
  \/ AddWatchFails
  \/ ScanList
  \/ ScanDone
  \/ RegisterWatches
  \/ ProcessEvents

Next == ChangeTree \/ MonitorStep \/ CallbackFails \/ WaitFails \/ Restart

Spec == Init /\ [][Next]_vars

(* The monitor's thread keeps running; nobody has to change the tree, or to *)
(* start a monitor again, and neither kevent nor the callback has to fail.  *)
FairSpec == Spec /\ WF_vars(MonitorStep)

-----------------------------------------------------------------------------
TypeOK ==
  /\ KernelTypeOK
  /\ pc \in {"start", "remove", "rescan", "roots", "scan", "open", "list",
             "register", "wait", "failed"}
  /\ kq \in BOOLEAN
  /\ root \in 1 .. Len(Roots) + 1
  /\ todo \in Seq(Paths)
  /\ caller \in {"rescan", "roots"}
  /\ found \in BOOLEAN
  /\ descriptors_by_file_name \in [Paths -> 0 .. MaxFds]
  /\ file_names_by_descriptor \in [Fds -> Paths \cup {Unknown}]
  /\ file_modes \in [Fds -> BOOLEAN]
  /\ descriptors_to_remove \cap descriptors_to_rescan = {}
  /\ descriptors_to_remove \cup descriptors_to_rescan \subseteq Tracked
  /\ owed \subseteq Paths
  /\ missed \in BOOLEAN

(* The monitor has exactly the descriptors open that it has a path for:     *)
(* none leaks, none is used after it was closed, although the kernel hands  *)
(* a number out again at once and the two sets of marked descriptors are    *)
(* worked off while new descriptors are opened.                             *)
NoDescriptorLeaks ==
  /\ \A fd \in Fds : fd \in Tracked <=> open[fd] # Closed
  /\ registered \subseteq Tracked

(* The two maps are one table: a path is watched through one descriptor, a  *)
(* descriptor watches one path, and neither ever changes its partner, as    *)
(* the abstract table demands; rescans of paths that were renamed, replaced *)
(* or found again by the scan of their directory included.                  *)
watches ==
  {<<file_names_by_descriptor[fd], fd>> : fd \in Tracked}
    \cup {<<p, descriptors_by_file_name[p]>> : p \in {q \in Paths : is_path_watched(q)}}

Table == INSTANCE WatchTable WITH watches <- watches

ImplementsWatchTable == Table!Spec

(* A change of a file that was watched under its path when it was changed   *)
(* is told to the callback under that path, although the file may be moved, *)
(* replaced or deleted, or its directory be rescanned, before kevent is     *)
(* called; unless kevent fails.                                             *)
ChangesReported == \A p \in Paths : p \in owed ~> (p \notin owed \/ pc = "failed")

(* Until kevent returns, what it will tell of keeps such a change: the      *)
(* descriptor is not closed in between, nor given to another path, and the  *)
(* notes of it are not lost.                                                *)
ChangesNoted ==
  \A p \in owed :
    \E fd \in registered \ (descriptors_to_remove \cup descriptors_to_rescan) :
      file_names_by_descriptor[fd] = p /\ notes[fd] # {}

(* The paths the monitor should watch. *)
Wanted ==
  {p \in Paths :
    /\ \E i \in DOMAIN Roots : p = Roots[i] \/ (Recursive /\ IsPrefix(Roots[i], p))
    /\ Resolve(p) # Nowhere
    /\ IsDir(Resolve(p)) \/ p \notin Rejected}

(* It watches these paths, each through the inode it leads to, and no other. *)
WatchesWanted ==
  /\ {p \in Paths : is_path_watched(p)} = Wanted
  /\ \A p \in Wanted : open[descriptors_by_file_name[p]] = Resolve(p)

(* Whenever the monitor is about to call kevent it watches every path below *)
(* the roots, each through the inode it leads to, and nothing else, although*)
(* it only rescans what a note made it suspect: one pass makes good         *)
(* whatever happened to the tree while it waited.  A directory that was     *)
(* moved with its contents, a change between the listing of a directory and *)
(* kevent, or a descriptor that could not be had may be missed for ever.    *)
CaughtUp == pc = "register" /\ Tracked # {} /\ ~missed => WatchesWanted

(* Whatever happens to the tree, such a pass comes again and again, or the  *)
(* monitor waits for the first path to appear.                              *)
CatchesUp == []<>(missed \/ pc = "failed" \/ WatchesWanted)
=============================================================================
