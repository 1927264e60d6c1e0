--------------------------- MODULE InotifyMonitor ---------------------------
(***************************************************************************)
(* The inotify monitor (c++/inotify_monitor.cpp): the loop of run, one      *)
(* step per system call, interleaved with the changes other processes make  *)
(* to the tree.  Symbolic links are left out.                                *)
(***************************************************************************)
EXTENDS InotifyKernel

CONSTANTS
  Roots,         \* the sequence of paths to monitor
  Recursive,     \* the recursive flag of the monitor
  Rejected,      \* the paths accept_path rejects
  BufferEvents,  \* bound: events one read returns
  MaxKept,       \* bound: events a callback throws at
  Unknown        \* the path "", which operator[] yields for no entry

ASSUME MonitorAssumption ==
  /\ Roots \in Seq(Paths)
  /\ Recursive \in BOOLEAN
  /\ Rejected \subseteq Paths
  /\ BufferEvents \in Nat \ {0}
  /\ MaxKept \in Nat
  /\ Unknown \notin Paths

VARIABLES
  pc,                     \* the part of the loop run is in
  root,                   \* the next of the root paths scan_root_paths visits
  todo,                   \* what is left to scan: the stack of scan
  found,                  \* whether stat found a directory
  watched_descriptors,
  path_to_wd,             \* 0 for a path without an entry
  wd_to_path,             \* Unknown for a descriptor without an entry
  watches_to_remove,
  descriptors_to_remove,
  batch,                  \* events of the buffer still to be processed
  events,                 \* collected for the callback
  owed,                   \* history: changed paths the callback must hear of
  lossy                   \* history: whether the queue ever overflowed

monitorVars == <<pc, root, todo, found, watched_descriptors, path_to_wd,
                 wd_to_path, watches_to_remove, descriptors_to_remove, batch,
                 events>>
tables == <<watched_descriptors, path_to_wd, wd_to_path>>
marks == <<watches_to_remove, descriptors_to_remove>>
history == <<owed, lossy>>
vars == <<kernelVars, monitorVars, history>>

Wds == 1 .. MaxWd

MonitorInit ==
  /\ pc = "cleanup"
  /\ root = 1
  /\ todo = <<>>
  /\ found = FALSE
  /\ watched_descriptors = {}
  /\ path_to_wd = [p \in Paths |-> 0]
  /\ wd_to_path = [wd \in Wds |-> Unknown]
  /\ watches_to_remove = {}
  /\ descriptors_to_remove = {}
  /\ batch = <<>>
  /\ events = <<>>

Init == KernelInit /\ MonitorInit /\ owed = {} /\ lossy = FALSE

(* The overflow of the queue is remembered. *)
NoteLoss == lossy' = (lossy \/ \E i \in DOMAIN queue' : queue'[i].kind = "Q_OVERFLOW")

is_watched(p) == path_to_wd[p] # 0

-----------------------------------------------------------------------------
(* process_pending_events: first the watches of moved inodes are removed,   *)
(* one system call each, whether they succeed or not.                       *)
RemovePendingWatch ==
  /\ pc = "cleanup"
  /\ \E wd \in watches_to_remove :
       /\ RemoveWatch(wd)
       /\ watches_to_remove' = watches_to_remove \ {wd}
  /\ NoteLoss
  /\ UNCHANGED <<pc, root, todo, found, tables, descriptors_to_remove, batch,
                 events, owed>>

(* Mutant: the path of a descriptor is not forgotten. *)
CleanDescriptorsOnly ==
  /\ pc = "cleanup"
  /\ watches_to_remove = {}
  /\ wd_to_path' = [wd \in Wds |->
       IF wd \in descriptors_to_remove THEN Unknown ELSE wd_to_path[wd]]
  /\ watched_descriptors' = watched_descriptors \ descriptors_to_remove
  /\ descriptors_to_remove' = {}
  /\ pc' = "roots"
  /\ root' = 1
  /\ UNCHANGED <<kernelVars, todo, found, path_to_wd, watches_to_remove, batch,
                 events, history>>

(* Then the descriptors are forgotten, and with each the path it stands for, *)
(* whatever descriptor that path has by now.                                *)
CleanDescriptors ==
  /\ pc = "cleanup"
  /\ watches_to_remove = {}
  /\ path_to_wd' = [p \in Paths |->
       IF \E wd \in descriptors_to_remove : wd_to_path[wd] = p THEN 0
       ELSE path_to_wd[p]]
  /\ wd_to_path' = [wd \in Wds |->
       IF wd \in descriptors_to_remove THEN Unknown ELSE wd_to_path[wd]]
  /\ watched_descriptors' = watched_descriptors \ descriptors_to_remove
  /\ descriptors_to_remove' = {}
  /\ pc' = "roots"
  /\ root' = 1
  /\ UNCHANGED <<kernelVars, todo, found, watches_to_remove, batch, events, history>>

(* scan_root_paths *)
VisitRoot ==
  /\ pc = "roots"
  /\ root <= Len(Roots)
  /\ root' = root + 1
  /\ IF is_watched(Roots[root])
     THEN UNCHANGED <<pc, todo>>
     ELSE pc' = "scan" /\ todo' = <<[path |-> Roots[root], any |-> TRUE]>>
  /\ UNCHANGED <<kernelVars, found, tables, marks, batch, events, history>>

(* With nothing to watch the loop sleeps and begins again. *)
RootsVisited ==
  /\ pc = "roots"
  /\ root > Len(Roots)
  /\ pc' = IF watched_descriptors = {} THEN "cleanup" ELSE "select"
  /\ UNCHANGED <<kernelVars, root, todo, found, tables, marks, batch, events, history>>

-----------------------------------------------------------------------------
(* scan: lstat, then inotify_add_watch, then readdir.  The path may lead to *)
(* another inode each time.                                                 *)
Scanned == Head(todo)

ToScan(n) ==
  /\ n # Nowhere
  /\ Scanned.any \/ IsDir(n)
  /\ IsDir(n) \/ Scanned.path \notin Rejected

ScanStat ==
  /\ pc = "scan"
  /\ todo # <<>>
  /\ LET n == Resolve(Scanned.path) IN
       IF ToScan(n)
       THEN pc' = "add" /\ found' = IsDir(n) /\ UNCHANGED todo
       ELSE todo' = Tail(todo) /\ UNCHANGED <<pc, found>>
  /\ UNCHANGED <<kernelVars, root, tables, marks, batch, events, history>>

(* add_watch *)
ScanAdd ==
  /\ pc = "add"
  /\ \E wd \in Wds :
       /\ AddWatch(Scanned.path, wd)
       /\ watched_descriptors' = watched_descriptors \cup {wd}
       /\ wd_to_path' = [wd_to_path EXCEPT ![wd] = Scanned.path]
       /\ path_to_wd' = [path_to_wd EXCEPT ![Scanned.path] = wd]
  /\ IF Recursive /\ found
     THEN pc' = "list" /\ UNCHANGED todo
     ELSE pc' = "scan" /\ todo' = Tail(todo)
  /\ UNCHANGED <<root, found, marks, batch, events, history>>

ScanAddFails ==
  /\ pc = "add"
  /\ ~CanWatch(Scanned.path)
  /\ pc' = "scan"
  /\ todo' = Tail(todo)
  /\ UNCHANGED <<kernelVars, root, found, tables, marks, batch, events, history>>

(* get_directory_children, in any order; of the children only directories   *)
(* will be watched.                                                         *)
ScanList ==
  /\ pc = "list"
  /\ \E names \in SetToSeqs(Children(Scanned.path)) :
       todo' = [i \in DOMAIN names |->
                  [path |-> Append(Scanned.path, names[i]), any |-> FALSE]]
               \o Tail(todo)
  /\ pc' = "scan"
  /\ UNCHANGED <<kernelVars, root, found, tables, marks, batch, events, history>>

ScanDone ==
  /\ pc = "scan"
  /\ todo = <<>>
  /\ pc' = "roots"
  /\ UNCHANGED <<kernelVars, root, todo, found, tables, marks, batch, events, history>>

-----------------------------------------------------------------------------
(* select runs into its timeout. *)
SelectTimeout ==
  /\ pc = "select"
  /\ queue = <<>>
  /\ pc' = "cleanup"
  /\ UNCHANGED <<kernelVars, root, todo, found, tables, marks, batch, events, history>>

(* Mutant: the buffer is taken to hold one event. *)
ReadOneEvent ==
  /\ pc = "select"
  /\ queue # <<>>
  /\ LET n == IF Len(queue) < BufferEvents THEN Len(queue) ELSE BufferEvents IN
       /\ batch' = SubSeq(queue, 1, 1)
       /\ queue' = SubSeq(queue, n + 1, Len(queue))
  /\ pc' = "dispatch"
  /\ UNCHANGED <<treeVars, watch, next_wd, root, todo, found, tables, marks,
                 events, history>>

ReadEvents ==
  /\ pc = "select"
  /\ queue # <<>>
  /\ LET n == IF Len(queue) < BufferEvents THEN Len(queue) ELSE BufferEvents IN
       /\ batch' = SubSeq(queue, 1, n)
       /\ queue' = SubSeq(queue, n + 1, Len(queue))
  /\ pc' = "dispatch"
  /\ UNCHANGED <<treeVars, watch, next_wd, root, todo, found, tables, marks,
                 events, history>>

AllFlags == {"Created", "Updated", "Removed", "MovedFrom", "MovedTo", "IsDir"}

(* preprocess_dir_event: about the watched path, even when a child changed. *)
DirFlags(e) ==
  (IF e.isdir THEN {"IsDir"} ELSE {})
    \cup (IF e.kind = "MOVE_SELF" THEN {"Updated"} ELSE {})

(* preprocess_node_event *)
NodeFlags(e) ==
  CASE e.kind = "CREATE"     -> {"Created"}
    [] e.kind = "DELETE"     -> {"Removed"}
    [] e.kind = "MODIFY"     -> {"Updated"}
    [] e.kind = "MOVED_FROM" -> {"Removed", "MovedFrom"}
    [] e.kind = "MOVED_TO"   -> {"Created", "MovedTo"}
    [] OTHER                 -> {}

EventPath(e) ==
  IF e.name = NoName THEN wd_to_path[e.wd]
  ELSE IF wd_to_path[e.wd] = Unknown THEN Unknown
  ELSE Append(wd_to_path[e.wd], e.name)

Reported(path, flags) ==
  IF flags = {} THEN <<>> ELSE <<[path |-> path, flags |-> flags]>>

(* Mutants: the watch of a moved inode is left in the kernel; its descriptor *)
(* is kept; the descriptor of a deleted inode is kept.                      *)
WatchToRemoveNever(e) == FALSE
DescriptorToRemoveGone(e) == e.kind \in {"IGNORED", "DELETE_SELF"}
DescriptorToRemoveMoved(e) == e.kind = "MOVE_SELF"

(* The watch of a moved inode is removed, so that its path is scanned again. *)
WatchToRemove(e) == e.kind = "MOVE_SELF"
DescriptorToRemove(e) == e.kind \in {"IGNORED", "MOVE_SELF", "DELETE_SELF"}

(* preprocess_event *)
PreprocessEvent ==
  LET e == Head(batch) IN
  /\ pc = "dispatch"
  /\ batch # <<>>
  /\ e.kind # "Q_OVERFLOW"
  /\ batch' = Tail(batch)
  /\ events' = events \o Reported(wd_to_path[e.wd], DirFlags(e))
                      \o Reported(EventPath(e), NodeFlags(e))
  /\ watches_to_remove' =
       watches_to_remove \cup (IF WatchToRemove(e) THEN {e.wd} ELSE {})
  /\ descriptors_to_remove' =
       descriptors_to_remove \cup (IF DescriptorToRemove(e) THEN {e.wd} ELSE {})
  /\ UNCHANGED <<kernelVars, pc, root, todo, found, tables, history>>

(* The overflow exception leaves run; the rest of the buffer is lost.       *)
PreprocessOverflow ==
  /\ pc = "dispatch"
  /\ batch # <<>>
  /\ Head(batch).kind = "Q_OVERFLOW"
  /\ batch' = <<>>
  /\ pc' = "failed"
  /\ UNCHANGED <<kernelVars, root, todo, found, tables, marks, events, history>>

Told == {events[i].path : i \in {j \in DOMAIN events : "Updated" \in events[j].flags}}

(* notify_events, and sleep. *)
NotifyEvents ==
  /\ pc = "dispatch"
  /\ batch = <<>>
  /\ events' = <<>>
  /\ owed' = owed \ Told
  /\ pc' = "cleanup"
  /\ UNCHANGED <<kernelVars, root, todo, found, tables, marks, batch, lossy>>

(* An exception of the callback leaves run: the events are not cleared, and *)
(* are told again with those of the next run.                               *)
CallbackFails ==
  /\ pc = "dispatch"
  /\ batch = <<>>
  /\ Len(events) \in 1 .. MaxKept
  /\ pc' = "failed"
  /\ UNCHANGED <<kernelVars, root, todo, found, tables, marks, batch, events, history>>

(* A failing select or read leaves run by an exception, too.                *)
CallFails ==
  /\ pc = "select"
  /\ pc' = "failed"
  /\ UNCHANGED <<kernelVars, root, todo, found, tables, marks, batch, events, history>>

(* The client starts the monitor again: run keeps the state of the last run. *)
Restart ==
  /\ pc = "failed"
  /\ pc' = "cleanup"
  /\ UNCHANGED <<kernelVars, root, todo, found, tables, marks, batch, events, history>>

-----------------------------------------------------------------------------
Pending(wd, kinds) ==
  \E s \in {queue, batch} : \E i \in DOMAIN s : s[i].wd = wd /\ s[i].kind \in kinds

(* The monitor watches inode n under path p and has no reason to stop.      *)
Settled(n, p) ==
  /\ n \in Inodes
  /\ watch[n] # 0
  /\ wd_to_path[watch[n]] = p
  /\ watch[n] \notin descriptors_to_remove
  /\ ~Pending(watch[n], {"MOVE_SELF"})

MustReport(p) == Settled(Resolve(p), p) \/ Settled(Parent(p), Front(p))

ChangeTree ==
  /\ Count
  /\ \/ \E p \in Paths : /\ Write(p)
                         /\ owed' = IF MustReport(p) THEN owed \cup {p} ELSE owed
     \/ \E p \in Paths : (Create(p) \/ Delete(p)) /\ UNCHANGED owed
     \/ \E p, q \in Paths : (Rename(p, q) \/ Replace(p, q)) /\ UNCHANGED owed
  /\ NoteLoss
  /\ UNCHANGED monitorVars

MonitorStep ==
  \/ RemovePendingWatch
  \/ CleanDescriptors
  \/ VisitRoot
  \/ RootsVisited
  \/ ScanStat
  \/ ScanAdd
  \/ ScanAddFails
  \/ ScanList
  \/ ScanDone
  \/ SelectTimeout
  \/ ReadEvents
  \/ PreprocessEvent
  \/ PreprocessOverflow
  \/ NotifyEvents

Next == ChangeTree \/ MonitorStep \/ CallbackFails \/ CallFails \/ Restart

Spec == Init /\ [][Next]_vars

(* The monitor's thread keeps running; nobody has to change the tree or to  *)
(* start a monitor again, and no system call or callback has to fail.       *)
FairSpec == Spec /\ WF_vars(MonitorStep)

-----------------------------------------------------------------------------
Live(wd) == \E n \in Inodes : watch[n] = wd

TypeOK ==
  /\ KernelTypeOK
  /\ pc \in {"cleanup", "roots", "scan", "add", "list", "select", "dispatch", "failed"}
  /\ root \in 1 .. Len(Roots) + 1
  /\ todo \in Seq([path : Paths, any : BOOLEAN])
  /\ found \in BOOLEAN
  /\ watched_descriptors \subseteq Wds
  /\ path_to_wd \in [Paths -> 0 .. MaxWd]
  /\ wd_to_path \in [Wds -> Paths \cup {Unknown}]
  /\ watches_to_remove \subseteq descriptors_to_remove
  /\ descriptors_to_remove \subseteq Wds
  /\ batch \in Seq(KernelEvents)
  /\ events \in Seq([path : Seq(Names) \cup {Unknown}, flags : (SUBSET AllFlags) \ {{}}])
  /\ owed \subseteq Paths
  /\ lossy \in BOOLEAN

(* The monitor never forgets a descriptor the kernel still watches: the     *)
(* destructor, which removes the watched_descriptors, leaves no watch, and  *)
(* a watch that is dropped is dropped in the kernel first, whatever moves,  *)
(* deletions and failed removals cross each other in the queue.             *)
NoWatchForgotten ==
  \A n \in Inodes : watch[n] # 0 => watch[n] \in watched_descriptors

(* Unless the queue overflowed, a descriptor the kernel dropped does not    *)
(* stay in the tables: the news that it is dead is on its way, so that the  *)
(* monitor does not wait forever for events of a watch that is gone.        *)
DeadWatchesNoticed ==
  ~lossy => \A wd \in watched_descriptors :
    \/ Live(wd)
    \/ wd \in descriptors_to_remove
    \/ Pending(wd, {"IGNORED"})

(* A watched inode that is moved away from its path is not taken for what   *)
(* the path leads to: unless the queue overflowed, is_watched is right about *)
(* the live watch of a path in the directory that never moves, or the news  *)
(* of the move is on its way, so that the next scan of the roots skips no   *)
(* path for good.                                                           *)
MovesNoticed ==
  ~lossy => \A p \in Paths, n \in Inodes :
    Len(p) = 1 /\ watch[n] # 0 /\ path_to_wd[p] = watch[n] =>
      \/ Resolve(p) = n
      \/ watch[n] \in descriptors_to_remove
      \/ Pending(watch[n], {"MOVE_SELF"})

(* Before the tree is changed for the last time anything may happen to a    *)
(* root: it may be missing, be moved away and back, or be replaced.  When   *)
(* it exists in the end, it is watched for good under its path, unless a    *)
(* system call failed and nobody started the monitor again.                 *)
RootsWatched ==
  []<>(\/ pc = "failed"
       \/ \A i \in DOMAIN Roots :
            LET n == Resolve(Roots[i]) IN
            n # Nowhere /\ (IsDir(n) \/ Roots[i] \notin Rejected) => Settled(n, Roots[i]))

(* What stands in the way of more than one path is an object that is found  *)
(* under a second one while the first is still in the tables.               *)
FoundTwice ==
  \E p, q \in Paths : p # q /\ path_to_wd[p] = path_to_wd[q] /\ path_to_wd[p] # 0

(* As long as that does not happen, whatever path_to_wd has a descriptor    *)
(* for is the path that its events are told under, and the descriptor is    *)
(* one the monitor still watches: cleaning up after a descriptor forgets    *)
(* its path, and no other step parts the two maps.                          *)
StalePath ==
  \E p \in Paths : LET wd == path_to_wd[p] IN
    wd # 0 /\ ~(wd \in watched_descriptors /\ wd_to_path[wd] = p)

NoStalePathWhenDistinct == []~FoundTwice => []~StalePath

NoWatchLeft == Cardinality({n \in Inodes : watch[n] # 0}) = MaxWatches

(* As long as that does not happen, no event is lost and a watch is left,   *)
(* every root that exists in the end is watched, in whatever order the      *)
(* events of old watches come and descriptors are cleaned up between scans. *)
RootsWatchedWhenDistinct ==
  \/ <>FoundTwice
  \/ []<>(\/ pc = "failed"
          \/ lossy
          \/ \A i \in DOMAIN Roots :
               LET n == Resolve(Roots[i]) IN
               n # Nowhere /\ (IsDir(n) \/ Roots[i] \notin Rejected) =>
                 Settled(n, Roots[i]) \/ (watch[n] = 0 /\ NoWatchLeft))

(* The monitor has no event to read, or nothing to watch, and still has an  *)
(* event of p, to which the callback has thrown: going round the loop does  *)
(* not tell it.                                                             *)
KeptBack(p) ==
  /\ p \in Told
  /\ \/ pc = "select" /\ queue = <<>>
     \/ pc = "roots" /\ root > Len(Roots) /\ watched_descriptors = {}

(* A change of an object that was watched under its path when it was        *)
(* changed is told to the callback under that path, although the object may *)
(* be moved, replaced or deleted before the event is read, and also when    *)
(* run failed in between and was started again; an overflow may lose it, an *)
(* object that is found under a second path is told under that one, and an  *)
(* event the callback has thrown at waits for the next one to be read.      *)
ChangesReported ==
  \/ <>FoundTwice
  \/ \A p \in Paths :
       p \in owed ~> (p \notin owed \/ lossy \/ pc = "failed" \/ KeptBack(p))

-----------------------------------------------------------------------------
(* The inductive invariant behind NoWatchForgotten (InotifyMonitor_proofs). *)

(* Descriptors are handed out once, each to one inode. *)
WatchesDistinct ==
  /\ next_wd \in Nat \ {0}
  /\ watch \in [Inodes -> Nat]
  /\ \A n \in Inodes : watch[n] < next_wd
  /\ \A n, m \in Inodes : watch[n] = watch[m] /\ watch[n] # 0 => n = m

(* Every event is about a descriptor that was handed out, and one that says *)
(* its watch is gone tells the truth when it is read, however late.         *)
TrueEvents ==
  {e \in KernelEvents :
     e.kind # "Q_OVERFLOW" =>
       /\ e.wd \in 1 .. next_wd - 1
       /\ e.kind \in {"DELETE_SELF", "IGNORED"} => ~Live(e.wd)}

EventsTrue == queue \in Seq(TrueEvents) /\ batch \in Seq(TrueEvents)

(* A descriptor that is to be forgotten is dead, or its watch is removed    *)
(* before that.                                                             *)
MarksRight ==
  \A wd \in descriptors_to_remove :
    wd \in 1 .. next_wd - 1 /\ (Live(wd) => wd \in watches_to_remove)

WatchInv == WatchesDistinct /\ EventsTrue /\ MarksRight /\ NoWatchForgotten
=============================================================================
