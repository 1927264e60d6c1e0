---------------------------- MODULE PollMonitor ----------------------------
(***************************************************************************)
(* The poll monitor (c++/poll_monitor.cpp): the loop of run, one step per   *)
(* lstat and readdir of a scan, interleaved with the changes other          *)
(* processes make to the tree.  Symbolic links are left out; a path they    *)
(* would lead to twice is one below two of the Roots.                       *)
(***************************************************************************)
EXTENDS TimedFiles

CONSTANTS
  Roots,      \* the sequence of paths to monitor
  Recursive,  \* the recursive flag of the monitor
  Rejected    \* the paths accept_path rejects

Times == [mtime : Nat, ctime : Nat]

ASSUME PollAssumption ==
  /\ Roots \in Seq(Paths)
  /\ Recursive \in BOOLEAN
  /\ Rejected \subseteq Paths
  /\ Absent \notin Times

VARIABLES
  pc,             \* the part of run
  todo,           \* what is left to scan: the stack of scan
  previous_data,  \* the times of a path in the last scan, Absent for others
  new_data,       \* the same of this scan
  events,         \* of this scan for the callback, in no order
  kept,           \* events of earlier scans, whose callback threw
  asleep,         \* when the monitor went to sleep
  view,           \* history: the paths that exist for who reads the events
  owed,           \* history: changed paths that need an event
  steady          \* history: nothing has changed since this scan began

pollVars == <<pc, todo, previous_data, new_data, events, kept, asleep>>
history == <<view, owed, steady>>
vars == <<fileVars, pollVars, history>>

NoData == [p \in Paths |-> Absent]
Tracked(data) == {p \in Paths : data[p] # Absent}

ToStat(p) == [path |-> p, read |-> FALSE]
RootsToScan == [i \in DOMAIN Roots |-> ToStat(Roots[i])]

Init ==
  /\ FilesInit
  /\ pc = "initial"
  /\ todo = RootsToScan
  /\ previous_data = NoData
  /\ new_data = NoData
  /\ events = {}
  /\ kept = {}
  /\ asleep = 0
  /\ view = {}
  /\ owed = {}
  /\ steady = FALSE

-----------------------------------------------------------------------------
(* scan: lstat and add_path, then readdir. *)

ToAdd(p) == node[p] # Absent /\ (node[p].dir \/ p \notin Rejected)

TimesOf(p) == [mtime |-> node[p].mtime, ctime |-> node[p].ctime]

(* A path is added, once in a scan, or left. *)
Scanned == Head(todo).path
Scanning == todo # <<>> /\ ~Head(todo).read

Left == todo' = Tail(todo)
Added ==
  IF Recursive /\ node[Scanned].dir
  THEN todo' = [todo EXCEPT ![1].read = TRUE]
  ELSE Left

(* Mutant: the first scan of a run forgets the last one of the run before.  *)
InitialScanAnew ==
  /\ pc = "initial"
  /\ Scanning
  /\ IF ToAdd(Scanned)
     THEN /\ previous_data' = [previous_data EXCEPT ![Scanned] = TimesOf(Scanned)]
          /\ view' = view \cup ({Scanned} \ Rejected)
          /\ Added
     ELSE Left /\ UNCHANGED <<previous_data, view>>
  /\ UNCHANGED <<fileVars, pc, new_data, events, kept, asleep, owed, steady>>

(* A path that is known from the run before keeps its times.                *)
InitialScan ==
  /\ pc = "initial"
  /\ Scanning
  /\ IF ToAdd(Scanned) /\ previous_data[Scanned] = Absent
     THEN /\ previous_data' = [previous_data EXCEPT ![Scanned] = TimesOf(Scanned)]
          /\ view' = view \cup ({Scanned} \ Rejected)
          /\ Added
     ELSE Left /\ UNCHANGED <<previous_data, view>>
  /\ UNCHANGED <<fileVars, pc, new_data, events, kept, asleep, owed, steady>>

(* The events of a path of the last scan, and of a new one. *)

Flags(p) ==
  (IF node[p].mtime > previous_data[p].mtime THEN {"Updated"} ELSE {})
    \cup (IF node[p].ctime > previous_data[p].ctime THEN {"AttributeModified"} ELSE {})

Event(p, flags) == [path |-> p, flags |-> flags]

(* Mutant: an event without flags. *)
FoundUnchanged(p) ==
  IF p \in Rejected THEN {}
  ELSE {Event(p, IF previous_data[p] = Absent THEN {"Created"} ELSE Flags(p))}

Found(p) ==
  IF p \in Rejected THEN {}
  ELSE IF previous_data[p] = Absent THEN {Event(p, {"Created"})}
  ELSE IF Flags(p) = {} THEN {}
  ELSE {Event(p, Flags(p))}

(* Mutant: a path is not erased from the last scan. *)
ExamineKeeping(p) ==
  /\ new_data' = [new_data EXCEPT ![p] = TimesOf(p)]
  /\ events' = events \cup Found(p)
  /\ view' = view \cup {e.path : e \in Found(p)}
  /\ owed' = owed \ {e.path : e \in Found(p)}
  /\ UNCHANGED previous_data

Examine(p) ==
  /\ new_data' = [new_data EXCEPT ![p] = TimesOf(p)]
  /\ previous_data' = [previous_data EXCEPT ![p] = Absent]
  /\ events' = events \cup Found(p)
  /\ view' = view \cup {e.path : e \in Found(p)}
  /\ owed' = owed \ {e.path : e \in Found(p)}

(* Mutant: a path that was found already is examined again. *)
IntermediateScanAgain ==
  /\ pc = "collect"
  /\ Scanning
  /\ IF ToAdd(Scanned)
     THEN Examine(Scanned) /\ Added
     ELSE Left /\ UNCHANGED <<previous_data, new_data, events, view, owed>>
  /\ UNCHANGED <<fileVars, pc, kept, asleep, steady>>

IntermediateScan ==
  /\ pc = "collect"
  /\ Scanning
  /\ IF ToAdd(Scanned) /\ new_data[Scanned] = Absent
     THEN Examine(Scanned) /\ Added
     ELSE Left /\ UNCHANGED <<previous_data, new_data, events, view, owed>>
  /\ UNCHANGED <<fileVars, pc, kept, asleep, steady>>

(* get_directory_children, in any order. *)
ScanChildren ==
  /\ todo # <<>>
  /\ Head(todo).read
  /\ \E names \in SetToSeqs(Children(Scanned)) :
       todo' = [i \in DOMAIN names |-> ToStat(Append(Scanned, names[i]))] \o Tail(todo)
  /\ UNCHANGED <<fileVars, pc, previous_data, new_data, events, kept, asleep, history>>

InitialScanDone ==
  /\ pc = "initial"
  /\ todo = <<>>
  /\ pc' = "sleep"
  /\ asleep' = now
  /\ UNCHANGED <<fileVars, todo, previous_data, new_data, events, kept, history>>

(* find_removed_files and swap_data_containers: what was not found again is *)
(* gone.                                                                    *)
Gone == Tracked(previous_data) \ Rejected

(* Mutant: the two maps are not swapped. *)
KeepRemovedFiles ==
  /\ pc = "collect"
  /\ todo = <<>>
  /\ events' = events \cup {Event(p, {"Removed"}) : p \in Gone}
  /\ view' = view \ Gone
  /\ owed' = owed \ Gone
  /\ pc' = "notify"
  /\ UNCHANGED <<fileVars, todo, previous_data, new_data, kept, asleep, steady>>

FindRemovedFiles ==
  /\ pc = "collect"
  /\ todo = <<>>
  /\ events' = events \cup {Event(p, {"Removed"}) : p \in Gone}
  /\ view' = view \ Gone
  /\ owed' = owed \ Gone
  /\ previous_data' = new_data
  /\ new_data' = NoData
  /\ pc' = "notify"
  /\ UNCHANGED <<fileVars, todo, kept, asleep, steady>>

NotifyEvents ==
  /\ pc = "notify"
  /\ events' = {}
  /\ kept' = {}
  /\ asleep' = now
  /\ pc' = "sleep"
  /\ steady' = FALSE
  /\ UNCHANGED <<fileVars, todo, previous_data, new_data, view, owed>>

(* The callback throws: run is left before events.clear.                    *)
NotifyFails ==
  /\ pc = "notify"
  /\ kept \cup events # {}
  /\ kept' = kept \cup events
  /\ events' = {}
  /\ pc' = "failed"
  /\ steady' = FALSE
  /\ UNCHANGED <<fileVars, todo, previous_data, new_data, asleep, view, owed>>

(* The client starts the monitor again, which still has its last scan.      *)
Restart ==
  /\ pc = "failed"
  /\ pc' = "initial"
  /\ todo' = RootsToScan
  /\ UNCHANGED <<fileVars, previous_data, new_data, events, kept, asleep, history>>

(* The monitor sleeps a second at least (MIN_POLL_LATENCY); in the last     *)
(* second, which stands for all later ones, the clock is not looked at.     *)
Wake ==
  /\ pc = "sleep"
  /\ now > asleep \/ now = MaxTime
  /\ pc' = "collect"
  /\ todo' = RootsToScan
  /\ steady' = TRUE
  /\ UNCHANGED <<fileVars, previous_data, new_data, events, kept, asleep, view, owed>>

-----------------------------------------------------------------------------
(* The times the monitor last saw of a path. *)
LastSeen(p) == IF new_data[p] # Absent THEN new_data[p] ELSE previous_data[p]

(* Times have seconds: a change in the second of the last one may be missed. *)
MustReport(p) ==
  /\ p \notin Rejected
  /\ LastSeen(p) # Absent
  /\ LastSeen(p).ctime < now

(* The next comparison with what the monitor knows finds a difference. *)
Visible(p) == node[p] = Absent \/ node[p].ctime > LastSeen(p).ctime

(* A directory that is moved to q brings the times of what is below it; if  *)
(* they are old ones, nobody can see that the path changed.                 *)
ChangeTree ==
  /\ steady' = FALSE
  /\ UNCHANGED <<pollVars, view>>
  /\ \/ \E p \in Paths :
          /\ ChangePath(p)
          /\ owed' = owed \cup {q \in {p} : MustReport(q)}
     \/ \E p, q \in Paths :
          /\ Move(p, q)
          /\ owed' = {s \in owed : IsStrictPrefix(q, s) => Visible(s)'}
                       \cup {s \in {p, q} : MustReport(s)}

PassTime == Tick /\ UNCHANGED <<pollVars, history>>

PollStep ==
  \/ InitialScan
  \/ IntermediateScan
  \/ ScanChildren
  \/ InitialScanDone
  \/ FindRemovedFiles
  \/ NotifyEvents
  \/ Wake

Next == ChangeTree \/ PassTime \/ PollStep \/ NotifyFails \/ Restart

Spec == Init /\ [][Next]_vars

(* The monitor's thread keeps running and the clock advances; nobody has to *)
(* start a monitor again.                                                   *)
FairSpec == Spec /\ WF_vars(PollStep) /\ WF_vars(PassTime)

-----------------------------------------------------------------------------
AllFlags == {"Created", "Updated", "AttributeModified", "Removed"}

(* Every variable has values of its kind; an event has at least one flag,   *)
(* and is of a path that is accepted.                                       *)
TypeOK ==
  /\ FilesTypeOK
  /\ pc \in {"initial", "sleep", "collect", "notify", "failed"}
  /\ todo \in Seq([path : Paths, read : BOOLEAN])
  /\ previous_data \in [Paths -> Times \cup {Absent}]
  /\ new_data \in [Paths -> Times \cup {Absent}]
  /\ events \cup kept \subseteq [path : Paths \ Rejected, flags : (SUBSET AllFlags) \ {{}}]
  /\ asleep \in 0 .. MaxTime
  /\ view \subseteq Paths
  /\ owed \subseteq Paths
  /\ steady \in BOOLEAN

(* However the tree changes while it is scanned, and however often a scan   *)
(* meets a path, the callback hears of a path at most once of each scan     *)
(* (the events of scans whose callback threw are told once more).           *)
OneEventPerPath ==
  \A e, f \in events : e.path = f.path => e = f

(* The events tell one coherent story: a path is created when it does not   *)
(* exist for the reader, and changed or removed only when it does.          *)
EventsCoherent ==
  [][\A e \in events' \ events :
       IF e.flags = {"Created"} THEN e.path \notin view ELSE e.path \in view]_vars

(* What a scan of a tree at rest would find and report.                     *)
Reachable(p) ==
  /\ node[p] # Absent
  /\ p \notin Rejected
  /\ \E i \in DOMAIN Roots : IF Recursive THEN IsPrefix(Roots[i], p) ELSE Roots[i] = p

(* One scan during which nothing changes is enough to make good whatever    *)
(* earlier scans saw half of, callbacks that threw and starts in between:   *)
(* with its events the story is about the tree as it is, overlapping roots, *)
(* rejected directories with accepted files and paths of another kind than  *)
(* before included.                                                         *)
SteadyScanExact == pc = "notify" /\ steady => view = {p \in Paths : Reachable(p)}

(* When the tree stops changing, the story ends with the tree as it is,     *)
(* however many callbacks threw, unless the monitor is not started again.   *)
ViewInSync == <>[](pc = "failed" \/ view = {p \in Paths : Reachable(p)})

(* A path with a change the callback has not heard of.                      *)
Untold(p) == p \in owed \/ \E e \in events \cup kept : e.path = p

(* What the monitor knows of a changed path is never replaced by something  *)
(* newer, or forgotten, without an event for the path: no scan, first scan  *)
(* of a new run or swap of the maps swallows the change.                    *)
NoChangeSwallowed ==
  [][\A p \in owed : LastSeen(p)' # LastSeen(p) => \E e \in events' : e.path = p]_vars

(* A change of a path the monitor knows, in a later second than those it    *)
(* has of it, is told, even if the path is moved, replaced or removed       *)
(* before the next scan, or while a scan is on its way, or after the scan   *)
(* has seen another change of it, or between a callback that throws and the *)
(* next start.                                                              *)
ChangesReported == \A p \in Paths : Untold(p) ~> (~Untold(p) \/ pc = "failed")
=============================================================================
