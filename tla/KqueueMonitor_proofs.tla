------------------------ MODULE KqueueMonitor_proofs ------------------------
(***************************************************************************)
(* Proof that the kqueue monitor keeps its tables and its descriptors in    *)
(* step, implements WatchTable, notes what it owes the callback, and has    *)
(* caught up with the tree whenever it calls kevent, for every tree, every  *)
(* sequence of roots and every change made while the monitor runs.          *)
(***************************************************************************)
EXTENDS KqueueMonitor, FileTree_proofs

(* The two maps are inverse to each other. *)
MapsInverse ==
  /\ \A fd \in Tracked : descriptors_by_file_name[file_names_by_descriptor[fd]] = fd
  /\ \A p \in Paths : is_path_watched(p) =>
       file_names_by_descriptor[descriptors_by_file_name[p]] = p

(* Only a registered descriptor has notes. *)
NotesRegistered == \A fd \in Fds : notes[fd] # {} => fd \in registered

(* The marks are worked off before kevent is called again. *)
MarksWorkedOff ==
  /\ pc \notin {"remove", "start", "failed"} => descriptors_to_remove = {}
  /\ pc \in {"roots", "register", "wait"} => descriptors_to_rescan = {}
  /\ pc \in {"scan", "open", "list"} /\ caller = "roots" => descriptors_to_rescan = {}

(* What is opened is not watched yet. *)
ScanShape ==
  /\ pc \in {"open", "list"} => todo # <<>>
  /\ pc = "open" => ~is_path_watched(Scanned)

IInv ==
  /\ TypeOK
  /\ NoDescriptorLeaks
  /\ MapsInverse
  /\ NotesRegistered
  /\ MarksWorkedOff
  /\ ScanShape

-----------------------------------------------------------------------------
(* The kernel: notes are made of registered descriptors only.               *)

NoteSet == {"WRITE", "DELETE", "RENAME"}

NotesOf(new) ==
  /\ new \in [Fds -> SUBSET NoteSet]
  /\ \A fd \in Fds : new[fd] # {} => fd \in registered

LEMMA NoteTyped ==
  ASSUME NEW changed, NEW note \in NoteSet
  PROVE  NotesOf(Note(changed, note))
  BY DEF Note, NotesOf

LEMMA EntryNoteTyped ==
  ASSUME NEW paths
  PROVE  NotesOf(EntryNote(paths))
  BY NoteTyped DEF EntryNote, NoteSet

LEMMA BothTyped ==
  ASSUME NEW a, NEW b, NotesOf(a), NotesOf(b)
  PROVE  NotesOf(Both(a, b))
  BY DEF Both, NotesOf

LEMMA NotedTyped ==
  ASSUME KernelTypeOK, NotesRegistered, NEW new, NotesOf(new), Noted(new),
         UNCHANGED registered
  PROVE  notes' \in [Fds -> SUBSET NoteSet] /\ NotesRegistered'
  BY DEF KernelTypeOK, NotesRegistered, NotesOf, Noted, NoteSet

(* A change of the tree leaves what is open and registered alone.           *)
TreeEffect ==
  /\ seat' \in [Inodes -> ((Dirs \cup {Base}) \X Names) \cup {Nowhere}]
  /\ notes' \in [Fds -> SUBSET NoteSet]
  /\ NotesRegistered'
  /\ UNCHANGED <<open, registered>>

LEMMA CreateEffect ==
  ASSUME KernelTypeOK, NotesRegistered, NEW p \in Paths, Create(p)
  PROVE  TreeEffect
  <1>1. PICK n \in Inodes : MakeNode(p, n)
    BY DEF Create
  <1>2. TreeTypeOK
    BY DEF KernelTypeOK
  <1>3. Noted(EntryNote({p})) /\ UNCHANGED <<open, registered>>
    BY DEF Create
  <1> QED
    BY <1>1, <1>2, <1>3, MakeTyped, EntryNoteTyped, NotedTyped DEF TreeEffect

LEMMA WriteEffect ==
  ASSUME KernelTypeOK, NotesRegistered, NEW p \in Paths, Write(p)
  PROVE  TreeEffect
  <1>1. PICK n \in Inodes : WriteNode(p, n) /\ Noted(Note({n}, "WRITE"))
    BY DEF Write
  <1>2. UNCHANGED <<open, registered>>
    BY DEF Write
  <1>3. NotesOf(Note({n}, "WRITE"))
    BY NoteTyped DEF NoteSet
  <1>4. seat' \in [Inodes -> ((Dirs \cup {Base}) \X Names) \cup {Nowhere}]
    BY <1>1 DEF WriteNode, KernelTypeOK, TreeTypeOK
  <1> QED
    BY <1>1, <1>2, <1>3, <1>4, NotedTyped DEF TreeEffect

LEMMA DeleteEffect ==
  ASSUME KernelTypeOK, NotesRegistered, NEW p \in Paths, Delete(p)
  PROVE  TreeEffect
  <1>1. PICK n \in Inodes :
          DeleteNode(p, n) /\ Noted(Both(EntryNote({p}), Note({n}, "DELETE")))
    BY DEF Delete
  <1>2. TreeTypeOK /\ UNCHANGED <<open, registered>>
    BY DEF Delete, KernelTypeOK
  <1>3. NotesOf(Both(EntryNote({p}), Note({n}, "DELETE")))
    BY NoteTyped, EntryNoteTyped, BothTyped DEF NoteSet
  <1> QED
    BY <1>1, <1>2, <1>3, DeleteTyped, NotedTyped DEF TreeEffect

LEMMA RenameEffect ==
  ASSUME KernelTypeOK, NotesRegistered, NEW p \in Paths, NEW q \in Paths, Rename(p, q)
  PROVE  TreeEffect
  <1>1. PICK n \in Inodes :
          RenameNode(p, q, n) /\ Noted(Both(EntryNote({p, q}), Note({n}, "RENAME")))
    BY DEF Rename
  <1>2. TreeTypeOK /\ UNCHANGED <<open, registered>>
    BY DEF Rename, KernelTypeOK
  <1>3. NotesOf(Both(EntryNote({p, q}), Note({n}, "RENAME")))
    BY NoteTyped, EntryNoteTyped, BothTyped DEF NoteSet
  <1> QED
    BY <1>1, <1>2, <1>3, RenameTyped, NotedTyped DEF TreeEffect

LEMMA ReplaceEffect ==
  ASSUME KernelTypeOK, NotesRegistered, NEW p \in Paths, NEW q \in Paths, Replace(p, q)
  PROVE  TreeEffect
  <1>1. PICK n \in Inodes : \E m \in Inodes :
          /\ ReplaceNode(p, q, n, m)
          /\ Noted(Both(EntryNote({p, q}), Both(Note({n}, "RENAME"), Note({m}, "DELETE"))))
    BY DEF Replace
  <1>2. PICK m \in Inodes :
          /\ ReplaceNode(p, q, n, m)
          /\ Noted(Both(EntryNote({p, q}), Both(Note({n}, "RENAME"), Note({m}, "DELETE"))))
    BY <1>1
  <1>3. TreeTypeOK /\ UNCHANGED <<open, registered>>
    BY DEF Replace, KernelTypeOK
  <1>4. NotesOf(Note({n}, "RENAME")) /\ NotesOf(Note({m}, "DELETE")) /\ NotesOf(EntryNote({p, q}))
    BY NoteTyped, EntryNoteTyped DEF NoteSet
  <1>5. NotesOf(Both(EntryNote({p, q}), Both(Note({n}, "RENAME"), Note({m}, "DELETE"))))
    BY <1>4, BothTyped
  <1> QED
    BY <1>2, <1>3, <1>5, ReplaceTyped, NotedTyped DEF TreeEffect

-----------------------------------------------------------------------------
(* The tables.                                                              *)

(* A watched path and its descriptor lose their entries, and the descriptor *)
(* is closed.                                                               *)
LEMMA RemoveWatchEffect ==
  ASSUME TypeOK, NoDescriptorLeaks, MapsInverse, NotesRegistered,
         NEW fd \in Tracked, remove_watch(file_names_by_descriptor[fd], fd)
  PROVE  /\ KernelTypeOK'
         /\ descriptors_by_file_name' \in [Paths -> 0 .. MaxFds]
         /\ file_names_by_descriptor' \in [Fds -> Paths \cup {Unknown}]
         /\ file_modes' \in [Fds -> BOOLEAN]
         /\ Tracked' = Tracked \ {fd}
         /\ NoDescriptorLeaks'
         /\ MapsInverse'
         /\ NotesRegistered'
  <1> DEFINE p == file_names_by_descriptor[fd]
  <1>1. fd \in Fds /\ p \in Paths /\ descriptors_by_file_name[p] = fd /\ MaxFds \in Nat
    BY KernelAssumption DEF Tracked, TypeOK, MapsInverse
  <1>2. /\ descriptors_by_file_name' =
             [q \in Paths |-> IF q = p THEN 0 ELSE descriptors_by_file_name[q]]
        /\ file_names_by_descriptor' =
             [k \in Fds |-> IF k = fd THEN Unknown ELSE file_names_by_descriptor[k]]
        /\ file_modes' = [k \in Fds |-> IF k = fd THEN FALSE ELSE file_modes[k]]
        /\ Close(fd)
    BY DEF remove_watch
  <1>3. KernelTypeOK'
    <2>1. KernelTypeOK /\ Close(fd)
      BY <1>2 DEF TypeOK
    <2>2. open' \in [Fds -> Inodes \cup {Closed}]
      BY <2>1 DEF Close, KernelTypeOK
    <2>3. notes' \in [Fds -> SUBSET NoteSet]
      BY <2>1 DEF Close, KernelTypeOK, NoteSet
    <2> QED
      BY <2>1, <2>2, <2>3 DEF Close, treeVars, KernelTypeOK, TreeTypeOK, NoteSet
  <1>4. /\ descriptors_by_file_name' \in [Paths -> 0 .. MaxFds]
        /\ file_names_by_descriptor' \in [Fds -> Paths \cup {Unknown}]
        /\ file_modes' \in [Fds -> BOOLEAN]
    <2>1. 0 \in 0 .. MaxFds
      BY <1>1
    <2>2. descriptors_by_file_name' \in [Paths -> 0 .. MaxFds]
      BY <1>2, <2>1 DEF TypeOK
    <2>3. file_names_by_descriptor' \in [Fds -> Paths \cup {Unknown}]
      BY <1>2 DEF TypeOK
    <2>4. file_modes' \in [Fds -> BOOLEAN]
      BY <1>2 DEF TypeOK
    <2> QED
      BY <2>2, <2>3, <2>4
  <1>5. Tracked' = Tracked \ {fd}
    BY <1>2 DEF Tracked
  <1>6. NoDescriptorLeaks'
    BY <1>2, <1>5, KernelAssumption DEF NoDescriptorLeaks, Close
  <1>7. MapsInverse'
    <2>1. ASSUME NEW k \in Tracked \ {fd}
          PROVE  descriptors_by_file_name'[file_names_by_descriptor'[k]] = k
      <3>1. k \in Fds /\ file_names_by_descriptor[k] \in Paths
        BY DEF Tracked, TypeOK
      <3>2. descriptors_by_file_name[file_names_by_descriptor[k]] = k
        BY DEF MapsInverse
      <3>3. file_names_by_descriptor[k] # p
        BY <1>1, <3>2
      <3> QED
        BY <1>2, <3>1, <3>2, <3>3
    <2>2. ASSUME NEW q \in Paths, descriptors_by_file_name'[q] # 0
          PROVE  file_names_by_descriptor'[descriptors_by_file_name'[q]] = q
      <3>1. q # p /\ descriptors_by_file_name'[q] = descriptors_by_file_name[q]
        BY <1>2, <2>2
      <3>2. file_names_by_descriptor[descriptors_by_file_name[q]] = q
        BY <2>2, <3>1 DEF MapsInverse, is_path_watched
      <3>3. descriptors_by_file_name[q] \in Fds /\ descriptors_by_file_name[q] # fd
        BY <1>1, <2>2, <3>1, <3>2 DEF TypeOK, Fds
      <3> QED
        BY <1>2, <3>1, <3>2, <3>3
    <2> QED
      BY <1>5, <2>1, <2>2 DEF MapsInverse, is_path_watched
  <1>8. NotesRegistered'
    BY <1>2 DEF NotesRegistered, Close
  <1> QED
    BY <1>3, <1>4, <1>5, <1>6, <1>7, <1>8

LEMMA ScannedTyped ==
  ASSUME TypeOK, todo # <<>>
  PROVE  Scanned \in Paths /\ Tail(todo) \in Seq(Paths)
  <1>1. todo \in Seq(Paths)
    BY DEF TypeOK
  <1> QED
    BY <1>1, HeadTailProperties DEF Scanned

LEMMA ChildrenTyped ==
  ASSUME TypeOK, todo # <<>>, NEW names \in SetToSeqs(Children(Scanned))
  PROVE  [i \in DOMAIN names |-> Append(Scanned, names[i])] \in Seq(Paths)
  <1> DEFINE N == Cardinality(Children(Scanned))
             paths == [i \in DOMAIN names |-> Append(Scanned, names[i])]
  <1>1. N \in Nat /\ paths \in [1 .. N -> Paths]
    BY ScannedTyped, ChildrenListed
  <1> HIDE DEF N, paths
  <1>2. paths \in Seq(Paths)
    BY <1>1
  <1> QED
    BY <1>2 DEF paths

LEMMA RootTyped ==
  ASSUME NEW i \in 1 .. Len(Roots)
  PROVE  Roots[i] \in Paths /\ <<Roots[i]>> \in Seq(Paths)
  BY MonitorAssumption, ElementOfSeq

(* What is kept by a step that does not touch tables, marks or descriptors. *)
LEMMA TablesKept ==
  ASSUME IInv, UNCHANGED <<open, registered, notes, tables, marks>>
  PROVE  NoDescriptorLeaks' /\ MapsInverse' /\ NotesRegistered' /\ Tracked' = Tracked
  <1>1. Tracked' = Tracked
    BY DEF Tracked, tables
  <1> QED
    BY <1>1 DEF IInv, NoDescriptorLeaks, MapsInverse, NotesRegistered, is_path_watched,
                tables

-----------------------------------------------------------------------------
(* The steps.                                                               *)

LEMMA InitHolds == Init => IInv
  <1> SUFFICES ASSUME Init PROVE IInv
    OBVIOUS
  <1>1. KernelTypeOK
    BY TreeAssumption, KernelAssumption
    DEF Init, KernelInit, TreeInit, KernelTypeOK, TreeTypeOK
  <1>2. Tracked = {}
    BY DEF Init, Tracked
  <1>3. TypeOK
    <2>1. 1 \in 1 .. Len(Roots) + 1 /\ 0 \in 0 .. MaxFds
      BY MonitorAssumption, LenProperties, KernelAssumption
    <2>2. <<>> \in Seq(Paths)
      OBVIOUS
    <2> QED
      BY <1>1, <1>2, <2>1, <2>2 DEF Init, TypeOK
  <1>4. NoDescriptorLeaks
    BY <1>2 DEF Init, KernelInit, NoDescriptorLeaks
  <1> QED
    BY <1>2, <1>3, <1>4
    DEF Init, KernelInit, IInv, MapsInverse, NotesRegistered, MarksWorkedOff, ScanShape,
        is_path_watched

LEMMA ChangeTreeHolds == IInv /\ ChangeTree => IInv'
  <1> SUFFICES ASSUME IInv, ChangeTree PROVE IInv'
    OBVIOUS
  <1>1. TreeEffect
    <2>1. KernelTypeOK /\ NotesRegistered
      BY DEF IInv, TypeOK
    <2> QED
      BY <2>1, CreateEffect, WriteEffect, DeleteEffect, RenameEffect, ReplaceEffect
      DEF ChangeTree
  <1>2. ops' \in 0 .. MaxOps
    BY CountTyped DEF ChangeTree, IInv, TypeOK, KernelTypeOK
  <1>3. owed' \subseteq Paths /\ missed' \in BOOLEAN
    BY DEF ChangeTree, IInv, TypeOK
  <1>4. UNCHANGED <<pc, kq, scanVars, tables, marks>>
    BY DEF ChangeTree, monitorVars
  <1>5. KernelTypeOK'
    BY <1>1, <1>2 DEF TreeEffect, KernelTypeOK, TreeTypeOK, IInv, TypeOK, NoteSet
  <1>6. Tracked' = Tracked
    BY <1>4 DEF Tracked, tables
  <1>7. TypeOK'
    BY <1>3, <1>4, <1>5, <1>6 DEF IInv, TypeOK, scanVars, tables, marks
  <1>8. NoDescriptorLeaks' /\ MapsInverse' /\ NotesRegistered'
    BY <1>1, <1>4, <1>6
    DEF TreeEffect, IInv, NoDescriptorLeaks, MapsInverse, is_path_watched, tables
  <1> QED
    BY <1>4, <1>7, <1>8
    DEF IInv, MarksWorkedOff, ScanShape, is_path_watched, Scanned, scanVars, tables, marks

LEMMA RemoveDeletedHolds == IInv /\ RemoveDeleted => IInv'
  <1> SUFFICES ASSUME IInv, RemoveDeleted PROVE IInv'
    OBVIOUS
  <1>1. PICK fd \in descriptors_to_remove :
          /\ remove_watch(file_names_by_descriptor[fd], fd)
          /\ descriptors_to_remove' = descriptors_to_remove \ {fd}
    BY DEF RemoveDeleted
  <1>2. fd \in Tracked /\ fd \notin descriptors_to_rescan
    BY DEF IInv, TypeOK
  <1>3. /\ KernelTypeOK'
        /\ descriptors_by_file_name' \in [Paths -> 0 .. MaxFds]
        /\ file_names_by_descriptor' \in [Fds -> Paths \cup {Unknown}]
        /\ file_modes' \in [Fds -> BOOLEAN]
        /\ Tracked' = Tracked \ {fd}
        /\ NoDescriptorLeaks' /\ MapsInverse' /\ NotesRegistered'
    BY <1>1, <1>2, RemoveWatchEffect DEF IInv
  <1>4. UNCHANGED <<pc, kq, scanVars, descriptors_to_rescan, history>> /\ pc = "remove"
    BY DEF RemoveDeleted
  <1>5. TypeOK'
    BY <1>1, <1>2, <1>3, <1>4 DEF IInv, TypeOK, scanVars, history
  <1> QED
    BY <1>3, <1>4, <1>5 DEF IInv, MarksWorkedOff, ScanShape

(* A rescan closes the descriptor it works off.                             *)
LEMMA RescanRemoves ==
  ASSUME IInv, RescanPending
  PROVE  \E fd \in descriptors_to_rescan :
           /\ fd \in Tracked
           /\ remove_watch(file_names_by_descriptor[fd], fd)
           /\ descriptors_to_rescan' = descriptors_to_rescan \ {fd}
           /\ todo' = <<file_names_by_descriptor[fd]>>
  <1>1. PICK fd \in descriptors_to_rescan :
          LET fd_path == file_names_by_descriptor[fd] IN
          /\ remove_watch(fd_path,
               IF fd_path = Unknown THEN 0 ELSE descriptors_by_file_name[fd_path])
          /\ descriptors_to_rescan' = descriptors_to_rescan \ {fd}
          /\ todo' = IF fd_path = Unknown THEN <<>> ELSE <<fd_path>>
    BY DEF RescanPending
  <1>2. fd \in Tracked
    BY DEF IInv, TypeOK
  <1>3. /\ file_names_by_descriptor[fd] # Unknown
        /\ descriptors_by_file_name[file_names_by_descriptor[fd]] = fd
    BY <1>2 DEF Tracked, IInv, MapsInverse
  <1> QED
    BY <1>1, <1>2, <1>3

LEMMA RescanPendingHolds == IInv /\ RescanPending => IInv'
  <1> SUFFICES ASSUME IInv, RescanPending PROVE IInv'
    OBVIOUS
  <1>1. PICK fd \in descriptors_to_rescan :
          /\ fd \in Tracked
          /\ remove_watch(file_names_by_descriptor[fd], fd)
          /\ descriptors_to_rescan' = descriptors_to_rescan \ {fd}
          /\ todo' = <<file_names_by_descriptor[fd]>>
    BY RescanRemoves
  <1>2. fd \notin descriptors_to_remove
    BY DEF IInv, TypeOK
  <1>3. file_names_by_descriptor[fd] \in Paths
    BY <1>1 DEF Tracked, IInv, TypeOK
  <1>4. /\ KernelTypeOK'
        /\ descriptors_by_file_name' \in [Paths -> 0 .. MaxFds]
        /\ file_names_by_descriptor' \in [Fds -> Paths \cup {Unknown}]
        /\ file_modes' \in [Fds -> BOOLEAN]
        /\ Tracked' = Tracked \ {fd}
        /\ NoDescriptorLeaks' /\ MapsInverse' /\ NotesRegistered'
    BY <1>1, RemoveWatchEffect DEF IInv
  <1>5. /\ pc = "rescan" /\ pc' = "scan" /\ caller' = "rescan"
        /\ UNCHANGED <<kq, root, found, descriptors_to_remove, history>>
    BY DEF RescanPending
  <1>6. TypeOK'
    <2>1. todo' \in Seq(Paths)
      BY <1>1, <1>3
    <2> QED
      BY <1>1, <1>2, <1>4, <1>5, <2>1 DEF IInv, TypeOK, history
  <1> QED
    BY <1>4, <1>5, <1>6 DEF IInv, MarksWorkedOff, ScanShape

LEMMA ScanStatHolds == IInv /\ ScanStat => IInv'
  <1> SUFFICES ASSUME IInv, ScanStat PROVE IInv'
    OBVIOUS
  <1>1. /\ pc = "scan" /\ todo # <<>>
        /\ UNCHANGED <<kernelVars, kq, root, caller, tables, marks, history>>
    BY DEF ScanStat
  <1>2. NoDescriptorLeaks' /\ MapsInverse' /\ NotesRegistered' /\ Tracked' = Tracked
    BY <1>1, TablesKept DEF kernelVars
  <1>3. Tail(todo) \in Seq(Paths)
    BY <1>1, ScannedTyped DEF IInv
  <1>4. /\ pc' \in {"scan", "open"}
        /\ found' \in BOOLEAN
        /\ todo' \in Seq(Paths)
        /\ pc' = "open" => todo' # <<>> /\ ~is_path_watched(Scanned) /\ todo' = todo
    <2>1. CASE ToWatch(Scanned)
      <3>1. pc' = "open" /\ found' = IsDir(Resolve(Scanned)) /\ todo' = todo
        BY <2>1 DEF ScanStat
      <3>2. IsDir(Resolve(Scanned)) \in BOOLEAN
        BY DEF IsDir
      <3>3. ~is_path_watched(Scanned)
        BY <2>1 DEF ToWatch
      <3>4. todo \in Seq(Paths)
        BY DEF IInv, TypeOK
      <3> QED
        BY <1>1, <3>1, <3>2, <3>3, <3>4
    <2>2. CASE ~ToWatch(Scanned)
      <3>1. todo' = Tail(todo) /\ UNCHANGED <<pc, found>>
        BY <2>2 DEF ScanStat
      <3> QED
        BY <1>1, <1>3, <3>1 DEF IInv, TypeOK
    <2> QED
      BY <2>1, <2>2
  <1>5. TypeOK'
    BY <1>1, <1>2, <1>4
    DEF IInv, TypeOK, KernelTypeOK, TreeTypeOK, kernelVars, treeVars, tables, marks, history
  <1>6. MarksWorkedOff'
    BY <1>1, <1>4 DEF IInv, MarksWorkedOff, marks
  <1>7. ScanShape'
    BY <1>1, <1>4 DEF ScanShape, is_path_watched, Scanned, tables
  <1> QED
    BY <1>2, <1>5, <1>6, <1>7 DEF IInv

(* The path gets the free descriptor the kernel hands out.                  *)
LEMMA AddWatchEffect ==
  ASSUME IInv, pc = "open", NEW fd \in Fds, Open(Scanned, fd),
         descriptors_by_file_name' = [descriptors_by_file_name EXCEPT ![Scanned] = fd],
         file_names_by_descriptor' = [file_names_by_descriptor EXCEPT ![fd] = Scanned]
  PROVE  /\ Scanned \in Paths /\ fd \notin Tracked /\ ~is_path_watched(Scanned)
         /\ KernelTypeOK'
         /\ descriptors_by_file_name' \in [Paths -> 0 .. MaxFds]
         /\ file_names_by_descriptor' \in [Fds -> Paths \cup {Unknown}]
         /\ Tracked' = Tracked \cup {fd}
         /\ NoDescriptorLeaks' /\ MapsInverse' /\ NotesRegistered'
  <1> DEFINE p == Scanned
  <1>1. p \in Paths /\ ~is_path_watched(p)
    BY ScannedTyped DEF IInv, ScanShape
  <1>2. /\ Resolve(p) \in Inodes /\ open[fd] = Closed
        /\ open' = [open EXCEPT ![fd] = Resolve(p)]
        /\ UNCHANGED <<treeVars, registered, notes>>
    BY DEF Open, CanOpen, FreeFds
  <1>3. fd \notin Tracked
    BY <1>2 DEF IInv, NoDescriptorLeaks
  <1>4. p # Unknown /\ fd # 0 /\ fd \in 0 .. MaxFds /\ Resolve(p) # Closed
    BY <1>1, <1>2, MonitorAssumption, KernelAssumption DEF Fds
  <1> HIDE DEF p
  <1>5. /\ descriptors_by_file_name' = [descriptors_by_file_name EXCEPT ![p] = fd]
        /\ file_names_by_descriptor' = [file_names_by_descriptor EXCEPT ![fd] = p]
    BY DEF p
  <1>6. /\ descriptors_by_file_name \in [Paths -> 0 .. MaxFds]
        /\ file_names_by_descriptor \in [Fds -> Paths \cup {Unknown}]
        /\ open \in [Fds -> Inodes \cup {Closed}]
    BY DEF IInv, TypeOK, KernelTypeOK
  <1>7. KernelTypeOK'
    BY <1>2, <1>6 DEF treeVars, KernelTypeOK, TreeTypeOK, IInv, TypeOK
  <1>8. Tracked' = Tracked \cup {fd}
    BY <1>4, <1>5, <1>6 DEF Tracked
  <1>9. NoDescriptorLeaks'
    BY <1>2, <1>4, <1>6, <1>8 DEF IInv, NoDescriptorLeaks
  <1>10. MapsInverse'
    <2>1. ASSUME NEW k \in Tracked'
          PROVE  descriptors_by_file_name'[file_names_by_descriptor'[k]] = k
      <3>1. CASE k = fd
        BY <1>1, <1>5, <1>6, <3>1
      <3>2. CASE k \in Tracked
        <4>1. k # fd /\ k \in Fds /\ file_names_by_descriptor[k] \in Paths
          BY <1>3, <1>6, <3>2 DEF Tracked
        <4>2. descriptors_by_file_name[file_names_by_descriptor[k]] = k
          BY <3>2 DEF IInv, MapsInverse
        <4>3. file_names_by_descriptor[k] # p
          <5>1. k # 0
            BY <4>1, KernelAssumption DEF Fds
          <5> QED
            BY <1>1, <4>2, <5>1 DEF is_path_watched
        <4> QED
          BY <1>5, <1>6, <4>1, <4>2, <4>3
      <3> QED
        BY <1>8, <3>1, <3>2
    <2>2. ASSUME NEW q \in Paths, descriptors_by_file_name'[q] # 0
          PROVE  file_names_by_descriptor'[descriptors_by_file_name'[q]] = q
      <3>1. CASE q = p
        BY <1>5, <1>6, <3>1
      <3>2. CASE q # p
        <4>1. descriptors_by_file_name'[q] = descriptors_by_file_name[q]
          BY <1>5, <1>6, <3>2
        <4>2. file_names_by_descriptor[descriptors_by_file_name[q]] = q
          BY <2>2, <4>1 DEF IInv, MapsInverse, is_path_watched
        <4>3. descriptors_by_file_name[q] \in Fds
          BY <1>6, <2>2, <4>1, KernelAssumption DEF Fds
        <4>4. descriptors_by_file_name[q] # fd
          BY <1>3, <4>2, <4>3, MonitorAssumption DEF Tracked
        <4> QED
          BY <1>5, <1>6, <4>1, <4>2, <4>3, <4>4
      <3> QED
        BY <3>1, <3>2
    <2> QED
      BY <2>1, <2>2 DEF MapsInverse, is_path_watched
  <1>11. NotesRegistered'
    BY <1>2 DEF IInv, NotesRegistered
  <1>12. /\ descriptors_by_file_name' \in [Paths -> 0 .. MaxFds]
         /\ file_names_by_descriptor' \in [Fds -> Paths \cup {Unknown}]
    BY <1>1, <1>4, <1>5, <1>6
  <1> QED
    BY <1>1, <1>3, <1>7, <1>8, <1>9, <1>10, <1>11, <1>12 DEF p

LEMMA AddWatchHolds == IInv /\ AddWatch => IInv'
  <1> SUFFICES ASSUME IInv, AddWatch PROVE IInv'
    OBVIOUS
  <1>1. pc = "open" /\ todo # <<>>
    BY DEF AddWatch, IInv, ScanShape
  <1>2. PICK fd \in Fds :
          /\ Open(Scanned, fd)
          /\ descriptors_by_file_name' = [descriptors_by_file_name EXCEPT ![Scanned] = fd]
          /\ file_names_by_descriptor' = [file_names_by_descriptor EXCEPT ![fd] = Scanned]
          /\ file_modes' = [file_modes EXCEPT ![fd] = found]
    BY DEF AddWatch
  <1>3. /\ KernelTypeOK'
        /\ descriptors_by_file_name' \in [Paths -> 0 .. MaxFds]
        /\ file_names_by_descriptor' \in [Fds -> Paths \cup {Unknown}]
        /\ Tracked' = Tracked \cup {fd}
        /\ NoDescriptorLeaks' /\ MapsInverse' /\ NotesRegistered'
    BY <1>1, <1>2, AddWatchEffect
  <1>4. file_modes' \in [Fds -> BOOLEAN]
    BY <1>2 DEF IInv, TypeOK
  <1>5. /\ pc' \in {"list", "scan"}
        /\ todo' \in Seq(Paths)
        /\ pc' = "list" => todo' # <<>>
        /\ UNCHANGED <<kq, root, caller, found, marks, history>>
    BY <1>1, ScannedTyped DEF AddWatch, IInv, TypeOK
  <1>6. TypeOK'
    BY <1>3, <1>4, <1>5 DEF IInv, TypeOK, marks, history
  <1>7. MarksWorkedOff'
    BY <1>1, <1>5 DEF IInv, MarksWorkedOff, marks
  <1>8. ScanShape'
    BY <1>5 DEF ScanShape
  <1> QED
    BY <1>3, <1>6, <1>7, <1>8 DEF IInv

LEMMA ScanListHolds == IInv /\ ScanList => IInv'
  <1> SUFFICES ASSUME IInv, ScanList PROVE IInv'
    OBVIOUS
  <1>1. /\ pc = "list" /\ pc' = "scan" /\ todo # <<>>
        /\ UNCHANGED <<kernelVars, kq, root, caller, found, tables, marks, history>>
    BY DEF ScanList, IInv, ScanShape
  <1>2. NoDescriptorLeaks' /\ MapsInverse' /\ NotesRegistered' /\ Tracked' = Tracked
    BY <1>1, TablesKept DEF kernelVars
  <1>3. todo' \in Seq(Paths)
    <2>1. PICK names \in SetToSeqs(Children(Scanned)) :
            todo' = [i \in DOMAIN names |-> Append(Scanned, names[i])] \o Tail(todo)
      BY DEF ScanList
    <2>2. [i \in DOMAIN names |-> Append(Scanned, names[i])] \in Seq(Paths)
      BY <1>1, ChildrenTyped DEF IInv
    <2>3. Tail(todo) \in Seq(Paths)
      BY <1>1, ScannedTyped DEF IInv
    <2> QED
      BY <2>1, <2>2, <2>3, ConcatProperties
  <1>4. TypeOK'
    BY <1>1, <1>2, <1>3
    DEF IInv, TypeOK, KernelTypeOK, TreeTypeOK, kernelVars, treeVars, tables, marks, history
  <1> QED
    BY <1>1, <1>2, <1>4 DEF IInv, MarksWorkedOff, ScanShape, marks

LEMMA VisitRootHolds == IInv /\ VisitRoot => IInv'
  <1> SUFFICES ASSUME IInv, VisitRoot PROVE IInv'
    OBVIOUS
  <1>1. /\ pc = "roots" /\ root <= Len(Roots) /\ root' = root + 1
        /\ UNCHANGED <<kernelVars, kq, found, tables, marks, history>>
    BY DEF VisitRoot
  <1>2. NoDescriptorLeaks' /\ MapsInverse' /\ NotesRegistered' /\ Tracked' = Tracked
    BY <1>1, TablesKept DEF kernelVars
  <1>3. root \in 1 .. Len(Roots) /\ root' \in 1 .. Len(Roots) + 1
    BY <1>1, MonitorAssumption, LenProperties DEF IInv, TypeOK
  <1>4. /\ pc' \in {"roots", "scan"}
        /\ todo' \in Seq(Paths)
        /\ caller' \in {"rescan", "roots"}
        /\ pc' = "scan" => caller' = "roots"
    BY <1>1, <1>3, RootTyped DEF VisitRoot, IInv, TypeOK
  <1>5. TypeOK'
    BY <1>1, <1>2, <1>3, <1>4
    DEF IInv, TypeOK, KernelTypeOK, TreeTypeOK, kernelVars, treeVars, tables, marks, history
  <1> QED
    BY <1>1, <1>2, <1>4, <1>5 DEF IInv, MarksWorkedOff, ScanShape, marks

LEMMA RegisterWatchesHolds == IInv /\ RegisterWatches => IInv'
  <1> SUFFICES ASSUME IInv, RegisterWatches PROVE IInv'
    OBVIOUS
  <1>1. /\ pc = "register" /\ pc' \in {"remove", "wait"}
        /\ registered' = registered \cup Tracked
        /\ UNCHANGED <<treeVars, open, notes>>
        /\ UNCHANGED <<kq, scanVars, tables, marks, history>>
    BY DEF RegisterWatches, Register
  <1>2. Tracked' = Tracked /\ Tracked \subseteq Fds
    BY <1>1 DEF Tracked, tables
  <1>3. NoDescriptorLeaks' /\ MapsInverse' /\ NotesRegistered'
    BY <1>1, <1>2
    DEF IInv, NoDescriptorLeaks, MapsInverse, NotesRegistered, is_path_watched, tables
  <1>4. TypeOK'
    BY <1>1, <1>2
    DEF IInv, TypeOK, KernelTypeOK, TreeTypeOK, treeVars, scanVars, tables, marks, history
  <1> QED
    BY <1>1, <1>3, <1>4 DEF IInv, MarksWorkedOff, ScanShape, marks

LEMMA ProcessEventsHolds == IInv /\ (ProcessEvents \/ CallbackFails) => IInv'
  <1> SUFFICES ASSUME IInv, ProcessEvents \/ CallbackFails PROVE IInv'
    OBVIOUS
  <1>1. /\ pc = "wait" /\ pc' \in {"remove", "failed"}
        /\ notes' = [fd \in Fds |-> {}]
        /\ UNCHANGED <<treeVars, open, registered, kq, scanVars, tables, missed>>
        /\ descriptors_to_remove' = descriptors_to_remove \cup ToRemove
        /\ descriptors_to_rescan' = descriptors_to_rescan \cup ToRescan
        /\ owed' = owed \ Told
    BY DEF ProcessEvents, CallbackFails, process_events, Collect
  <1>2. descriptors_to_remove = {} /\ descriptors_to_rescan = {}
    BY <1>1 DEF IInv, MarksWorkedOff
  <1>3. ToRemove \cap ToRescan = {} /\ ToRemove \cup ToRescan \subseteq Tracked
    BY DEF ToRemove, ToRescan, IInv, NotesRegistered, NoDescriptorLeaks
  <1>4. Tracked' = Tracked
    BY <1>1 DEF Tracked, tables
  <1>5. NoDescriptorLeaks' /\ MapsInverse' /\ NotesRegistered'
    BY <1>1, <1>4
    DEF IInv, NoDescriptorLeaks, MapsInverse, NotesRegistered, is_path_watched, tables
  <1>6. KernelTypeOK'
    BY <1>1 DEF IInv, TypeOK, KernelTypeOK, TreeTypeOK, treeVars
  <1>7. TypeOK'
    BY <1>1, <1>2, <1>3, <1>4, <1>6 DEF IInv, TypeOK, scanVars, tables
  <1> QED
    BY <1>1, <1>5, <1>7 DEF IInv, MarksWorkedOff, ScanShape

(* The steps that only move on in the loop.                                 *)
LEMMA ControlHolds ==
  ASSUME IInv,
         UNCHANGED <<kernelVars, found, tables, marks, owed>>,
         missed' \in BOOLEAN,
         kq' \in BOOLEAN,
         root' \in {root, 1},
         todo' \in Seq(Paths),
         UNCHANGED caller,
         \/ pc \in {"start", "wait", "failed", "register"}
              /\ pc' \in {"start", "failed", "remove"}
         \/ pc = "remove" /\ descriptors_to_remove = {} /\ pc' = "rescan"
         \/ pc = "rescan" /\ descriptors_to_rescan = {} /\ pc' = "roots"
         \/ pc = "roots" /\ pc' = "register"
         \/ pc = "open" /\ pc' = "scan"
         \/ pc = "scan" /\ pc' = caller
  PROVE  IInv'
  <1>1. NoDescriptorLeaks' /\ MapsInverse' /\ NotesRegistered' /\ Tracked' = Tracked
    BY TablesKept DEF kernelVars
  <1>2. root' \in 1 .. Len(Roots) + 1
    BY MonitorAssumption, LenProperties DEF IInv, TypeOK
  <1>3. pc' \in {"start", "remove", "rescan", "roots", "scan", "register", "wait", "failed"}
    BY DEF IInv, TypeOK
  <1>4. TypeOK'
    BY <1>1, <1>2, <1>3
    DEF IInv, TypeOK, KernelTypeOK, TreeTypeOK, kernelVars, treeVars, tables, marks, history
  <1>5. MarksWorkedOff'
    BY DEF IInv, TypeOK, MarksWorkedOff, marks
  <1>6. ScanShape'
    BY <1>3 DEF ScanShape
  <1> QED
    BY <1>1, <1>4, <1>5, <1>6 DEF IInv

LEMMA NextHolds == IInv /\ [Next]_vars => IInv'
  <1> SUFFICES ASSUME IInv, [Next]_vars PROVE IInv'
    OBVIOUS
  <1>1. /\ root \in {root, 1} /\ 1 \in {root, 1}
        /\ todo \in Seq(Paths)
        /\ kq \in BOOLEAN /\ missed \in BOOLEAN
    BY DEF IInv, TypeOK
  <1>2. CASE InitializeKqueue \/ AlreadyRunning
    BY <1>1, <1>2, ControlHolds DEF InitializeKqueue, AlreadyRunning, scanVars, history
  <1>3. CASE RemoveDeleted
    BY <1>3, RemoveDeletedHolds
  <1>4. CASE AllRemoved
    BY <1>1, <1>4, ControlHolds DEF AllRemoved, scanVars, history
  <1>5. CASE RescanPending
    BY <1>5, RescanPendingHolds
  <1>6. CASE AllRescanned
    BY <1>1, <1>6, ControlHolds DEF AllRescanned, history
  <1>7. CASE VisitRoot
    BY <1>7, VisitRootHolds
  <1>8. CASE RootsVisited
    BY <1>1, <1>8, ControlHolds DEF RootsVisited, scanVars, history
  <1>9. CASE ScanStat
    BY <1>9, ScanStatHolds
  <1>10. CASE AddWatch
    BY <1>10, AddWatchHolds
  <1>11. CASE AddWatchFails
    <2>1. Tail(todo) \in Seq(Paths)
      BY <1>11, ScannedTyped DEF AddWatchFails, IInv, ScanShape
    <2> QED
      BY <1>1, <1>11, <2>1, ControlHolds DEF AddWatchFails
  <1>12. CASE ScanList
    BY <1>12, ScanListHolds
  <1>13. CASE ScanDone
    BY <1>1, <1>13, ControlHolds DEF ScanDone, scanVars, history
  <1>14. CASE RegisterWatches
    BY <1>14, RegisterWatchesHolds
  <1>15. CASE ProcessEvents \/ CallbackFails
    BY <1>15, ProcessEventsHolds
  <1>16. CASE WaitFails \/ Restart
    BY <1>1, <1>16, ControlHolds DEF WaitFails, Restart, scanVars, history
  <1>17. CASE ChangeTree
    BY <1>17, ChangeTreeHolds
  <1>18. CASE UNCHANGED vars
    BY <1>18
    DEF vars, monitorVars, kernelVars, treeVars, scanVars, tables, marks, history, IInv,
        TypeOK, KernelTypeOK, TreeTypeOK, NoDescriptorLeaks, MapsInverse, NotesRegistered,
        MarksWorkedOff, ScanShape, Tracked, is_path_watched, Scanned
  <1> QED
    BY <1>2, <1>3, <1>4, <1>5, <1>6, <1>7, <1>8, <1>9, <1>10, <1>11, <1>12, <1>13, <1>14,
       <1>15, <1>16, <1>17, <1>18
    DEF Next, MonitorStep

(* The tables, the marks, the notes of the kernel and the position in the   *)
(* loop stay in step, however system calls of run and changes of the tree   *)
(* interleave.                                                              *)
THEOREM KqueueInvariant == Spec => []IInv
  <1> QED
    BY InitHolds, NextHolds, PTL DEF Spec

(* Types; a marked descriptor is one the monitor has, marked once.          *)
THEOREM KqueueTypeOK == Spec => []TypeOK
  <1>1. IInv => TypeOK
    BY DEF IInv
  <1> QED
    BY <1>1, KqueueInvariant, PTL

(* The monitor never loses a descriptor and never uses one it has closed,   *)
(* with any number of descriptors.                                          *)
THEOREM KqueueNoDescriptorLeaks == Spec => []NoDescriptorLeaks
  <1>1. IInv => NoDescriptorLeaks
    BY DEF IInv
  <1> QED
    BY <1>1, KqueueInvariant, PTL

-----------------------------------------------------------------------------
(* The refinement.                                                          *)

FdWatches == {<<file_names_by_descriptor[fd], fd>> : fd \in Tracked}

PathWatches ==
  {<<p, descriptors_by_file_name[p]>> : p \in {q \in Paths : is_path_watched(q)}}

LEMMA WatchesAre == watches = FdWatches \cup PathWatches
  BY DEF watches, FdWatches, PathWatches

LEMMA WatchesBecome == watches' = FdWatches' \cup PathWatches'
  BY DEF watches, FdWatches, PathWatches

LEMMA InitRefines == Init => Table!Init
  BY DEF Init, Tracked, is_path_watched, Table!Init, watches

LEMMA WatchStep ==
  ASSUME IInv, AddWatch
  PROVE  Table!Next
  <1>1. pc = "open"
    BY DEF AddWatch
  <1>2. PICK fd \in Fds :
          /\ Open(Scanned, fd)
          /\ descriptors_by_file_name' = [descriptors_by_file_name EXCEPT ![Scanned] = fd]
          /\ file_names_by_descriptor' = [file_names_by_descriptor EXCEPT ![fd] = Scanned]
    BY DEF AddWatch
  <1> DEFINE p == Scanned
  <1>3. /\ p \in Paths /\ fd \notin Tracked /\ ~is_path_watched(p)
        /\ Tracked' = Tracked \cup {fd}
    BY <1>1, <1>2, AddWatchEffect
  <1> HIDE DEF p
  <1>4. /\ descriptors_by_file_name' = [descriptors_by_file_name EXCEPT ![p] = fd]
        /\ file_names_by_descriptor' = [file_names_by_descriptor EXCEPT ![fd] = p]
        /\ descriptors_by_file_name \in [Paths -> 0 .. MaxFds]
        /\ file_names_by_descriptor \in [Fds -> Paths \cup {Unknown}]
    BY <1>2 DEF p, IInv, TypeOK
  <1>5. FdWatches' = FdWatches \cup {<<p, fd>>}
    <2>1. \A k \in Tracked : file_names_by_descriptor'[k] = file_names_by_descriptor[k]
      BY <1>3, <1>4 DEF Tracked
    <2>2. file_names_by_descriptor'[fd] = p
      BY <1>4
    <2> QED
      BY <1>3, <2>1, <2>2 DEF FdWatches
  <1>6. PathWatches' = PathWatches \cup {<<p, fd>>}
    <2>1. \A q \in Paths : q # p => descriptors_by_file_name'[q] = descriptors_by_file_name[q]
      BY <1>4
    <2>2. descriptors_by_file_name'[p] = fd /\ fd # 0
      BY <1>3, <1>4, KernelAssumption DEF Fds
    <2>3. {q \in Paths : is_path_watched(q)}' = {q \in Paths : is_path_watched(q)} \cup {p}
      BY <1>3, <2>1, <2>2 DEF is_path_watched
    <2>4. \A q \in {r \in Paths : is_path_watched(r)} : q # p
      BY <1>3
    <2> QED
      BY <2>1, <2>2, <2>3, <2>4 DEF PathWatches
  <1>7. \A w \in FdWatches \cup PathWatches : w[1] # p /\ w[2] # fd
    <2>1. ASSUME NEW k \in Tracked PROVE file_names_by_descriptor[k] # p /\ k # fd
      <3>1. descriptors_by_file_name[file_names_by_descriptor[k]] = k
        BY DEF IInv, MapsInverse
      <3>2. k # 0
        BY KernelAssumption DEF Tracked, Fds
      <3> QED
        BY <1>3, <3>1, <3>2 DEF is_path_watched
    <2>2. ASSUME NEW q \in Paths, is_path_watched(q)
          PROVE  q # p /\ descriptors_by_file_name[q] # fd
      <3>1. file_names_by_descriptor[descriptors_by_file_name[q]] = q
        BY <2>2 DEF IInv, MapsInverse
      <3>2. file_names_by_descriptor[fd] = Unknown
        BY <1>3 DEF Tracked
      <3> QED
        BY <1>3, <2>2, <3>1, <3>2, MonitorAssumption
    <2> QED
      BY <2>1, <2>2 DEF FdWatches, PathWatches
  <1>8. Table!Watch(p, fd)
    BY <1>5, <1>6, <1>7, WatchesAre, WatchesBecome DEF Table!Watch
  <1> QED
    BY <1>3, <1>8 DEF Table!Next

LEMMA UnwatchStep ==
  ASSUME IInv, NEW fd \in Tracked, remove_watch(file_names_by_descriptor[fd], fd)
  PROVE  Table!Next
  <1> DEFINE p == file_names_by_descriptor[fd]
  <1>1. /\ p \in Paths /\ fd \in Fds
        /\ descriptors_by_file_name[p] = fd
        /\ Tracked' = Tracked \ {fd}
    BY RemoveWatchEffect DEF Tracked, IInv, TypeOK, MapsInverse
  <1>2. /\ descriptors_by_file_name' =
             [q \in Paths |-> IF q = p THEN 0 ELSE descriptors_by_file_name[q]]
        /\ file_names_by_descriptor' =
             [k \in Fds |-> IF k = fd THEN Unknown ELSE file_names_by_descriptor[k]]
    BY DEF remove_watch
  <1>3. <<p, fd>> \in FdWatches
    BY DEF FdWatches
  <1> HIDE DEF p
  <1>4. FdWatches' = FdWatches \ {<<p, fd>>}
    <2>1. \A k \in Tracked \ {fd} : file_names_by_descriptor'[k] = file_names_by_descriptor[k]
      BY <1>2 DEF Tracked
    <2>2. \A k \in Tracked : <<file_names_by_descriptor[k], k>> = <<p, fd>> <=> k = fd
      BY DEF p
    <2> QED
      BY <1>1, <2>1, <2>2 DEF FdWatches
  <1>5. PathWatches' = PathWatches \ {<<p, fd>>}
    <2>1. \A q \in Paths : q # p => descriptors_by_file_name'[q] = descriptors_by_file_name[q]
      BY <1>2
    <2>2. descriptors_by_file_name'[p] = 0
      BY <1>1, <1>2
    <2>3. {q \in Paths : is_path_watched(q)}' = {q \in Paths : is_path_watched(q)} \ {p}
      BY <2>1, <2>2 DEF is_path_watched
    <2>4. \A q \in Paths : <<q, descriptors_by_file_name[q]>> = <<p, fd>> <=> q = p
      BY <1>1
    <2> QED
      BY <2>1, <2>3, <2>4 DEF PathWatches
  <1>6. <<p, fd>> \in watches /\ watches' = watches \ {<<p, fd>>}
    BY <1>3, <1>4, <1>5, WatchesAre, WatchesBecome
  <1>7. \E w \in watches : Table!Unwatch(w[1], w[2])
    BY <1>6 DEF Table!Unwatch
  <1> QED
    BY <1>7 DEF Table!Next

LEMMA Stutters ==
  ASSUME UNCHANGED tables
  PROVE  UNCHANGED watches
  BY DEF tables, watches, Tracked, is_path_watched

LEMMA StepRefines ==
  ASSUME IInv, [Next]_vars
  PROVE  [Table!Next]_watches
  <1>1. CASE AddWatch
    BY <1>1, WatchStep
  <1>2. CASE RemoveDeleted
    <2>1. PICK fd \in descriptors_to_remove : remove_watch(file_names_by_descriptor[fd], fd)
      BY <1>2 DEF RemoveDeleted
    <2> QED
      BY <2>1, UnwatchStep DEF IInv, TypeOK
  <1>3. CASE RescanPending
    <2>1. PICK fd \in Tracked : remove_watch(file_names_by_descriptor[fd], fd)
      BY <1>3, RescanRemoves
    <2> QED
      BY <2>1, UnwatchStep
  <1>4. CASE ~(AddWatch \/ RemoveDeleted \/ RescanPending)
    <2>1. UNCHANGED tables
      BY <1>4
      DEF Next, MonitorStep, ChangeTree, monitorVars, vars, InitializeKqueue, AlreadyRunning,
          AllRemoved, AllRescanned, VisitRoot, RootsVisited, ScanStat, AddWatchFails,
          ScanList, ScanDone, RegisterWatches, ProcessEvents, CallbackFails, process_events,
          WaitFails, Restart
    <2> QED
      BY <2>1, Stutters
  <1> QED
    BY <1>1, <1>2, <1>3, <1>4

(* The maps of the monitor are a table of watches: no path is given a       *)
(* second descriptor, no descriptor a second path, and a watch only comes   *)
(* and goes as a whole, whatever is renamed, replaced or found again.       *)
THEOREM KqueueImplementsWatchTable == Spec => ImplementsWatchTable
  <1>1. Spec => Table!Init /\ [][Table!Next]_watches
    BY InitRefines, StepRefines, KqueueInvariant, PTL DEF Spec
  <1> QED
    BY <1>1 DEF ImplementsWatchTable, Table!Spec

-----------------------------------------------------------------------------
(* What is owed to the callback is noted.                                   *)

OwedNoted == ChangesNoted /\ owed \cap Rejected = {}

(* Changes of the tree only add to the notes. *)
LEMMA NotesGrow ==
  ASSUME IInv, ChangeTree
  PROVE  /\ \A fd \in Fds : notes[fd] \subseteq notes'[fd]
         /\ UNCHANGED <<open, registered>>
  <1>1. (\E new : Noted(new)) /\ UNCHANGED <<open, registered>>
    <2>1. CASE \E p \in Paths : Write(p)
      BY <2>1 DEF Write
    <2>2. CASE \E p \in Paths : Create(p) \/ Delete(p)
      BY <2>2 DEF Create, Delete
    <2>3. CASE \E p, q \in Paths : Rename(p, q) \/ Replace(p, q)
      BY <2>3 DEF Rename, Replace
    <2> QED
      BY <2>1, <2>2, <2>3 DEF ChangeTree
  <1> QED
    BY <1>1 DEF Noted

(* A descriptor that is neither marked nor new keeps what is known of it.   *)
LEMMA StaysNoted ==
  ASSUME IInv, OwedNoted, owed' \subseteq owed,
         \A fd \in registered \ (descriptors_to_remove \cup descriptors_to_rescan) :
           /\ fd \in registered' \ (descriptors_to_remove \cup descriptors_to_rescan)'
           /\ file_names_by_descriptor'[fd] = file_names_by_descriptor[fd]
           /\ notes[fd] # {} => notes'[fd] # {}
  PROVE  OwedNoted'
  BY DEF OwedNoted, ChangesNoted

LEMMA OwedNotedHolds == IInv /\ OwedNoted /\ [Next]_vars => OwedNoted'
  <1> SUFFICES ASSUME IInv, OwedNoted, [Next]_vars PROVE OwedNoted'
    OBVIOUS
  <1> DEFINE Quiet == UNCHANGED <<registered, notes, file_names_by_descriptor, marks, owed>>
  <1>1. Quiet => OwedNoted'
    BY DEF OwedNoted, ChangesNoted, marks
  <1>2. CASE \/ InitializeKqueue \/ AlreadyRunning \/ AllRemoved \/ AllRescanned \/ VisitRoot
             \/ RootsVisited \/ ScanStat \/ AddWatchFails \/ ScanList \/ ScanDone
             \/ WaitFails \/ Restart \/ UNCHANGED vars
    <2>1. Quiet
      BY <1>2
      DEF InitializeKqueue, AlreadyRunning, AllRemoved, AllRescanned, VisitRoot, RootsVisited,
          ScanStat, AddWatchFails, ScanList, ScanDone, WaitFails, Restart, vars, kernelVars,
          monitorVars, tables, marks, history
    <2> QED
      BY <1>1, <2>1
  <1>3. CASE ChangeTree
    <2>1. \A fd \in Fds : notes[fd] \subseteq notes'[fd]
      BY <1>3, NotesGrow
    <2>2. UNCHANGED <<registered, file_names_by_descriptor, marks>> /\ registered \subseteq Fds
      BY <1>3, NotesGrow DEF ChangeTree, monitorVars, tables, IInv, TypeOK, KernelTypeOK
    <2>3. CASE owed' = owed
      <3>1. \A fd \in registered \ (descriptors_to_remove \cup descriptors_to_rescan) :
              /\ fd \in registered' \ (descriptors_to_remove \cup descriptors_to_rescan)'
              /\ file_names_by_descriptor'[fd] = file_names_by_descriptor[fd]
              /\ notes[fd] # {} => notes'[fd] # {}
        BY <2>1, <2>2 DEF marks
      <3> QED
        BY <2>3, <3>1, StaysNoted
    <2>4. CASE \E p \in Paths : Write(p) /\ MustReport(p) /\ owed' = owed \cup {p}
      <3>1. PICK p \in Paths : Write(p) /\ MustReport(p) /\ owed' = owed \cup {p}
        BY <2>4
      <3>2. PICK n \in Inodes : WriteNode(p, n) /\ Noted(Note({n}, "WRITE"))
        BY <3>1 DEF Write
      <3>3. PICK fd \in registered \ (descriptors_to_remove \cup descriptors_to_rescan) :
              open[fd] = Resolve(p) /\ file_names_by_descriptor[fd] = p
        BY <3>1 DEF MustReport, Settled
      <3>4. "WRITE" \in notes'[fd]
        BY <2>2, <3>2, <3>3 DEF WriteNode, Noted, Note
      <3>5. p \notin Rejected
        BY <3>1 DEF MustReport
      <3> QED
        BY <2>1, <2>2, <3>1, <3>3, <3>4, <3>5 DEF OwedNoted, ChangesNoted, marks
    <2> QED
      BY <1>3, <2>3, <2>4 DEF ChangeTree
  <1>4. ASSUME NEW fd, remove_watch(file_names_by_descriptor[fd], fd),
               fd \in descriptors_to_remove \cup descriptors_to_rescan,
               descriptors_to_remove' \subseteq descriptors_to_remove,
               descriptors_to_rescan' \subseteq descriptors_to_rescan,
               owed' = owed
        PROVE  OwedNoted'
    <2>1. registered \subseteq Fds
      BY DEF IInv, TypeOK, KernelTypeOK
    <2>2. \A k \in registered \ {fd} :
            /\ k \in registered'
            /\ file_names_by_descriptor'[k] = file_names_by_descriptor[k]
            /\ notes'[k] = notes[k]
      BY <1>4, <2>1 DEF remove_watch, Close
    <2> QED
      BY <1>4, <2>2, StaysNoted
  <1>5. CASE RemoveDeleted
    <2>1. PICK fd \in descriptors_to_remove :
            /\ remove_watch(file_names_by_descriptor[fd], fd)
            /\ descriptors_to_remove' = descriptors_to_remove \ {fd}
      BY <1>5 DEF RemoveDeleted
    <2>2. UNCHANGED <<descriptors_to_rescan, owed>>
      BY <1>5 DEF RemoveDeleted, history
    <2> QED
      BY <1>4, <2>1, <2>2
  <1>6. CASE RescanPending
    <2>1. PICK fd \in descriptors_to_rescan :
            /\ remove_watch(file_names_by_descriptor[fd], fd)
            /\ descriptors_to_rescan' = descriptors_to_rescan \ {fd}
      BY <1>6, RescanRemoves
    <2>2. UNCHANGED <<descriptors_to_remove, owed>>
      BY <1>6 DEF RescanPending, history
    <2> QED
      BY <1>4, <2>1, <2>2
  <1>7. CASE AddWatch
    <2>1. PICK fd \in Fds :
            /\ Open(Scanned, fd)
            /\ descriptors_by_file_name' = [descriptors_by_file_name EXCEPT ![Scanned] = fd]
            /\ file_names_by_descriptor' = [file_names_by_descriptor EXCEPT ![fd] = Scanned]
      BY <1>7 DEF AddWatch
    <2>2. fd \notin Tracked
      BY <1>7, <2>1, AddWatchEffect DEF AddWatch
    <2>3. UNCHANGED <<registered, notes, marks, owed>>
      BY <1>7, <2>1 DEF AddWatch, Open, history
    <2>4. \A k \in registered : file_names_by_descriptor'[k] = file_names_by_descriptor[k]
      BY <2>1, <2>2 DEF IInv, TypeOK, KernelTypeOK, NoDescriptorLeaks
    <2> QED
      BY <2>3, <2>4, StaysNoted DEF marks
  <1>8. CASE RegisterWatches
    <2>1. registered \subseteq registered' /\ UNCHANGED <<notes, tables, marks, owed>>
      BY <1>8 DEF RegisterWatches, Register, history
    <2> QED
      BY <2>1, StaysNoted DEF marks, tables
  <1>9. CASE ProcessEvents \/ CallbackFails
    <2>1. owed' = owed \ Told
      BY <1>9 DEF ProcessEvents, CallbackFails, process_events
    <2>2. ASSUME NEW p \in owed PROVE p \in Told
      <3>1. PICK fd \in registered : file_names_by_descriptor[fd] = p /\ notes[fd] # {}
        BY DEF OwedNoted, ChangesNoted
      <3>2. fd \in Reported /\ p \notin Rejected
        BY <3>1 DEF Reported, OwedNoted, IInv, TypeOK, KernelTypeOK
      <3> QED
        BY <3>1, <3>2 DEF Told
    <2> QED
      BY <2>1, <2>2 DEF OwedNoted, ChangesNoted
  <1> QED
    BY <1>2, <1>3, <1>5, <1>6, <1>7, <1>8, <1>9 DEF Next, MonitorStep

(* What the callback must hear of is noted for a descriptor that has the    *)
(* path and is not going to lose it before kevent returns, for every tree   *)
(* and every order of changes and system calls.                             *)
THEOREM KqueueChangesNoted == Spec => []ChangesNoted
  <1>1. Init => OwedNoted
    BY DEF Init, OwedNoted, ChangesNoted
  <1>2. OwedNoted => ChangesNoted
    BY DEF OwedNoted
  <1> QED
    BY <1>1, <1>2, OwedNotedHolds, KqueueInvariant, PTL DEF Spec

-----------------------------------------------------------------------------
(* What holds whether or not the monitor missed something.                  *)

In(p, s) == \E i \in DOMAIN s : s[i] = p

(* What the monitor watches and is about to scan is below the roots.        *)
Below(p) == \E i \in DOMAIN Roots : p = Roots[i] \/ (Recursive /\ IsPrefix(Roots[i], p))

OnlyBelow ==
  /\ \A fd \in Tracked : Below(file_names_by_descriptor[fd])
  /\ \A p \in Paths : In(p, todo) => Below(p)

(* The position in the loop. *)
LoopKnown ==
  /\ pc \notin {"start", "failed"} => kq
  /\ ~kq => Tracked = {}
  /\ pc \notin {"scan", "open", "list"} => todo = <<>>
  /\ pc = "open" => found \/ Scanned \notin Rejected
  /\ pc = "list" => Recursive /\ is_path_watched(Scanned)
  /\ pc = "register" => root > Len(Roots)
  /\ pc = "wait" => Tracked \subseteq registered

(* A descriptor that is taken for one of a file has a path that is accepted. *)
ModesAllowed == \A fd \in Tracked : file_modes[fd] \/ file_names_by_descriptor[fd] \notin Rejected

(* An inode of which a deletion is noted is in no seat and does not come    *)
(* back.                                                                    *)
DeletedGone ==
  \A fd \in Fds : "DELETE" \in notes[fd] => open[fd] \in Inodes /\ seat[open[fd]] = Nowhere

FactsInv ==
  /\ SeatsDistinct
  /\ NoOrphans
  /\ OnlyBelow
  /\ LoopKnown
  /\ ModesAllowed
  /\ DeletedGone

(* Sequences of paths. *)
LEMMA InHead ==
  ASSUME NEW s \in Seq(Paths), s # <<>>, NEW p
  PROVE  In(p, s) <=> p = Head(s) \/ In(p, Tail(s))
  <1>1. /\ Len(s) \in Nat \ {0} /\ DOMAIN s = 1 .. Len(s) /\ Head(s) = s[1]
        /\ DOMAIN Tail(s) = 1 .. Len(s) - 1
        /\ \A i \in 1 .. Len(s) - 1 : Tail(s)[i] = s[i + 1]
    BY HeadTailProperties
  <1>2. In(p, s) => p = Head(s) \/ In(p, Tail(s))
    <2>1. SUFFICES ASSUME NEW i \in 1 .. Len(s), s[i] = p, i # 1
                   PROVE  In(p, Tail(s))
      BY <1>1 DEF In
    <2>2. i - 1 \in 1 .. Len(s) - 1 /\ i - 1 + 1 = i
      BY <1>1, <2>1
    <2> QED
      BY <1>1, <2>1, <2>2 DEF In
  <1>3. In(p, Tail(s)) => In(p, s)
    <2>1. SUFFICES ASSUME NEW i \in 1 .. Len(s) - 1, Tail(s)[i] = p
                   PROVE  In(p, s)
      BY <1>1 DEF In
    <2>2. i + 1 \in 1 .. Len(s)
      BY <1>1, <2>1
    <2> QED
      BY <1>1, <2>1, <2>2 DEF In
  <1>4. In(Head(s), s)
    BY <1>1 DEF In
  <1> QED
    BY <1>2, <1>3, <1>4

LEMMA InNone == \A p : ~In(p, <<>>)
  BY DEF In

LEMMA InOne == ASSUME NEW p, NEW q PROVE In(p, <<q>>) <=> p = q
  BY DEF In

LEMMA InConcat ==
  ASSUME NEW s \in Seq(Paths), NEW t \in Seq(Paths), NEW p
  PROVE  In(p, s \o t) <=> In(p, s) \/ In(p, t)
  <1> DEFINE m == Len(s)
             n == Len(t)
             u == s \o t
  <1>1. /\ m \in Nat /\ n \in Nat
        /\ DOMAIN s = 1 .. m /\ DOMAIN t = 1 .. n /\ DOMAIN u = 1 .. m + n
        /\ \A i \in 1 .. m : u[i] = s[i]
        /\ \A i \in m + 1 .. m + n : u[i] = t[i - m]
    BY ConcatProperties, LenProperties
  <1> HIDE DEF m, n, u
  <1>2. \A i \in 1 .. m : i \in 1 .. m + n
    BY <1>1
  <1>3. \A i \in 1 .. n : m + i \in m + 1 .. m + n /\ m + i \in 1 .. m + n /\ m + i - m = i
    BY <1>1
  <1>4. \A i \in 1 .. m + n : i \in 1 .. m \/ (i \in m + 1 .. m + n /\ i - m \in 1 .. n)
    BY <1>1
  <1>5. In(p, u) => In(p, s) \/ In(p, t)
    BY <1>1, <1>4 DEF In
  <1>6. In(p, s) => In(p, u)
    BY <1>1, <1>2 DEF In
  <1>7. In(p, t) => In(p, u)
    <2>1. SUFFICES ASSUME NEW i \in 1 .. n, t[i] = p PROVE In(p, u)
      BY <1>1 DEF In
    <2>2. u[m + i] = p /\ m + i \in DOMAIN u
      BY <1>1, <1>3, <2>1
    <2> QED
      BY <2>2 DEF In
  <1> QED
    BY <1>5, <1>6, <1>7 DEF u

LEMMA InChildren ==
  ASSUME NEW p, NEW names \in SetToSeqs(Children(p)), NEW c
  PROVE  In(c, [i \in DOMAIN names |-> Append(p, names[i])])
           <=> \E name \in Children(p) : c = Append(p, name)
  <1> DEFINE C == Children(p)
             n == Cardinality(C)
             s == [i \in DOMAIN names |-> Append(p, names[i])]
  <1>1. IsFiniteSet(C) /\ n \in Nat
    BY TreeAssumption, FS_Subset, FS_CardinalityType DEF Children
  <1>2. names \in [1 .. n -> C] /\ \A i, j \in 1 .. n : i # j => names[i] # names[j]
    BY DEF SetToSeqs
  <1> HIDE DEF C, n
  <1>3. \A x \in C : \E i \in 1 .. n : names[i] = x
    <2>1. names \in Injection(1 .. n, C)
      BY <1>2 DEF Injection, IsInjective
    <2>2. Cardinality(1 .. n) = n
      BY <1>1, FS_Interval
    <2>3. names \in Surjection(1 .. n, C)
      BY <1>1, <2>1, <2>2, FS_Injection DEF n
    <2> QED
      BY <2>3 DEF Surjection
  <1>4. DOMAIN s = 1 .. n /\ \A i \in 1 .. n : s[i] = Append(p, names[i])
    BY <1>2
  <1> HIDE DEF s
  <1>5. In(c, s) <=> \E name \in C : c = Append(p, name)
    BY <1>2, <1>3, <1>4 DEF In
  <1> QED
    BY <1>5 DEF s, C

LEMMA BelowChild ==
  ASSUME NEW p \in Paths, NEW name \in Names, Below(p), Recursive
  PROVE  Below(Append(p, name))
  <1>1. PICK i \in DOMAIN Roots : p = Roots[i] \/ IsPrefix(Roots[i], p)
    BY DEF Below
  <1>2. Roots[i] \in Paths
    BY MonitorAssumption, ElementOfSeq, LenProperties
  <1> DEFINE r == Roots[i]
             c == Append(p, name)
  <1>3. /\ r \in Seq(Names) /\ p \in Seq(Names) /\ c \in Seq(Names)
        /\ Len(r) \in Nat /\ Len(p) \in Nat /\ Len(c) = Len(p) + 1
        /\ \A k \in 1 .. Len(p) : c[k] = p[k]
    BY <1>2, PathTyped, AppendProperties, TreeAssumption
  <1>4. Len(r) <= Len(p) /\ \A k \in 1 .. Len(r) : r[k] = p[k]
    <2>1. CASE p = r
      BY <1>3, <2>1
    <2>2. CASE IsPrefix(r, p)
      BY <1>3, <2>2, SubSeqProperties DEF IsPrefix
    <2> QED
      BY <1>1, <2>1, <2>2
  <1> HIDE DEF r, c
  <1>5. IsPrefix(r, c)
    BY <1>3, <1>4 DEF IsPrefix
  <1> QED
    BY <1>5 DEF Below, r, c

(* Changes of the tree. *)
LEMMA GoneStays ==
  ASSUME IInv, DeletedGone, NEW new, Noted(new), UNCHANGED open,
         \A fd \in Fds : "DELETE" \in new[fd] => open[fd] \in Inodes /\ seat'[open[fd]] = Nowhere,
         \A fd \in Fds : open[fd] \in Inodes /\ seat[open[fd]] = Nowhere => seat'[open[fd]] = Nowhere
  PROVE  DeletedGone'
  BY DEF DeletedGone, Noted

LEMMA NoDeleteNoted ==
  ASSUME NEW changed, NEW paths, NEW fd \in Fds
  PROVE  /\ "DELETE" \notin Note(changed, "WRITE")[fd]
         /\ "DELETE" \notin Note(changed, "RENAME")[fd]
         /\ "DELETE" \notin EntryNote(paths)[fd]
         /\ "DELETE" \in Note(changed, "DELETE")[fd] => open[fd] \in changed
  BY DEF Note, EntryNote

LEMMA TreeFacts ==
  ASSUME IInv, FactsInv, ChangeTree
  PROVE  TreeOK /\ TreeTypeOK' /\ SeatsDistinct' /\ NoOrphans' /\ DeletedGone'
  <1>1. TreeOK
    BY DEF IInv, TypeOK, KernelTypeOK, FactsInv, TreeOK
  <1>2. TreeTypeOK' /\ IInv'
    BY ChangeTreeHolds DEF IInv, TypeOK, KernelTypeOK
  <1>3. ASSUME NEW p \in Paths, Write(p)
        PROVE  SeatsDistinct' /\ NoOrphans' /\ DeletedGone'
    <2>1. PICK n \in Inodes : UNCHANGED <<seat, open>> /\ Noted(Note({n}, "WRITE"))
      BY <1>3 DEF Write, WriteNode
    <2>2. DeletedGone'
      BY <2>1, NoDeleteNoted, GoneStays DEF FactsInv
    <2> QED
      BY <2>1, <2>2 DEF FactsInv, SeatsDistinct, NoOrphans, Empty
  <1>4. ASSUME NEW p \in Paths, Create(p)
        PROVE  SeatsDistinct' /\ NoOrphans' /\ DeletedGone'
    <2>1. PICK n \in Inodes : (\A fd \in Fds : open[fd] # n) /\ MakeNode(p, n)
      BY <1>4 DEF Create
    <2>2. SeatsDistinct' /\ NoOrphans'
      BY <1>1, <2>1, MakeDistinct, MakeOrphans DEF TreeOK
    <2>3. Noted(EntryNote({p})) /\ UNCHANGED open
      BY <1>4 DEF Create
    <2>4. \A k \in Inodes : k # n => seat'[k] = seat[k]
      BY <1>1, <2>1 DEF MakeNode, TreeOK, TreeTypeOK
    <2>5. DeletedGone'
      BY <2>1, <2>3, <2>4, NoDeleteNoted, GoneStays DEF FactsInv
    <2> QED
      BY <2>2, <2>5
  <1>5. ASSUME NEW p \in Paths, Delete(p)
        PROVE  SeatsDistinct' /\ NoOrphans' /\ DeletedGone'
    <2>1. PICK n \in Inodes :
            DeleteNode(p, n) /\ Noted(Both(EntryNote({p}), Note({n}, "DELETE")))
      BY <1>5 DEF Delete
    <2>2. SeatsDistinct' /\ NoOrphans'
      BY <1>1, <2>1, DeleteDistinct, DeleteOrphans DEF TreeOK
    <2>3. seat' = [seat EXCEPT ![n] = Nowhere] /\ UNCHANGED open
      BY <1>5, <2>1 DEF Delete, DeleteNode
    <2>4. \A k \in Inodes : seat'[k] = IF k = n THEN Nowhere ELSE seat[k]
      BY <1>1, <2>3 DEF TreeOK, TreeTypeOK
    <2> DEFINE new == Both(EntryNote({p}), Note({n}, "DELETE"))
    <2>5. \A fd \in Fds : "DELETE" \in new[fd] => open[fd] = n
      BY NoDeleteNoted DEF Both
    <2> HIDE DEF new
    <2>6. DeletedGone'
      <3>1. Noted(new)
        BY <2>1 DEF new
      <3> QED
        BY <2>3, <2>4, <2>5, <3>1, GoneStays DEF FactsInv
    <2> QED
      BY <2>2, <2>6
  <1>6. ASSUME NEW p \in Paths, NEW q \in Paths, Rename(p, q)
        PROVE  SeatsDistinct' /\ NoOrphans' /\ DeletedGone'
    <2>1. PICK n \in Inodes :
            RenameNode(p, q, n) /\ Noted(Both(EntryNote({p, q}), Note({n}, "RENAME")))
      BY <1>6 DEF Rename
    <2>2. SeatsDistinct' /\ NoOrphans'
      BY <1>1, <2>1, RenameDistinct, RenameOrphans DEF TreeOK
    <2>3. /\ n = Resolve(p) /\ IsDir(Parent(p)) /\ UNCHANGED open
          /\ seat' = [seat EXCEPT ![n] = <<Parent(q), Last(q)>>]
      BY <1>6, <2>1 DEF Rename, RenameNode
    <2>4. seat[n] # Nowhere /\ \A k \in Inodes : k # n => seat'[k] = seat[k]
      <3>1. seat[n] # Nowhere
        BY <2>3, SeatOf
      <3> QED
        BY <1>1, <2>3, <3>1 DEF TreeOK, TreeTypeOK
    <2> DEFINE new == Both(EntryNote({p, q}), Note({n}, "RENAME"))
    <2>5. \A fd \in Fds : "DELETE" \notin new[fd]
      BY NoDeleteNoted DEF Both
    <2> HIDE DEF new
    <2>6. DeletedGone'
      <3>1. Noted(new)
        BY <2>1 DEF new
      <3> QED
        BY <2>3, <2>4, <2>5, <3>1, GoneStays DEF FactsInv
    <2> QED
      BY <2>2, <2>6
  <1>7. ASSUME NEW p \in Paths, NEW q \in Paths, Replace(p, q)
        PROVE  SeatsDistinct' /\ NoOrphans' /\ DeletedGone'
    <2>1. PICK n, m \in Inodes :
            /\ ReplaceNode(p, q, n, m)
            /\ Noted(Both(EntryNote({p, q}), Both(Note({n}, "RENAME"), Note({m}, "DELETE"))))
      BY <1>7 DEF Replace
    <2>2. SeatsDistinct' /\ NoOrphans'
      BY <1>1, <2>1, ReplaceDistinct, ReplaceOrphans DEF TreeOK
    <2>3. /\ n = Resolve(p) /\ IsDir(Parent(p)) /\ UNCHANGED open
          /\ seat' = [seat EXCEPT ![n] = seat[m], ![m] = Nowhere]
      BY <1>7, <2>1 DEF Replace, ReplaceNode
    <2>4. /\ seat[n] # Nowhere /\ seat'[m] = Nowhere
          /\ \A k \in Inodes : k \notin {n, m} => seat'[k] = seat[k]
      <3>1. seat[n] # Nowhere
        BY <2>3, SeatOf
      <3> QED
        BY <1>1, <2>3, <3>1 DEF TreeOK, TreeTypeOK
    <2> DEFINE new == Both(EntryNote({p, q}), Both(Note({n}, "RENAME"), Note({m}, "DELETE")))
    <2>5. \A fd \in Fds : "DELETE" \in new[fd] => open[fd] = m
      BY NoDeleteNoted DEF Both
    <2> HIDE DEF new
    <2>6. DeletedGone'
      <3>1. Noted(new)
        BY <2>1 DEF new
      <3>2. \A fd \in Fds : open[fd] \in Inodes /\ seat[open[fd]] = Nowhere => seat'[open[fd]] = Nowhere
        BY <2>4
      <3>3. \A fd \in Fds : "DELETE" \in new[fd] => open[fd] \in Inodes /\ seat'[open[fd]] = Nowhere
        BY <2>4, <2>5
      <3> QED
        BY <2>3, <3>1, <3>2, <3>3, GoneStays DEF FactsInv
    <2> QED
      BY <2>2, <2>6
  <1> QED
    BY <1>1, <1>2, <1>3, <1>4, <1>5, <1>6, <1>7 DEF ChangeTree

(* Lookup depends on the seats alone.                                       *)
LEMMA SameSeats ==
  ASSUME UNCHANGED seat
  PROVE  /\ \A s : Resolve(s)' = Resolve(s)
         /\ SeatsDistinct => SeatsDistinct'
         /\ NoOrphans => NoOrphans'
  BY DEF Resolve, Entry, SeatsDistinct, NoOrphans, Empty

(* Steps that leave the table alone.                                        *)
LEMMA FactsKept ==
  ASSUME IInv, FactsInv, UNCHANGED <<seat, open, notes, tables>>, LoopKnown',
         \A p \in Paths : In(p, todo') => In(p, todo) \/ Below(p)
  PROVE  FactsInv'
  <1>1. SeatsDistinct' /\ NoOrphans'
    BY SameSeats DEF FactsInv
  <1>2. Tracked' = Tracked
    BY DEF Tracked, tables
  <1>3. OnlyBelow'
    BY <1>2 DEF FactsInv, OnlyBelow, Below, In, tables
  <1>4. ModesAllowed' /\ DeletedGone'
    BY <1>2 DEF FactsInv, ModesAllowed, DeletedGone, tables
  <1> QED
    BY <1>1, <1>3, <1>4 DEF FactsInv

LEMMA RemoveFacts ==
  ASSUME IInv, FactsInv, NEW fd \in Tracked, remove_watch(file_names_by_descriptor[fd], fd),
         LoopKnown',
         \A p \in Paths : In(p, todo') => In(p, todo) \/ p = file_names_by_descriptor[fd]
  PROVE  FactsInv'
  <1>1. UNCHANGED seat /\ Tracked' = Tracked \ {fd}
    BY RemoveWatchEffect DEF remove_watch, Close, treeVars, IInv
  <1>2. /\ \A k \in Tracked \ {fd} :
             /\ file_names_by_descriptor'[k] = file_names_by_descriptor[k]
             /\ file_modes'[k] = file_modes[k]
        /\ \A k \in Fds : notes'[k] = IF k = fd THEN {} ELSE notes[k]
        /\ \A k \in Fds \ {fd} : open'[k] = open[k]
    BY DEF remove_watch, Close, Tracked
  <1>3. SeatsDistinct' /\ NoOrphans'
    BY <1>1, SameSeats DEF FactsInv
  <1>4. OnlyBelow'
    BY <1>1, <1>2 DEF FactsInv, OnlyBelow, Below, In
  <1>5. ModesAllowed' /\ DeletedGone'
    BY <1>1, <1>2 DEF FactsInv, ModesAllowed, DeletedGone
  <1> QED
    BY <1>3, <1>4, <1>5 DEF FactsInv

LEMMA AddWatchFacts == IInv /\ FactsInv /\ AddWatch => FactsInv'
  <1> SUFFICES ASSUME IInv, FactsInv, AddWatch PROVE FactsInv'
    OBVIOUS
  <1>1. pc = "open" /\ todo # <<>> /\ todo \in Seq(Paths)
    BY DEF AddWatch, IInv, ScanShape, TypeOK
  <1>2. PICK fd \in Fds :
          /\ Open(Scanned, fd)
          /\ descriptors_by_file_name' = [descriptors_by_file_name EXCEPT ![Scanned] = fd]
          /\ file_names_by_descriptor' = [file_names_by_descriptor EXCEPT ![fd] = Scanned]
          /\ file_modes' = [file_modes EXCEPT ![fd] = found]
    BY DEF AddWatch
  <1>3. /\ Scanned \in Paths /\ fd \notin Tracked /\ Tracked' = Tracked \cup {fd}
        /\ open[fd] = Closed
    BY <1>1, <1>2, AddWatchEffect DEF Open, FreeFds
  <1>4. /\ file_names_by_descriptor'[fd] = Scanned
        /\ file_modes'[fd] = found
        /\ \A k \in Tracked :
             /\ file_names_by_descriptor'[k] = file_names_by_descriptor[k]
             /\ file_modes'[k] = file_modes[k]
        /\ \A k \in Fds \ {fd} : open'[k] = open[k]
        /\ UNCHANGED <<seat, notes>>
    BY <1>2, <1>3 DEF IInv, TypeOK, KernelTypeOK, Tracked, Open, treeVars
  <1>5. /\ \/ pc' = "list" /\ Recursive /\ todo' = todo
           \/ pc' = "scan" /\ todo' = Tail(todo)
        /\ UNCHANGED <<kq, root>>
    BY DEF AddWatch
  <1>6. SeatsDistinct' /\ NoOrphans'
    BY <1>4, SameSeats DEF FactsInv
  <1>7. \A p \in Paths : In(p, todo') => In(p, todo)
    BY <1>1, <1>5, InHead
  <1>8. In(Scanned, todo)
    BY <1>1, InHead DEF Scanned
  <1>9. OnlyBelow'
    BY <1>3, <1>4, <1>7, <1>8 DEF FactsInv, OnlyBelow, Below, In
  <1>10. LoopKnown'
    <2>1. pc' = "list" => Scanned' = Scanned /\ descriptors_by_file_name'[Scanned] = fd
      BY <1>2, <1>3, <1>5 DEF Scanned, IInv, TypeOK
    <2>2. fd # 0
      BY KernelAssumption DEF Fds
    <2> QED
      BY <1>1, <1>5, <2>1, <2>2 DEF FactsInv, LoopKnown, is_path_watched
  <1>11. ModesAllowed'
    BY <1>1, <1>3, <1>4 DEF FactsInv, ModesAllowed, LoopKnown
  <1>12. DeletedGone'
    <2>1. notes[fd] = {}
      BY <1>3 DEF IInv, NotesRegistered, NoDescriptorLeaks
    <2> QED
      BY <1>4, <2>1 DEF FactsInv, DeletedGone
  <1> QED
    BY <1>6, <1>9, <1>10, <1>11, <1>12 DEF FactsInv

LEMMA ScanListTodo ==
  ASSUME IInv, ScanList
  PROVE  \A p \in Paths :
           In(p, todo') <=>
             \/ In(p, Tail(todo))
             \/ \E name \in Children(Scanned) : p = Append(Scanned, name)
  <1>1. todo # <<>>
    BY DEF ScanList, IInv, ScanShape
  <1>2. PICK names \in SetToSeqs(Children(Scanned)) :
          todo' = [i \in DOMAIN names |-> Append(Scanned, names[i])] \o Tail(todo)
    BY DEF ScanList
  <1> DEFINE s == [i \in DOMAIN names |-> Append(Scanned, names[i])]
  <1>3. s \in Seq(Paths) /\ Tail(todo) \in Seq(Paths)
    BY <1>1, ScannedTyped, ChildrenTyped DEF IInv
  <1>4. \A p : In(p, s) <=> \E name \in Children(Scanned) : p = Append(Scanned, name)
    BY InChildren
  <1> HIDE DEF s
  <1>5. todo' = s \o Tail(todo)
    BY <1>2 DEF s
  <1> QED
    BY <1>3, <1>4, <1>5, InConcat

LEMMA InitFacts == Init => FactsInv
  <1> SUFFICES ASSUME Init PROVE FactsInv
    OBVIOUS
  <1>1. SeatsDistinct /\ NoOrphans
    BY TreeInitOK DEF Init, KernelInit, TreeOK
  <1>2. Tracked = {}
    BY DEF Init, Tracked
  <1> QED
    BY <1>1, <1>2, InNone
    DEF Init, KernelInit, FactsInv, OnlyBelow, LoopKnown, ModesAllowed, DeletedGone

LEMMA FactsHold == IInv /\ FactsInv /\ [Next]_vars => FactsInv'
  <1> SUFFICES ASSUME IInv, FactsInv, [Next]_vars PROVE FactsInv'
    OBVIOUS
  <1>1. LoopKnown /\ todo \in Seq(Paths)
    BY DEF FactsInv, IInv, TypeOK
  <1>2. CASE \/ InitializeKqueue \/ AlreadyRunning \/ AllRemoved \/ AllRescanned
             \/ RootsVisited \/ ScanDone \/ WaitFails \/ Restart \/ UNCHANGED vars
    <2>1. UNCHANGED <<seat, open, notes, tables, todo>>
      BY <1>2
      DEF InitializeKqueue, AlreadyRunning, AllRemoved, AllRescanned, RootsVisited, ScanDone,
          WaitFails, Restart, vars, kernelVars, treeVars, monitorVars, scanVars
    <2>2. Tracked' = Tracked
      BY <2>1 DEF Tracked, tables
    <2>3. LoopKnown'
      <3>1. Scanned' = Scanned /\ (is_path_watched(Scanned) => is_path_watched(Scanned)')
        BY <2>1 DEF Scanned, is_path_watched, tables
      <3> QED
        BY <1>1, <1>2, <2>1, <2>2, <3>1
        DEF InitializeKqueue, AlreadyRunning, AllRemoved, AllRescanned, RootsVisited, ScanDone,
            WaitFails, Restart, vars, kernelVars, monitorVars, scanVars, LoopKnown, IInv, TypeOK
    <2> QED
      BY <2>1, <2>3, FactsKept
  <1>3. CASE ChangeTree
    <2>1. SeatsDistinct' /\ NoOrphans' /\ DeletedGone'
      BY <1>3, TreeFacts
    <2>2. UNCHANGED <<pc, kq, scanVars, tables, registered>>
      BY <1>3, NotesGrow DEF ChangeTree, monitorVars
    <2>3. Tracked' = Tracked
      BY <2>2 DEF Tracked, tables
    <2>4. OnlyBelow' /\ ModesAllowed'
      BY <2>2, <2>3 DEF FactsInv, OnlyBelow, ModesAllowed, Below, In, tables, scanVars
    <2>5. LoopKnown'
      BY <1>1, <2>2, <2>3 DEF LoopKnown, Scanned, is_path_watched, tables, scanVars
    <2> QED
      BY <2>1, <2>4, <2>5 DEF FactsInv
  <1>4. CASE RemoveDeleted
    <2>1. PICK fd \in descriptors_to_remove : remove_watch(file_names_by_descriptor[fd], fd)
      BY <1>4 DEF RemoveDeleted
    <2>2. fd \in Tracked
      BY DEF IInv, TypeOK
    <2>3. Tracked' = Tracked \ {fd}
      BY <2>1, <2>2, RemoveWatchEffect DEF IInv
    <2>4. UNCHANGED <<pc, kq, scanVars>> /\ pc = "remove"
      BY <1>4 DEF RemoveDeleted
    <2>5. LoopKnown'
      BY <1>1, <2>3, <2>4 DEF LoopKnown, scanVars
    <2> QED
      BY <2>1, <2>2, <2>4, <2>5, RemoveFacts DEF scanVars
  <1>5. CASE RescanPending
    <2>1. PICK fd \in Tracked :
            /\ remove_watch(file_names_by_descriptor[fd], fd)
            /\ todo' = <<file_names_by_descriptor[fd]>>
      BY <1>5, RescanRemoves
    <2>2. Tracked' = Tracked \ {fd}
      BY <2>1, RemoveWatchEffect DEF IInv
    <2>3. pc = "rescan" /\ pc' = "scan" /\ UNCHANGED <<kq, root>>
      BY <1>5 DEF RescanPending
    <2>4. LoopKnown'
      BY <1>1, <2>2, <2>3 DEF LoopKnown
    <2> QED
      BY <2>1, <2>4, RemoveFacts, InOne
  <1>6. CASE VisitRoot
    <2>1. /\ pc = "roots" /\ root \in 1 .. Len(Roots)
          /\ UNCHANGED <<seat, open, notes, kq, tables>>
      BY <1>6, MonitorAssumption, LenProperties
      DEF VisitRoot, kernelVars, treeVars, IInv, TypeOK
    <2>2. \/ UNCHANGED <<pc, todo>>
          \/ pc' = "scan" /\ todo' = <<Roots[root]>>
      BY <1>6 DEF VisitRoot
    <2>3. Below(Roots[root])
      BY <2>1, MonitorAssumption, LenProperties DEF Below
    <2>4. Tracked' = Tracked
      BY <2>1 DEF Tracked, tables
    <2>5. LoopKnown'
      BY <1>1, <2>1, <2>2, <2>4 DEF LoopKnown
    <2> QED
      BY <2>1, <2>2, <2>3, <2>5, InOne, FactsKept
  <1>7. CASE ScanStat \/ AddWatchFails
    <2>1. /\ pc \in {"scan", "open"} /\ todo # <<>>
          /\ UNCHANGED <<seat, open, notes, kq, root, tables>>
      BY <1>7 DEF ScanStat, AddWatchFails, kernelVars, treeVars, IInv, ScanShape
    <2>2. \/ pc' = "open" /\ UNCHANGED todo /\ (found' \/ Scanned \notin Rejected)
          \/ pc' = "scan" /\ todo' = Tail(todo)
      BY <1>7 DEF ScanStat, AddWatchFails, ToWatch
    <2>3. Tracked' = Tracked
      BY <2>1 DEF Tracked, tables
    <2>4. LoopKnown'
      BY <1>1, <2>1, <2>2, <2>3 DEF LoopKnown, Scanned
    <2> QED
      BY <1>1, <2>1, <2>2, <2>4, InHead, FactsKept
  <1>8. CASE AddWatch
    BY <1>8, AddWatchFacts
  <1>9. CASE ScanList
    <2>1. /\ pc = "list" /\ pc' = "scan" /\ todo # <<>>
          /\ UNCHANGED <<seat, open, notes, kq, root, tables>>
      BY <1>9 DEF ScanList, kernelVars, treeVars, IInv, ScanShape
    <2>2. Scanned \in Paths /\ Recursive /\ Below(Scanned)
      BY <1>1, <2>1, ScannedTyped, InHead DEF FactsInv, OnlyBelow, LoopKnown, Scanned, IInv
    <2>3. \A p \in Paths : In(p, todo') => In(p, todo) \/ Below(p)
      <3>1. \A name \in Children(Scanned) : Below(Append(Scanned, name))
        BY <2>2, BelowChild DEF Children
      <3>2. \A p : In(p, Tail(todo)) => In(p, todo)
        BY <1>1, <2>1, InHead
      <3> QED
        BY <1>9, <3>1, <3>2, ScanListTodo
    <2>4. Tracked' = Tracked
      BY <2>1 DEF Tracked, tables
    <2>5. LoopKnown'
      BY <1>1, <2>1, <2>4 DEF LoopKnown
    <2> QED
      BY <2>1, <2>3, <2>5, FactsKept
  <1>10. CASE RegisterWatches
    <2>1. /\ pc' \in {"remove", "wait"} /\ pc = "register"
          /\ UNCHANGED <<seat, open, notes, kq, tables, todo>>
          /\ registered' = registered \cup Tracked
      BY <1>10 DEF RegisterWatches, Register, treeVars, scanVars
    <2>2. Tracked' = Tracked
      BY <2>1 DEF Tracked, tables
    <2>3. LoopKnown'
      BY <1>1, <2>1, <2>2 DEF LoopKnown
    <2> QED
      BY <2>1, <2>3, FactsKept
  <1>11. CASE ProcessEvents \/ CallbackFails
    <2>1. /\ pc = "wait" /\ pc' \in {"remove", "failed"}
          /\ UNCHANGED <<seat, open, kq, scanVars, tables>>
          /\ notes' = [fd \in Fds |-> {}]
      BY <1>11 DEF ProcessEvents, CallbackFails, process_events, Collect, treeVars
    <2>2. SeatsDistinct' /\ NoOrphans'
      BY <2>1, SameSeats DEF FactsInv
    <2>3. Tracked' = Tracked
      BY <2>1 DEF Tracked, tables
    <2>4. OnlyBelow' /\ ModesAllowed' /\ DeletedGone'
      BY <2>1, <2>3
      DEF FactsInv, OnlyBelow, ModesAllowed, DeletedGone, Below, In, tables, scanVars
    <2>5. LoopKnown'
      BY <1>1, <2>1, <2>3 DEF LoopKnown, scanVars
    <2> QED
      BY <2>2, <2>4, <2>5 DEF FactsInv
  <1> QED
    BY <1>2, <1>3, <1>4, <1>5, <1>6, <1>7, <1>8, <1>9, <1>10, <1>11 DEF Next, MonitorStep

-----------------------------------------------------------------------------
(* While nothing is missed, every descriptor is right or will be looked at, *)
(* and so is every path that should be watched.                             *)

Marked(fd) == fd \in descriptors_to_remove \cup descriptors_to_rescan

(* The descriptor is marked, or will be when kevent returns.                *)
Suspect(fd) == Marked(fd) \/ (pc = "wait" /\ notes[fd] \cap {"DELETE", "RENAME"} # {})
Stale(fd) == Marked(fd) \/ (pc = "wait" /\ notes[fd] # {})

Wants(p) == Resolve(p) # Nowhere /\ (IsDir(Resolve(p)) \/ p \notin Rejected)

WatchesPath(fd, p) == fd \in Tracked /\ file_names_by_descriptor[fd] = p

ModesRight ==
  /\ \A fd \in Tracked : file_modes[fd] = IsDir(open[fd])
  /\ \A p \in Paths : pc = "open" /\ Scanned = p => found = IsDir(Resolve(p))

RightOrSuspect ==
  \A fd \in Fds, p \in Paths : WatchesPath(fd, p) => Suspect(fd) \/ open[fd] = Resolve(p)

(* A path is watched and stays so, or it is about to be scanned.            *)
Covered(p) ==
  IF pc = "wait"
  THEN \E fd \in Fds : WatchesPath(fd, p) /\ open[fd] = Resolve(p)
  ELSE In(p, todo) \/ \E fd \in Fds \ descriptors_to_remove : WatchesPath(fd, p)

(* The directory is watched, nothing has happened to it, and it is not the  *)
(* one that is about to be listed.                                          *)
Clean(fd, p) ==
  /\ WatchesPath(fd, p)
  /\ ~Stale(fd)
  /\ open[fd] = Resolve(p)
  /\ ~(pc = "list" /\ Scanned = p)

Listed ==
  Recursive =>
    \A fd \in Fds, p \in Paths, name \in Names :
      Clean(fd, p) /\ Len(p) < Depth /\ Wants(Append(p, name)) => Covered(Append(p, name))

VisitsRoots ==
  pc \in {"roots", "register"} \/ (pc \in {"scan", "open", "list"} /\ caller = "roots")

RootsSeen ==
  VisitsRoots /\ ~Idle =>
    \A i \in DOMAIN Roots :
      i < root /\ Wants(Roots[i]) => is_path_watched(Roots[i]) \/ In(Roots[i], todo)

WatchesRight == ModesRight /\ RightOrSuspect /\ Listed /\ RootsSeen

CaughtUpInv == pc \notin {"start", "failed"} /\ ~missed => WatchesRight

(* A path is watched through one descriptor, which is open.                 *)
LEMMA WatchedBy ==
  ASSUME IInv, NEW p \in Paths
  PROVE  /\ is_path_watched(p) <=> \E fd \in Fds : WatchesPath(fd, p)
         /\ \A fd : WatchesPath(fd, p) =>
              /\ fd \in Fds /\ fd = descriptors_by_file_name[p]
              /\ open[fd] \in Inodes
  <1>1. ASSUME NEW fd, WatchesPath(fd, p)
        PROVE  fd \in Fds /\ fd = descriptors_by_file_name[p] /\ fd # 0 /\ open[fd] \in Inodes
    <2>1. fd \in Tracked /\ fd \in Fds /\ file_names_by_descriptor[fd] = p
      BY <1>1 DEF WatchesPath, Tracked
    <2>2. fd # 0
      BY <2>1, KernelAssumption DEF Fds
    <2> QED
      BY <2>1, <2>2 DEF IInv, MapsInverse, NoDescriptorLeaks, TypeOK, KernelTypeOK
  <1>2. ASSUME is_path_watched(p) PROVE \E fd \in Fds : WatchesPath(fd, p)
    <2>1. descriptors_by_file_name[p] \in Fds
      BY <1>2, KernelAssumption DEF IInv, TypeOK, is_path_watched, Fds
    <2>2. file_names_by_descriptor[descriptors_by_file_name[p]] = p
      BY <1>2 DEF IInv, MapsInverse
    <2> QED
      BY <2>1, <2>2, MonitorAssumption DEF WatchesPath, Tracked
  <1> QED
    BY <1>1, <1>2 DEF is_path_watched

(* A path below another leads to an entry of the directory it leads to.     *)
LEMMA ChildOf ==
  ASSUME IInv, NEW p \in Paths, NEW name \in Names, Len(p) < Depth,
         Resolve(p) \in Inodes, Resolve(Append(p, name)) # Nowhere
  PROVE  LET c == Append(p, name) IN
         /\ c \in Paths /\ Parent(c) = Resolve(p)
         /\ Resolve(c) \in Inodes /\ seat[Resolve(c)] # Nowhere
         /\ IsDir(Resolve(p))
         /\ name \in Children(p)
  <1> DEFINE c == Append(p, name)
  <1>1. c \in Paths /\ Front(c) = p /\ Last(c) = name
    BY ChildPath, AppendFront
  <1>2. Parent(c) = Resolve(p)
    BY <1>1 DEF Parent
  <1> HIDE DEF c
  <1>3. Resolve(c) # Nowhere
    BY DEF c
  <1>4. Resolve(c) \in Inodes /\ seat[Resolve(c)] = <<Resolve(p), name>>
    BY <1>1, <1>2, <1>3, ResolveFound
  <1>5. seat[Resolve(c)] # Nowhere /\ IsDir(Resolve(p))
    <2>1. <<Resolve(p), name>> # Nowhere
      BY TreeAssumption
    <2>2. seat[Resolve(c)] \in ((Dirs \cup {Base}) \X Names) \cup {Nowhere}
      BY <1>4 DEF IInv, TypeOK, KernelTypeOK, TreeTypeOK
    <2> QED
      BY <1>4, <2>1, <2>2 DEF IsDir
  <1>6. Entry(Resolve(p), name) # Nowhere
    BY <1>1, <1>2, <1>3, ResolveStep
  <1>7. name \in Children(p)
    BY <1>6, TreeAssumption DEF Children
  <1> QED
    BY <1>1, <1>2, <1>4, <1>5, <1>7 DEF c

-----------------------------------------------------------------------------
(* Changes of the tree: an inode that leaves a path while kevent waits is   *)
(* deleted or renamed, and its directory is written.                        *)
Announced ==
  \A s \in Paths : Resolve(s)' # Resolve(s) =>
    \A fd \in registered :
      /\ open[fd] = Resolve(s) => notes'[fd] \cap {"DELETE", "RENAME"} # {}
      /\ open[fd] = Parent(s) => notes'[fd] # {}

LEMMA WriteAnnounced ==
  ASSUME NEW p \in Paths, Write(p)
  PROVE  Announced
  <1>1. UNCHANGED seat
    BY DEF Write, WriteNode
  <1> QED
    BY <1>1, SameSeats DEF Announced

LEMMA CreateAnnounced ==
  ASSUME IInv, TreeOK, TreeTypeOK', NEW p \in Paths, Create(p)
  PROVE  Announced
  <1>1. PICK n \in Inodes : MakeNode(p, n)
    BY DEF Create
  <1>2. Resolve(p) = Nowhere /\ Noted(EntryNote({p}))
    BY <1>1 DEF Create, MakeNode
  <1>3. \A s \in Paths : Resolve(s)' # Resolve(s) => s = p
    BY <1>1, MakeResolves
  <1>4. ASSUME NEW fd \in registered
        PROVE  /\ open[fd] # Nowhere
               /\ open[fd] = Parent(p) => notes'[fd] # {}
    <2>1. fd \in Fds /\ open[fd] \in Inodes
      BY DEF IInv, NoDescriptorLeaks, TypeOK, KernelTypeOK
    <2> QED
      BY <1>2, <2>1, TreeAssumption DEF Noted, EntryNote, Note
  <1> QED
    BY <1>2, <1>3, <1>4 DEF Announced

LEMMA DeleteAnnounced ==
  ASSUME IInv, TreeOK, TreeTypeOK', NEW p \in Paths, Delete(p)
  PROVE  Announced
  <1>1. PICK n \in Inodes :
          DeleteNode(p, n) /\ Noted(Both(EntryNote({p}), Note({n}, "DELETE")))
    BY DEF Delete
  <1>2. n = Resolve(p)
    BY <1>1 DEF DeleteNode
  <1>3. \A s \in Paths : Resolve(s)' # Resolve(s) => s = p
    BY <1>1, DeleteResolves
  <1>4. ASSUME NEW fd \in registered
        PROVE  /\ open[fd] = n => "DELETE" \in notes'[fd]
               /\ open[fd] = Parent(p) => "WRITE" \in notes'[fd]
    <2>1. fd \in Fds
      BY DEF IInv, TypeOK, KernelTypeOK
    <2> QED
      BY <1>1, <2>1 DEF Noted, Both, EntryNote, Note
  <1> QED
    BY <1>2, <1>3, <1>4 DEF Announced

LEMMA RenameAnnounced ==
  ASSUME IInv, TreeOK, TreeTypeOK', NEW p \in Paths, NEW q \in Paths, Rename(p, q), ~Uproots(p)
  PROVE  Announced
  <1>1. PICK n \in Inodes :
          RenameNode(p, q, n) /\ Noted(Both(EntryNote({p, q}), Note({n}, "RENAME")))
    BY DEF Rename
  <1>2. n = Resolve(p) /\ Resolve(q) = Nowhere /\ Empty(n)
    BY <1>1 DEF RenameNode, Uproots
  <1>3. \A s \in Paths : Resolve(s)' # Resolve(s) => s = p \/ s = q
    BY <1>1, <1>2, RenameResolves
  <1>4. ASSUME NEW fd \in registered
        PROVE  /\ open[fd] # Nowhere
               /\ open[fd] = n => "RENAME" \in notes'[fd]
               /\ open[fd] \in {Parent(p), Parent(q)} => "WRITE" \in notes'[fd]
    <2>1. fd \in Fds /\ open[fd] \in Inodes
      BY DEF IInv, NoDescriptorLeaks, TypeOK, KernelTypeOK
    <2> QED
      BY <1>1, <2>1, TreeAssumption DEF Noted, Both, EntryNote, Note
  <1> QED
    BY <1>2, <1>3, <1>4 DEF Announced

LEMMA ReplaceAnnounced ==
  ASSUME IInv, TreeOK, TreeTypeOK', NEW p \in Paths, NEW q \in Paths, Replace(p, q), ~Uproots(p)
  PROVE  Announced
  <1>1. PICK n, m \in Inodes :
          /\ ReplaceNode(p, q, n, m)
          /\ Noted(Both(EntryNote({p, q}), Both(Note({n}, "RENAME"), Note({m}, "DELETE"))))
    BY DEF Replace
  <1>2. n = Resolve(p) /\ m = Resolve(q) /\ Empty(n)
    BY <1>1 DEF ReplaceNode, Uproots
  <1>3. \A s \in Paths : Resolve(s)' # Resolve(s) => s = p \/ s = q
    BY <1>1, <1>2, ReplaceResolves
  <1>4. ASSUME NEW fd \in registered
        PROVE  /\ open[fd] = n => "RENAME" \in notes'[fd]
               /\ open[fd] = m => "DELETE" \in notes'[fd]
               /\ open[fd] \in {Parent(p), Parent(q)} => "WRITE" \in notes'[fd]
    <2>1. fd \in Fds
      BY DEF IInv, TypeOK, KernelTypeOK
    <2> QED
      BY <1>1, <2>1 DEF Noted, Both, EntryNote, Note
  <1> QED
    BY <1>2, <1>3, <1>4 DEF Announced

LEMMA ChangesAnnounced ==
  ASSUME IInv, FactsInv, ChangeTree, ~missed'
  PROVE  Announced
  <1>1. TreeOK /\ TreeTypeOK'
    BY TreeFacts
  <1>2. CASE \E p \in Paths : Write(p)
    BY <1>2, WriteAnnounced
  <1>3. CASE \E p \in Paths : Create(p) \/ Delete(p)
    BY <1>1, <1>3, CreateAnnounced, DeleteAnnounced
  <1>4. CASE \E p, q \in Paths : (Rename(p, q) \/ Replace(p, q)) /\ ~Uproots(p)
    BY <1>1, <1>4, RenameAnnounced, ReplaceAnnounced
  <1> QED
    BY <1>2, <1>3, <1>4 DEF ChangeTree

(* The monitor waits: what changes is noted. *)
LEMMA ChangeWaiting ==
  ASSUME IInv, FactsInv, WatchesRight, ChangeTree, ~missed', pc = "wait"
  PROVE  WatchesRight'
  <1>1. Announced /\ UNCHANGED <<pc, scanVars, tables, marks, open, registered>>
    BY ChangesAnnounced, NotesGrow DEF ChangeTree, monitorVars
  <1>2. \A fd \in Fds : notes[fd] \subseteq notes'[fd]
    BY NotesGrow
  <1>3. Tracked \subseteq registered /\ Tracked' = Tracked
    BY <1>1 DEF FactsInv, LoopKnown, Tracked, tables
  <1>4. \A fd, p : WatchesPath(fd, p)' <=> WatchesPath(fd, p)
    BY <1>1, <1>3 DEF WatchesPath, tables
  <1>5. ModesRight'
    BY <1>1, <1>3 DEF WatchesRight, ModesRight, tables
  <1>6. ASSUME NEW fd \in Fds, NEW p \in Paths, WatchesPath(fd, p), ~Suspect(fd)'
        PROVE  open[fd] = Resolve(p) /\ Resolve(p)' = Resolve(p)
    <2>1. ~Suspect(fd) /\ notes'[fd] \cap {"DELETE", "RENAME"} = {}
      BY <1>1, <1>2, <1>6 DEF Suspect, Marked, marks
    <2>2. open[fd] = Resolve(p) /\ fd \in registered
      BY <1>3, <1>6, <2>1 DEF WatchesRight, RightOrSuspect, WatchesPath
    <2> QED
      BY <1>1, <2>1, <2>2 DEF Announced
  <1>7. RightOrSuspect'
    BY <1>1, <1>4, <1>6 DEF RightOrSuspect
  <1>8. Listed'
    <2>1. SUFFICES ASSUME Recursive, NEW fd \in Fds, NEW p \in Paths, NEW name \in Names,
                          Clean(fd, p)', Len(p) < Depth, Wants(Append(p, name))'
                   PROVE  Covered(Append(p, name))'
      BY DEF Listed
    <2> DEFINE c == Append(p, name)
    <2>2. /\ WatchesPath(fd, p) /\ fd \in registered /\ notes'[fd] = {}
          /\ ~Suspect(fd)' /\ ~Stale(fd)
      BY <1>1, <1>2, <1>3, <1>4, <2>1 DEF Clean, Stale, Suspect, Marked, WatchesPath, marks
    <2>3. open[fd] = Resolve(p) /\ Clean(fd, p)
      BY <1>6, <2>2 DEF Clean
    <2>4. c \in Paths /\ Parent(c) = Resolve(p)
      BY <2>1, ChildPath, AppendFront DEF Parent
    <2> HIDE DEF c
    <2>5. Resolve(c)' = Resolve(c)
      BY <1>1, <2>2, <2>3, <2>4 DEF Announced
    <2>6. Wants(c)
      BY <2>1, <2>5 DEF Wants, c
    <2>7. Covered(c)
      BY <2>1, <2>3, <2>6 DEF WatchesRight, Listed, c
    <2>8. Covered(c)'
      BY <1>1, <1>4, <2>5, <2>7 DEF Covered
    <2> QED
      BY <2>8 DEF c
  <1>9. RootsSeen'
    BY <1>1 DEF RootsSeen, VisitsRoots
  <1> QED
    BY <1>5, <1>7, <1>8, <1>9 DEF WatchesRight

(* The monitor watches nothing. *)
LEMMA IdleRight ==
  ASSUME Idle, pc \notin {"open", "list"}
  PROVE  WatchesRight
  BY DEF Idle, WatchesRight, ModesRight, RightOrSuspect, Listed, RootsSeen, WatchesPath, Clean

LEMMA IdleRightLater ==
  ASSUME Idle', pc' \notin {"open", "list"}
  PROVE  WatchesRight'
  BY DEF Idle, WatchesRight, ModesRight, RightOrSuspect, Listed, RootsSeen, WatchesPath, Clean

(* Steps between two calls of kevent that leave table and marks alone: a    *)
(* path that was covered still is.                                          *)
LEMMA KeptRight ==
  ASSUME IInv, WatchesRight, UNCHANGED <<seat, open, tables, marks>>,
         descriptors_to_remove = {}, pc \notin {"wait", "list"}, pc' \notin {"wait", "list"},
         \A p \in Paths : pc' = "open" /\ Scanned' = p => found' = IsDir(Resolve(p)),
         \A p \in Paths : Wants(p) /\ In(p, todo) => In(p, todo') \/ is_path_watched(p),
         RootsSeen'
  PROVE  WatchesRight'
  <1>1. /\ \A s : Resolve(s)' = Resolve(s)
        /\ \A s : Wants(s)' <=> Wants(s)
    BY SameSeats DEF Wants
  <1>2. /\ Tracked' = Tracked
        /\ \A fd, p : WatchesPath(fd, p)' <=> WatchesPath(fd, p)
    BY DEF WatchesPath, Tracked, tables
  <1>3. ModesRight'
    BY <1>1, <1>2 DEF WatchesRight, ModesRight, tables
  <1>4. RightOrSuspect'
    BY <1>1, <1>2 DEF WatchesRight, RightOrSuspect, Suspect, Marked, marks
  <1>5. Listed'
    <2>1. SUFFICES ASSUME Recursive, NEW fd \in Fds, NEW p \in Paths, NEW name \in Names,
                          Clean(fd, p)', Len(p) < Depth, Wants(Append(p, name))'
                   PROVE  Covered(Append(p, name))'
      BY DEF Listed
    <2> DEFINE c == Append(p, name)
    <2>2. Clean(fd, p)
      BY <1>1, <1>2, <2>1 DEF Clean, Stale, Marked, marks
    <2>3. c \in Paths
      BY <2>1, ChildPath
    <2>4. Wants(c) /\ Covered(c)
      BY <1>1, <2>1, <2>2 DEF WatchesRight, Listed
    <2> HIDE DEF c
    <2>5. Covered(c)'
      <3>1. In(c, todo') \/ \E k \in Fds : WatchesPath(k, c)
        BY <2>3, <2>4, WatchedBy DEF Covered
      <3> QED
        BY <1>2, <3>1 DEF Covered, marks, In
    <2> QED
      BY <2>5 DEF c
  <1> QED
    BY <1>3, <1>4, <1>5 DEF WatchesRight

LEMMA MoveOnRight ==
  ASSUME IInv, WatchesRight, AllRemoved \/ AllRescanned \/ RootsVisited \/ ScanDone
  PROVE  WatchesRight'
  <1>1. /\ UNCHANGED <<seat, open, tables, marks, todo>>
        /\ descriptors_to_remove = {} /\ pc \notin {"wait", "list"}
        /\ pc' \notin {"wait", "list", "open"}
    BY DEF AllRemoved, AllRescanned, RootsVisited, ScanDone, kernelVars, treeVars, scanVars,
           IInv, MarksWorkedOff, TypeOK
  <1>2. RootsSeen'
    <2>1. CASE AllRemoved
      BY <2>1 DEF AllRemoved, RootsSeen, VisitsRoots
    <2>2. CASE AllRescanned
      BY <2>2, MonitorAssumption, LenProperties DEF AllRescanned, RootsSeen
    <2>3. CASE RootsVisited \/ ScanDone
      <3>1. /\ VisitsRoots' => VisitsRoots
            /\ UNCHANGED <<seat, todo, tables, root>>
        BY <2>3 DEF RootsVisited, ScanDone, VisitsRoots, kernelVars, treeVars, scanVars,
               IInv, TypeOK
      <3>2. Idle' <=> Idle
        BY <3>1 DEF Idle, Tracked, tables
      <3>3. \A s : Wants(s)' <=> Wants(s)
        BY <3>1, SameSeats DEF Wants
      <3> QED
        BY <3>1, <3>2, <3>3 DEF WatchesRight, RootsSeen, is_path_watched, In, tables
    <2> QED
      BY <2>1, <2>2, <2>3
  <1> QED
    BY <1>1, <1>2, KeptRight

LEMMA VisitRootRight ==
  ASSUME IInv, FactsInv, WatchesRight, VisitRoot
  PROVE  WatchesRight'
  <1>1. /\ UNCHANGED <<seat, open, tables, marks>> /\ pc = "roots" /\ todo = <<>>
        /\ descriptors_to_remove = {}
        /\ root \in 1 .. Len(Roots) /\ root' = root + 1
    BY MonitorAssumption, LenProperties
    DEF VisitRoot, kernelVars, treeVars, IInv, MarksWorkedOff, TypeOK, FactsInv, LoopKnown
  <1>2. \/ is_path_watched(Roots[root]) /\ UNCHANGED <<pc, todo>>
        \/ pc' = "scan" /\ todo' = <<Roots[root]>>
    BY DEF VisitRoot
  <1>3. Idle => root = 1 /\ ~is_path_watched(Roots[root])
    <2>1. Roots[root] \in Paths
      BY <1>1, RootTyped
    <2> QED
      BY <1>1, <2>1, WatchedBy DEF Idle, WatchesPath
  <1>4. RootsSeen'
    <2>1. SUFFICES ASSUME NEW i \in DOMAIN Roots, i < root + 1, Wants(Roots[i])'
                   PROVE  is_path_watched(Roots[i])' \/ In(Roots[i], todo)'
      BY <1>1 DEF RootsSeen
    <2>2. Wants(Roots[i])
      BY <1>1, <2>1, SameSeats DEF Wants
    <2>3. i = root \/ i < root
      BY <1>1, <2>1, MonitorAssumption, LenProperties
    <2>4. i < root => ~Idle
      BY <1>1, <1>3, <2>1, MonitorAssumption, LenProperties
    <2>5. i < root => is_path_watched(Roots[i])
      BY <1>1, <2>2, <2>4, InNone DEF WatchesRight, RootsSeen, VisitsRoots
    <2>6. i = root => is_path_watched(Roots[i]) \/ In(Roots[i], todo')
      BY <1>2, InOne
    <2> QED
      BY <1>1, <2>3, <2>5, <2>6 DEF is_path_watched, tables, In
  <1> QED
    BY <1>1, <1>2, <1>4, InNone, KeptRight

LEMMA ScanStatRight ==
  ASSUME IInv, WatchesRight, ScanStat
  PROVE  WatchesRight'
  <1>1. /\ UNCHANGED <<seat, open, tables, marks, root, caller>>
        /\ pc = "scan" /\ todo # <<>> /\ todo \in Seq(Paths)
        /\ descriptors_to_remove = {}
    BY DEF ScanStat, kernelVars, treeVars, IInv, MarksWorkedOff, TypeOK
  <1>2. \/ pc' = "open" /\ found' = IsDir(Resolve(Scanned)) /\ todo' = todo
        \/ pc' = "scan" /\ todo' = Tail(todo) /\ ~ToWatch(Scanned)
    BY <1>1 DEF ScanStat
  <1>3. \A p \in Paths : Wants(p) /\ In(p, todo) => In(p, todo') \/ is_path_watched(p)
    <2>1. \A p \in Paths : In(p, todo) => p = Scanned \/ In(p, Tail(todo))
      BY <1>1, InHead DEF Scanned
    <2>2. ~ToWatch(Scanned) /\ Wants(Scanned) => is_path_watched(Scanned)
      BY DEF ToWatch, Wants
    <2> QED
      BY <1>2, <2>1, <2>2
  <1>4. RootsSeen'
    <2>1. SUFFICES ASSUME NEW i \in DOMAIN Roots, i < root, Wants(Roots[i])', VisitsRoots'
                   PROVE  is_path_watched(Roots[i])' \/ In(Roots[i], todo)'
      BY <1>1 DEF RootsSeen
    <2>2. VisitsRoots /\ ~Idle
      BY <1>1, <1>2, <2>1 DEF VisitsRoots, Idle
    <2>3. Wants(Roots[i]) /\ Roots[i] \in Paths
      BY <1>1, <2>1, SameSeats, RootTyped, MonitorAssumption, LenProperties DEF Wants
    <2> QED
      BY <1>1, <1>3, <2>1, <2>2, <2>3 DEF WatchesRight, RootsSeen, is_path_watched, tables, In
  <1>5. \A p \in Paths : pc' = "open" /\ Scanned' = p => found' = IsDir(Resolve(p))
    BY <1>2 DEF Scanned
  <1> QED
    BY <1>1, <1>2, <1>3, <1>4, <1>5, KeptRight

LEMMA AddWatchRight ==
  ASSUME IInv, WatchesRight, AddWatch
  PROVE  WatchesRight'
  <1>1. /\ pc = "open" /\ todo # <<>> /\ todo \in Seq(Paths) /\ Scanned \in Paths
        /\ descriptors_to_remove = {} /\ ~Idle
    BY ScannedTyped DEF AddWatch, IInv, ScanShape, MarksWorkedOff, TypeOK, Idle
  <1>2. PICK fd \in Fds :
          /\ Open(Scanned, fd)
          /\ descriptors_by_file_name' = [descriptors_by_file_name EXCEPT ![Scanned] = fd]
          /\ file_names_by_descriptor' = [file_names_by_descriptor EXCEPT ![fd] = Scanned]
          /\ file_modes' = [file_modes EXCEPT ![fd] = found]
    BY DEF AddWatch
  <1>3. /\ \/ pc' = "list" /\ todo' = todo
           \/ pc' = "scan" /\ todo' = Tail(todo) /\ ~(Recursive /\ found)
        /\ UNCHANGED <<root, caller, marks>>
    BY DEF AddWatch
  <1>4. IInv' /\ fd \notin Tracked /\ Tracked' = Tracked \cup {fd}
    BY <1>1, <1>2, AddWatchEffect, AddWatchHolds
  <1>5. /\ UNCHANGED seat /\ open'[fd] = Resolve(Scanned) /\ Resolve(Scanned) \in Inodes
        /\ file_names_by_descriptor'[fd] = Scanned /\ file_modes'[fd] = found
        /\ \A k \in Tracked :
             /\ open'[k] = open[k] /\ file_modes'[k] = file_modes[k]
             /\ file_names_by_descriptor'[k] = file_names_by_descriptor[k]
    BY <1>2, <1>4 DEF Open, CanOpen, treeVars, IInv, TypeOK, KernelTypeOK, Tracked
  <1>6. /\ \A s : Resolve(s)' = Resolve(s)
        /\ \A s : Wants(s)' <=> Wants(s)
    BY <1>5, SameSeats DEF Wants
  <1>7. \A k, p : WatchesPath(k, p)' <=> WatchesPath(k, p) \/ (k = fd /\ p = Scanned)
    BY <1>4, <1>5 DEF WatchesPath
  <1>8. found = IsDir(Resolve(Scanned))
    BY <1>1 DEF WatchesRight, ModesRight
  <1>9. ModesRight'
    BY <1>3, <1>4, <1>5, <1>8 DEF WatchesRight, ModesRight
  <1>10. RightOrSuspect'
    <2>1. ASSUME NEW k \in Fds, NEW p \in Paths, WatchesPath(k, p)
          PROVE  Suspect(k)' \/ open'[k] = Resolve(p)'
      <3>1. Suspect(k) \/ open[k] = Resolve(p)
        BY <2>1 DEF WatchesRight, RightOrSuspect
      <3>2. Suspect(k) => Suspect(k)'
        BY <1>1, <1>3 DEF Suspect, Marked, marks
      <3> QED
        BY <1>5, <1>6, <2>1, <3>1, <3>2 DEF WatchesPath
    <2> QED
      BY <1>5, <1>6, <1>7, <2>1 DEF RightOrSuspect
  <1>11. \A p : In(p, todo) => In(p, todo') \/ p = Scanned
    <2>1. \A p : In(p, todo) => p = Scanned \/ In(p, Tail(todo))
      BY <1>1, InHead DEF Scanned
    <2> QED
      BY <1>3, <2>1
  <1>12. \A p \in Paths : Covered(p) \/ p = Scanned => Covered(p)'
    <2>1. pc # "wait" /\ pc' # "wait" /\ descriptors_to_remove' = {}
      BY <1>1, <1>3 DEF marks
    <2> QED
      BY <1>7, <1>11, <2>1 DEF Covered, In
  <1>13. Listed'
    <2>1. SUFFICES ASSUME Recursive, NEW k \in Fds, NEW p \in Paths, NEW name \in Names,
                          Clean(k, p)', Len(p) < Depth, Wants(Append(p, name))'
                   PROVE  Covered(Append(p, name))'
      BY DEF Listed
    <2> DEFINE c == Append(p, name)
    <2>2. c \in Paths /\ Wants(c)
      BY <1>6, <2>1, ChildPath
    <2>3. CASE WatchesPath(k, p)
      <3>1. ~Stale(k)
        BY <1>1, <1>3, <2>1 DEF Clean, Stale, Marked, marks
      <3>2. open[k] = Resolve(p)
        BY <1>5, <1>6, <2>1, <2>3 DEF Clean, WatchesPath
      <3>3. Clean(k, p)
        BY <1>1, <2>3, <3>1, <3>2 DEF Clean
      <3>4. Covered(c)
        BY <2>1, <2>2, <3>3 DEF WatchesRight, Listed
      <3> QED
        BY <1>12, <2>2, <3>4
    <2>4. CASE k = fd /\ p = Scanned
      <3>1. Scanned' = Scanned \/ pc' # "list"
        BY <1>3 DEF Scanned
      <3>2. pc' # "list"
        BY <2>1, <2>4, <3>1 DEF Clean
      <3>3. ~IsDir(Resolve(p))
        BY <1>3, <1>8, <2>1, <2>4, <3>2
      <3>4. FALSE
        BY <1>5, <2>1, <2>2, <2>4, <3>3, ChildOf DEF Wants
      <3> QED
        BY <3>4
    <2> QED
      BY <1>7, <2>1, <2>3, <2>4 DEF Clean
  <1>14. RootsSeen'
    <2>1. SUFFICES ASSUME NEW i \in DOMAIN Roots, i < root, Wants(Roots[i])', VisitsRoots'
                   PROVE  is_path_watched(Roots[i])' \/ In(Roots[i], todo)'
      BY <1>3 DEF RootsSeen
    <2>2. VisitsRoots /\ Wants(Roots[i]) /\ Roots[i] \in Paths
      BY <1>1, <1>3, <1>6, <2>1, RootTyped, MonitorAssumption, LenProperties DEF VisitsRoots
    <2>3. is_path_watched(Roots[i]) \/ In(Roots[i], todo)
      BY <1>1, <2>1, <2>2 DEF WatchesRight, RootsSeen
    <2>4. \A p \in Paths : is_path_watched(p) \/ p = Scanned => is_path_watched(p)'
      <3>1. fd # 0
        BY KernelAssumption DEF Fds
      <3> QED
        BY <1>2, <3>1 DEF is_path_watched, IInv, TypeOK
    <2> QED
      BY <1>11, <2>2, <2>3, <2>4 DEF In
  <1> QED
    BY <1>9, <1>10, <1>13, <1>14 DEF WatchesRight

LEMMA ScanListRight ==
  ASSUME IInv, FactsInv, WatchesRight, ScanList
  PROVE  WatchesRight'
  <1>1. /\ pc = "list" /\ pc' = "scan" /\ todo # <<>> /\ todo \in Seq(Paths)
        /\ Scanned \in Paths /\ is_path_watched(Scanned)
        /\ descriptors_to_remove = {} /\ ~Idle
        /\ UNCHANGED <<seat, open, root, caller, tables, marks>>
    BY ScannedTyped
    DEF ScanList, kernelVars, treeVars, IInv, ScanShape, MarksWorkedOff, TypeOK, Idle,
        FactsInv, LoopKnown
  <1>2. \A p \in Paths : In(p, todo) => In(p, todo') \/ is_path_watched(p)
    BY <1>1, ScanListTodo, InHead DEF Scanned
  <1>3. /\ \A s : Resolve(s)' = Resolve(s)
        /\ \A s : Wants(s)' <=> Wants(s)
    BY <1>1, SameSeats DEF Wants
  <1>4. /\ Tracked' = Tracked
        /\ \A k, p : WatchesPath(k, p)' <=> WatchesPath(k, p)
    BY <1>1 DEF WatchesPath, Tracked, tables
  <1>5. ModesRight'
    BY <1>1, <1>3, <1>4 DEF WatchesRight, ModesRight, tables
  <1>6. RightOrSuspect'
    BY <1>1, <1>3, <1>4 DEF WatchesRight, RightOrSuspect, Suspect, Marked, marks
  <1>7. Listed'
    <2>1. SUFFICES ASSUME Recursive, NEW k \in Fds, NEW p \in Paths, NEW name \in Names,
                          Clean(k, p)', Len(p) < Depth, Wants(Append(p, name))'
                   PROVE  Covered(Append(p, name))'
      BY DEF Listed
    <2> DEFINE c == Append(p, name)
    <2>2. c \in Paths /\ Wants(c) /\ WatchesPath(k, p) /\ open[k] = Resolve(p) /\ ~Stale(k)
      BY <1>1, <1>3, <1>4, <2>1, ChildPath DEF Clean, Stale, Marked, marks
    <2>3. In(c, todo') \/ \E j \in Fds : WatchesPath(j, c)
      <3>1. CASE p = Scanned
        <4>1. Resolve(p) \in Inodes
          BY <2>2, WatchedBy
        <4>2. name \in Children(p)
          BY <2>1, <2>2, <4>1, ChildOf DEF Wants
        <4> QED
          BY <2>2, <3>1, <4>2, ScanListTodo
      <3>2. CASE p # Scanned
        <4>1. Covered(c)
          BY <2>1, <2>2, <3>2 DEF WatchesRight, Listed, Clean
        <4> HIDE DEF c
        <4>2. In(c, todo) \/ \E j \in Fds : WatchesPath(j, c)
          BY <1>1, <4>1 DEF Covered
        <4> QED
          BY <1>2, <2>2, <4>2, WatchedBy
      <3> QED
        BY <3>1, <3>2
    <2> HIDE DEF c
    <2>4. Covered(c)'
      BY <1>1, <1>4, <2>3 DEF Covered, marks, In
    <2> QED
      BY <2>4 DEF c
  <1>8. RootsSeen'
    <2>1. SUFFICES ASSUME NEW i \in DOMAIN Roots, i < root, Wants(Roots[i])', VisitsRoots'
                   PROVE  is_path_watched(Roots[i])' \/ In(Roots[i], todo)'
      BY <1>1 DEF RootsSeen
    <2>2. VisitsRoots /\ Wants(Roots[i]) /\ Roots[i] \in Paths
      BY <1>1, <1>3, <2>1, RootTyped, MonitorAssumption, LenProperties DEF VisitsRoots
    <2>3. is_path_watched(Roots[i]) \/ In(Roots[i], todo)
      BY <1>1, <2>1, <2>2 DEF WatchesRight, RootsSeen
    <2> QED
      BY <1>1, <1>2, <2>2, <2>3 DEF is_path_watched, tables, In
  <1> QED
    BY <1>5, <1>6, <1>7, <1>8 DEF WatchesRight

(* A removed descriptor is not one that others count on, or its path is     *)
(* scanned again.                                                           *)
LEMMA RemoveRight ==
  ASSUME IInv, WatchesRight, NEW fd \in Tracked,
         remove_watch(file_names_by_descriptor[fd], fd),
         pc \notin {"wait", "open", "list"}, pc' \notin {"wait", "open", "list"}, ~VisitsRoots',
         \A k \in Fds \ {fd} : Marked(k)' <=> Marked(k),
         descriptors_to_remove' \subseteq descriptors_to_remove,
         \A p \in Paths : In(p, todo) => In(p, todo'),
         fd \in descriptors_to_remove \/ In(file_names_by_descriptor[fd], todo')
  PROVE  WatchesRight'
  <1>1. UNCHANGED seat /\ Tracked' = Tracked \ {fd}
    BY RemoveWatchEffect DEF remove_watch, Close, treeVars, IInv
  <1>2. \A k \in Tracked \ {fd} :
          /\ file_names_by_descriptor'[k] = file_names_by_descriptor[k]
          /\ file_modes'[k] = file_modes[k]
          /\ open'[k] = open[k]
    BY DEF remove_watch, Close, Tracked
  <1>3. \A k, p : WatchesPath(k, p)' <=> WatchesPath(k, p) /\ k # fd
    BY <1>1, <1>2 DEF WatchesPath
  <1>4. /\ \A s : Resolve(s)' = Resolve(s)
        /\ \A s : Wants(s)' <=> Wants(s)
    BY <1>1, SameSeats DEF Wants
  <1>5. ModesRight'
    BY <1>1, <1>2 DEF WatchesRight, ModesRight
  <1>6. RightOrSuspect'
    <2>1. SUFFICES ASSUME NEW k \in Fds, NEW p \in Paths, WatchesPath(k, p)'
                   PROVE  Suspect(k)' \/ open'[k] = Resolve(p)'
      BY DEF RightOrSuspect
    <2>2. WatchesPath(k, p) /\ k # fd /\ open'[k] = open[k]
      BY <1>2, <1>3, <2>1 DEF WatchesPath
    <2>3. Suspect(k) \/ open[k] = Resolve(p)
      BY <2>2 DEF WatchesRight, RightOrSuspect
    <2> QED
      BY <1>4, <2>2, <2>3 DEF Suspect
  <1>7. Listed'
    <2>1. SUFFICES ASSUME Recursive, NEW k \in Fds, NEW p \in Paths, NEW name \in Names,
                          Clean(k, p)', Len(p) < Depth, Wants(Append(p, name))'
                   PROVE  Covered(Append(p, name))'
      BY DEF Listed
    <2> DEFINE c == Append(p, name)
    <2>2. WatchesPath(k, p) /\ k # fd /\ open'[k] = open[k] /\ c \in Paths /\ Wants(c)
      BY <1>2, <1>3, <1>4, <2>1, ChildPath DEF Clean, WatchesPath
    <2>3. Clean(k, p)
      BY <1>4, <2>1, <2>2 DEF Clean, Stale
    <2>4. Covered(c)
      BY <2>1, <2>2, <2>3 DEF WatchesRight, Listed
    <2> HIDE DEF c
    <2>5. In(c, todo) => In(c, todo')
      BY <2>2
    <2>6. ASSUME NEW j \in Fds \ descriptors_to_remove, WatchesPath(j, c)
          PROVE  In(c, todo') \/ (WatchesPath(j, c)' /\ j \notin descriptors_to_remove')
      BY <1>3, <2>6 DEF WatchesPath
    <2>7. Covered(c)'
      BY <2>4, <2>5, <2>6 DEF Covered, In
    <2> QED
      BY <2>7 DEF c
  <1>8. RootsSeen'
    BY DEF RootsSeen
  <1> QED
    BY <1>5, <1>6, <1>7, <1>8 DEF WatchesRight

LEMMA RemoveDeletedRight ==
  ASSUME IInv, WatchesRight, RemoveDeleted
  PROVE  WatchesRight'
  <1>1. PICK fd \in descriptors_to_remove :
          /\ remove_watch(file_names_by_descriptor[fd], fd)
          /\ descriptors_to_remove' = descriptors_to_remove \ {fd}
    BY DEF RemoveDeleted
  <1>2. fd \in Tracked
    BY DEF IInv, TypeOK
  <1>3. pc = "remove" /\ UNCHANGED <<pc, todo, descriptors_to_rescan>>
    BY DEF RemoveDeleted, scanVars
  <1>4. ~VisitsRoots'
    BY <1>3 DEF VisitsRoots
  <1>5. \A k \in Fds \ {fd} : Marked(k)' <=> Marked(k)
    BY <1>1, <1>3 DEF Marked
  <1> QED
    BY <1>1, <1>2, <1>3, <1>4, <1>5, RemoveRight

LEMMA RescanPendingRight ==
  ASSUME IInv, FactsInv, WatchesRight, RescanPending
  PROVE  WatchesRight'
  <1>1. PICK fd \in descriptors_to_rescan :
          /\ fd \in Tracked
          /\ remove_watch(file_names_by_descriptor[fd], fd)
          /\ descriptors_to_rescan' = descriptors_to_rescan \ {fd}
          /\ todo' = <<file_names_by_descriptor[fd]>>
    BY RescanRemoves
  <1>2. /\ pc = "rescan" /\ pc' = "scan" /\ caller' = "rescan" /\ todo = <<>>
        /\ UNCHANGED descriptors_to_remove
    BY DEF RescanPending, FactsInv, LoopKnown
  <1>3. ~VisitsRoots'
    BY <1>2 DEF VisitsRoots
  <1>4. \A k \in Fds \ {fd} : Marked(k)' <=> Marked(k)
    BY <1>1, <1>2 DEF Marked
  <1> QED
    BY <1>1, <1>2, <1>3, <1>4, InNone, InOne, RemoveRight

(* Before kevent is called no mark is left.                                 *)
LEMMA NoMarksRight ==
  ASSUME IInv, FactsInv, WatchesRight, pc = "register", NEW fd \in Fds, NEW p \in Paths,
         WatchesPath(fd, p)
  PROVE  open[fd] = Resolve(p) /\ ~Stale(fd)
  BY DEF IInv, MarksWorkedOff, WatchesRight, RightOrSuspect, Suspect, Stale, Marked

LEMMA RegisterRight ==
  ASSUME IInv, FactsInv, WatchesRight, RegisterWatches
  PROVE  WatchesRight'
  <1>1. /\ pc = "register" /\ todo = <<>> /\ root > Len(Roots)
        /\ UNCHANGED <<seat, open, notes, root, todo, tables, marks>>
        /\ pc' = IF Tracked = {} THEN "remove" ELSE "wait"
    BY DEF RegisterWatches, Register, treeVars, scanVars, FactsInv, LoopKnown
  <1>2. /\ Tracked' = Tracked
        /\ \A k, p : WatchesPath(k, p)' <=> WatchesPath(k, p)
    BY <1>1 DEF WatchesPath, Tracked, tables
  <1>3. CASE Tracked = {}
    <2>1. root \notin 2 .. Len(Roots)
      BY <1>1, MonitorAssumption, LenProperties DEF IInv, TypeOK
    <2> QED
      BY <1>1, <1>2, <1>3, <2>1, IdleRightLater DEF Idle
  <1>4. CASE Tracked # {}
    <2>1. /\ \A s : Resolve(s)' = Resolve(s)
          /\ \A s : Wants(s)' <=> Wants(s)
      BY <1>1, SameSeats DEF Wants
    <2>2. ModesRight'
      BY <1>1, <1>2, <1>4 DEF WatchesRight, ModesRight, tables
    <2>3. RightOrSuspect'
      BY <1>1, <1>2, <2>1, NoMarksRight DEF RightOrSuspect
    <2>4. Listed'
      <3>1. SUFFICES ASSUME Recursive, NEW k \in Fds, NEW p \in Paths, NEW name \in Names,
                            Clean(k, p)', Len(p) < Depth, Wants(Append(p, name))'
                     PROVE  Covered(Append(p, name))'
        BY DEF Listed
      <3> DEFINE c == Append(p, name)
      <3>2. c \in Paths /\ Wants(c) /\ WatchesPath(k, p)
        BY <1>2, <2>1, <3>1, ChildPath DEF Clean
      <3>3. Clean(k, p)
        BY <1>1, <3>2, NoMarksRight DEF Clean
      <3>4. Covered(c)
        BY <3>1, <3>2, <3>3 DEF WatchesRight, Listed
      <3> HIDE DEF c
      <3>5. PICK j \in Fds : WatchesPath(j, c)
        BY <1>1, <3>4, InNone DEF Covered
      <3>6. open[j] = Resolve(c)
        BY <1>1, <3>2, <3>5, NoMarksRight
      <3>7. Covered(c)'
        BY <1>1, <1>2, <1>4, <2>1, <3>5, <3>6 DEF Covered
      <3> QED
        BY <3>7 DEF c
    <2>5. RootsSeen'
      BY <1>1, <1>4 DEF RootsSeen, VisitsRoots
    <2> QED
      BY <2>2, <2>3, <2>4, <2>5 DEF WatchesRight
  <1> QED
    BY <1>3, <1>4

LEMMA ProcessEventsRight ==
  ASSUME IInv, FactsInv, WatchesRight, ProcessEvents
  PROVE  WatchesRight'
  <1>1. /\ pc = "wait" /\ pc' = "remove"
        /\ UNCHANGED <<seat, open, todo, tables>>
        /\ descriptors_to_remove' = descriptors_to_remove \cup ToRemove
        /\ descriptors_to_rescan' = descriptors_to_rescan \cup ToRescan
    BY DEF ProcessEvents, process_events, Collect, treeVars, scanVars
  <1>2. descriptors_to_remove = {} /\ descriptors_to_rescan = {}
    BY <1>1 DEF IInv, MarksWorkedOff
  <1>3. /\ \A s : Resolve(s)' = Resolve(s)
        /\ \A s : Wants(s)' <=> Wants(s)
    BY <1>1, SameSeats DEF Wants
  <1>4. /\ Tracked' = Tracked
        /\ \A k, p : WatchesPath(k, p)' <=> WatchesPath(k, p)
    BY <1>1 DEF WatchesPath, Tracked, tables
  <1>5. \A k \in Fds :
          Marked(k)' <=> notes[k] \cap {"DELETE", "RENAME"} # {}
                           \/ ("WRITE" \in notes[k] /\ file_modes[k])
    BY <1>1, <1>2 DEF Marked, ToRemove, ToRescan
  <1>6. ModesRight'
    BY <1>1, <1>4 DEF WatchesRight, ModesRight, tables
  <1>7. RightOrSuspect'
    <2>1. ASSUME NEW k \in Fds, NEW p \in Paths, WatchesPath(k, p)
          PROVE  Marked(k)' \/ open[k] = Resolve(p)
      <3>1. Suspect(k) \/ open[k] = Resolve(p)
        BY <2>1 DEF WatchesRight, RightOrSuspect
      <3> QED
        BY <1>2, <1>5, <3>1 DEF Suspect, Marked
    <2> QED
      BY <1>1, <1>3, <1>4, <2>1 DEF RightOrSuspect, Suspect
  <1>8. Listed'
    <2>1. SUFFICES ASSUME Recursive, NEW k \in Fds, NEW p \in Paths, NEW name \in Names,
                          Clean(k, p)', Len(p) < Depth, Wants(Append(p, name))'
                   PROVE  Covered(Append(p, name))'
      BY DEF Listed
    <2> DEFINE c == Append(p, name)
    <2>2. /\ c \in Paths /\ Wants(c) /\ WatchesPath(k, p) /\ open[k] = Resolve(p)
          /\ ~Marked(k)'
      BY <1>1, <1>3, <1>4, <2>1, ChildPath DEF Clean, Stale
    <2>3. Resolve(p) \in Inodes
      BY <2>2, WatchedBy
    <2>4. IsDir(Resolve(p)) /\ Resolve(c) \in Inodes /\ seat[Resolve(c)] # Nowhere
      BY <2>1, <2>2, <2>3, ChildOf DEF Wants
    <2>5. notes[k] = {}
      <3>1. file_modes[k]
        BY <2>2, <2>4 DEF WatchesRight, ModesRight, WatchesPath
      <3>2. notes[k] \subseteq {"WRITE", "DELETE", "RENAME"}
        BY DEF IInv, TypeOK, KernelTypeOK
      <3> QED
        BY <1>5, <2>2, <3>1, <3>2
    <2>6. Clean(k, p)
      BY <1>1, <1>2, <2>2, <2>5 DEF Clean, Stale, Marked
    <2>7. Covered(c)
      BY <2>1, <2>2, <2>6 DEF WatchesRight, Listed
    <2> HIDE DEF c
    <2>8. PICK j \in Fds : WatchesPath(j, c) /\ open[j] = Resolve(c)
      BY <1>1, <2>7 DEF Covered
    <2>9. j \notin ToRemove
      BY <2>4, <2>8 DEF FactsInv, DeletedGone, ToRemove
    <2>10. Covered(c)'
      BY <1>1, <1>2, <1>4, <2>8, <2>9 DEF Covered
    <2> QED
      BY <2>10 DEF c
  <1>9. RootsSeen'
    BY <1>1 DEF RootsSeen, VisitsRoots
  <1> QED
    BY <1>6, <1>7, <1>8, <1>9 DEF WatchesRight

LEMMA ChangeRight ==
  ASSUME IInv, FactsInv, WatchesRight, ChangeTree, ~missed'
  PROVE  WatchesRight'
  <1>1. UNCHANGED <<pc, root, todo, tables, marks, scanVars>>
    BY DEF ChangeTree, monitorVars, scanVars
  <1>2. CASE pc = "wait"
    BY <1>2, ChangeWaiting
  <1>3. CASE Idle
    <2>1. Idle'
      BY <1>1, <1>3 DEF Idle, Tracked, tables
    <2>2. pc \notin {"open", "list"}
      BY <1>3 DEF Idle, IInv, ScanShape
    <2> QED
      BY <1>1, <2>1, <2>2, IdleRightLater
  <1>4. CASE ~Resting
    <2>1. \E p \in Paths : Write(p)
      BY <1>4 DEF ChangeTree
    <2>2. UNCHANGED <<seat, open>>
      BY <2>1 DEF Write, WriteNode
    <2>3. pc # "wait"
      BY <1>4 DEF Resting
    <2>4. /\ \A s : Resolve(s)' = Resolve(s)
          /\ \A s : Wants(s)' <=> Wants(s)
      BY <2>2, SameSeats DEF Wants
    <2>5. /\ Tracked' = Tracked /\ (Idle' <=> Idle) /\ (VisitsRoots' <=> VisitsRoots)
          /\ \A k, p : WatchesPath(k, p)' <=> WatchesPath(k, p)
      BY <1>1 DEF WatchesPath, Tracked, tables, Idle, VisitsRoots, scanVars
    <2>6. ModesRight'
      BY <1>1, <2>2, <2>4, <2>5 DEF WatchesRight, ModesRight, tables, scanVars, Scanned
    <2>7. RightOrSuspect'
      BY <1>1, <2>2, <2>3, <2>4, <2>5 DEF WatchesRight, RightOrSuspect, Suspect, Marked, marks
    <2>8. /\ \A k, p : Clean(k, p)' <=> Clean(k, p)
          /\ \A p : Covered(p)' <=> Covered(p)
      BY <1>1, <2>2, <2>3, <2>4, <2>5
      DEF Clean, Covered, Stale, Marked, marks, scanVars, Scanned, In
    <2>9. Listed'
      BY <2>4, <2>8 DEF WatchesRight, Listed
    <2>10. RootsSeen'
      BY <1>1, <2>4, <2>5 DEF WatchesRight, RootsSeen, is_path_watched, In, tables
    <2> QED
      BY <2>6, <2>7, <2>9, <2>10 DEF WatchesRight
  <1> QED
    BY <1>2, <1>3, <1>4 DEF Resting

LEMMA InitializeRight ==
  ASSUME IInv, FactsInv, InitializeKqueue
  PROVE  pc' = "failed" \/ WatchesRight'
  <1>1. Tracked' = {}
    BY DEF InitializeKqueue, FactsInv, LoopKnown, Tracked, tables
  <1>2. pc' # "failed" => ~VisitsRoots' /\ pc' = "remove"
    BY DEF InitializeKqueue, VisitsRoots
  <1> QED
    BY <1>1, <1>2
    DEF WatchesRight, ModesRight, RightOrSuspect, Listed, RootsSeen, WatchesPath, Clean

LEMMA CaughtUpHolds == IInv /\ FactsInv /\ CaughtUpInv /\ [Next]_vars => CaughtUpInv'
  <1> SUFFICES ASSUME IInv, FactsInv, CaughtUpInv, [Next]_vars,
                      pc' \notin {"start", "failed"}, ~missed'
               PROVE  WatchesRight'
    BY DEF CaughtUpInv
  <1>1. CASE InitializeKqueue
    BY <1>1, InitializeRight
  <1>2. CASE AlreadyRunning \/ CallbackFails \/ WaitFails \/ Restart
    BY <1>2 DEF AlreadyRunning, CallbackFails, WaitFails, Restart
  <1>3. CASE AddWatchFails
    BY <1>3 DEF AddWatchFails
  <1>4. CASE ~(InitializeKqueue \/ AlreadyRunning \/ CallbackFails \/ WaitFails \/ Restart
                \/ AddWatchFails)
    <2>1. pc \notin {"start", "failed"} /\ ~missed
      BY <1>4
      DEF Next, MonitorStep, ChangeTree, monitorVars, vars, history, RemoveDeleted, AllRemoved,
          RescanPending, AllRescanned, VisitRoot, RootsVisited, ScanStat, AddWatch, ScanList,
          ScanDone, RegisterWatches, ProcessEvents, process_events, IInv, TypeOK
    <2>2. WatchesRight
      BY <2>1 DEF CaughtUpInv
    <2>3. CASE UNCHANGED vars
      <3>1. UNCHANGED <<seat, open, notes, scanVars, tables, marks, pc>>
        BY <2>3 DEF vars, kernelVars, treeVars, monitorVars
      <3>2. /\ \A s : Resolve(s)' = Resolve(s)
            /\ \A s : Wants(s)' <=> Wants(s)
        BY <3>1, SameSeats DEF Wants
      <3>3. /\ Tracked' = Tracked /\ (Idle' <=> Idle) /\ (VisitsRoots' <=> VisitsRoots)
            /\ \A k, p : WatchesPath(k, p)' <=> WatchesPath(k, p)
            /\ \A k : (Stale(k)' <=> Stale(k)) /\ (Suspect(k)' <=> Suspect(k))
        BY <3>1
        DEF WatchesPath, Tracked, tables, Idle, VisitsRoots, scanVars, Stale, Suspect, Marked,
            marks
      <3>4. /\ \A k, p : Clean(k, p)' <=> Clean(k, p)
            /\ \A p : Covered(p)' <=> Covered(p)
        BY <3>1, <3>2, <3>3 DEF Clean, Covered, scanVars, marks, Scanned, In
      <3>5. ModesRight' /\ RightOrSuspect'
        BY <2>2, <3>1, <3>2, <3>3
        DEF WatchesRight, ModesRight, RightOrSuspect, tables, scanVars, Scanned
      <3>6. Listed' /\ RootsSeen'
        BY <2>2, <3>1, <3>2, <3>3, <3>4
        DEF WatchesRight, Listed, RootsSeen, is_path_watched, In, tables, scanVars
      <3> QED
        BY <3>5, <3>6 DEF WatchesRight
    <2>4. CASE ChangeTree
      BY <2>2, <2>4, ChangeRight
    <2>5. CASE MonitorStep
      BY <1>4, <2>2, <2>5, RemoveDeletedRight, MoveOnRight, RescanPendingRight,
         VisitRootRight, ScanStatRight, AddWatchRight, ScanListRight, RegisterRight,
         ProcessEventsRight
      DEF MonitorStep
    <2> QED
      BY <1>4, <2>3, <2>4, <2>5 DEF Next
  <1> QED
    BY <1>1, <1>2, <1>3, <1>4

(* With all descriptors right and every directory listed, the paths below   *)
(* the roots are watched one level after the other.                         *)
LEMMA WantedWatched ==
  ASSUME IInv, FactsInv, WatchesRight, pc = "register", Tracked # {}
  PROVE  \A p \in Wanted : is_path_watched(p)
  <1>1. /\ todo = <<>> /\ root > Len(Roots) /\ ~Idle /\ VisitsRoots
        /\ Len(Roots) \in Nat /\ DOMAIN Roots = 1 .. Len(Roots) /\ root \in Nat
    BY MonitorAssumption, LenProperties
    DEF FactsInv, LoopKnown, Idle, VisitsRoots, IInv, TypeOK
  <1>2. \A i \in DOMAIN Roots : Wants(Roots[i]) => is_path_watched(Roots[i])
    BY <1>1, InNone DEF WatchesRight, RootsSeen
  <1>3. ASSUME NEW p \in Paths, NEW name \in Names, Recursive, Len(p) < Depth,
               is_path_watched(p), Wants(Append(p, name))
        PROVE  is_path_watched(Append(p, name))
    <2> DEFINE c == Append(p, name)
    <2>1. PICK fd \in Fds : WatchesPath(fd, p)
      BY <1>3, WatchedBy
    <2>2. Clean(fd, p)
      BY <2>1, NoMarksRight DEF Clean
    <2>3. Covered(c) /\ c \in Paths
      BY <1>3, <2>2, ChildPath DEF WatchesRight, Listed
    <2> HIDE DEF c
    <2>4. is_path_watched(c)
      BY <1>1, <2>3, InNone, WatchedBy DEF Covered
    <2> QED
      BY <2>4 DEF c
  <1> DEFINE Missing(p) == p \in Wanted /\ ~is_path_watched(p)
             T == {j \in Nat : \E p \in Paths : Len(p) = j /\ Missing(p)}
  <1>4. ASSUME NEW p \in Paths, Missing(p)
        PROVE  \E q \in Paths : Missing(q) /\ Len(q) = Len(p) - 1
    <2>1. Wants(p) /\ Resolve(p) \in Inodes /\ Len(p) \in 1 .. Depth /\ Depth \in Nat
      BY <1>4, ResolveFound, PathTyped, TreeAssumption DEF Wanted, Wants
    <2>2. PICK i \in DOMAIN Roots : p = Roots[i] \/ (Recursive /\ IsPrefix(Roots[i], p))
      BY <1>4 DEF Wanted
    <2>3. p # Roots[i]
      BY <1>2, <1>4, <2>1
    <2> DEFINE r == Roots[i]
    <2>4. r \in Paths /\ Recursive /\ IsPrefix(r, p)
      BY <2>2, <2>3, MonitorAssumption, ElementOfSeq, LenProperties
    <2> HIDE DEF r
    <2>5. /\ r \in Seq(Names) /\ p \in Seq(Names) /\ Len(r) \in 1 .. Depth
          /\ Len(r) <= Len(p) /\ \A k \in 1 .. Len(r) : r[k] = p[k]
      BY <2>4, PathTyped, SubSeqProperties DEF IsPrefix
    <2>6. Len(r) # Len(p)
      BY <2>3, <2>5, SeqEqual DEF r
    <2>7. Len(p) # 1 /\ Len(r) <= Len(p) - 1 /\ Len(p) - 1 < Depth
      BY <2>1, <2>5, <2>6
    <2> DEFINE q == Front(p)
    <2>8. q \in Paths /\ Len(q) = Len(p) - 1 /\ Append(q, Last(p)) = p /\ Last(p) \in Names
      BY <2>7, FrontPath, FrontAppend, PathTyped
    <2>9. \A k \in 1 .. Len(p) - 1 : q[k] = p[k]
      BY <2>1, <2>5, <2>7 DEF Front
    <2> HIDE DEF q
    <2>10. IsPrefix(r, q)
      <3>1. q \in Seq(Names)
        BY <2>8, PathTyped
      <3> QED
        BY <2>1, <2>5, <2>7, <2>8, <2>9, <3>1 DEF IsPrefix
    <2>11. Resolve(q) \in Inodes
      <3>1. Parent(p) # Nowhere
        BY <2>1, ResolveStep, TreeAssumption
      <3> QED
        BY <2>7, <3>1, ParentIs DEF q
    <2>12. IsDir(Resolve(q))
      BY <2>1, <2>7, <2>8, <2>11, ChildOf DEF Wants
    <2>13. q \in Wanted
      <3>1. Resolve(q) # Nowhere
        BY <2>11, TreeAssumption
      <3> QED
        BY <2>4, <2>8, <2>10, <2>12, <3>1 DEF Wanted, r
    <2>14. ~is_path_watched(q)
      BY <1>3, <1>4, <2>1, <2>4, <2>7, <2>8
    <2> QED
      BY <2>8, <2>13, <2>14
  <1> HIDE DEF Missing
  <1>5. T = {}
    <2>1. SUFFICES ASSUME T # {} PROVE FALSE
      OBVIOUS
    <2>2. PICK k \in T : \A j \in T : k <= j
      <3>1. T \in SUBSET Nat
        OBVIOUS
      <3> HIDE DEF T
      <3> QED
        BY <2>1, <3>1, LeastNumber
    <2>3. PICK p \in Paths : Len(p) = k /\ Missing(p)
      OBVIOUS
    <2>4. PICK q \in Paths : Missing(q) /\ Len(q) = k - 1
      BY <1>4, <2>3
    <2>5. Len(q) \in 1 .. Depth /\ Depth \in Nat
      BY PathTyped, TreeAssumption
    <2>6. k - 1 \in T
      BY <2>4, <2>5
    <2> QED
      BY <2>2, <2>6
  <1>6. \A p \in Paths : Len(p) \in Nat
    BY PathTyped, TreeAssumption
  <1>7. \A p \in Paths : ~Missing(p)
    BY <1>5, <1>6
  <1> QED
    BY <1>7 DEF Missing, Wanted

LEMMA WatchedWanted ==
  ASSUME IInv, FactsInv, WatchesRight, pc = "register", NEW p \in Paths, is_path_watched(p)
  PROVE  p \in Wanted /\ open[descriptors_by_file_name[p]] = Resolve(p)
  <1>1. PICK fd \in Fds : WatchesPath(fd, p)
    BY WatchedBy
  <1>2. /\ fd = descriptors_by_file_name[p] /\ fd \in Tracked
        /\ file_names_by_descriptor[fd] = p
        /\ open[fd] = Resolve(p) /\ open[fd] \in Inodes
    BY <1>1, WatchedBy, NoMarksRight DEF WatchesPath
  <1>3. Below(p)
    BY <1>2 DEF FactsInv, OnlyBelow
  <1>4. IsDir(Resolve(p)) \/ p \notin Rejected
    BY <1>2 DEF FactsInv, ModesAllowed, WatchesRight, ModesRight
  <1> QED
    BY <1>2, <1>3, <1>4, TreeAssumption DEF Wanted, Below

(* Whenever the monitor is about to call kevent, it watches exactly the     *)
(* paths below the roots, each through the inode it leads to, unless it     *)
(* missed a change: for every tree, every order of changes and system calls *)
(* and every sequence of roots.                                             *)
THEOREM KqueueCaughtUp == Spec => []CaughtUp
  <1>1. Init => CaughtUpInv
    BY DEF Init, CaughtUpInv
  <1>2. IInv /\ FactsInv /\ CaughtUpInv => CaughtUp
    <2>1. SUFFICES ASSUME IInv, FactsInv, CaughtUpInv, pc = "register", Tracked # {}, ~missed
                   PROVE  WatchesWanted
      BY DEF CaughtUp
    <2>2. WatchesRight
      BY <2>1 DEF CaughtUpInv
    <2> QED
      BY <2>1, <2>2, WantedWatched, WatchedWanted DEF WatchesWanted, Wanted
  <1>3. Spec => []FactsInv
    BY InitFacts, FactsHold, KqueueInvariant, PTL DEF Spec
  <1> QED
    BY <1>1, <1>2, <1>3, CaughtUpHolds, KqueueInvariant, PTL DEF Spec
=============================================================================
