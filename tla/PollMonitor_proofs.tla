------------------------- MODULE PollMonitor_proofs -------------------------
(***************************************************************************)
(* Proofs that the poll monitor tells a coherent story, forgets no change   *)
(* and ends with the tree as it is, for every tree, every sequence of roots *)
(* and every change made while a scan is on its way.                        *)
(***************************************************************************)
EXTENDS PollMonitor, FiniteSetTheorems, SequenceTheorems, WellFoundedInduction, TLAPS

Item == [path : Paths, read : BOOLEAN]

(* What keeps the events coherent: a path is in one of the two maps at most, *)
ScanMaps ==
  /\ pc # "collect" => new_data = NoData
  /\ Tracked(previous_data) \cap Tracked(new_data) = {}

(* both together are the paths that exist for the reader,                   *)
ViewExact == view = (Tracked(previous_data) \cup Tracked(new_data)) \ Rejected

(* and the events of a scan are of paths the scan has found.                *)
EventsFound ==
  /\ pc = "collect" => \A e \in events : e.path \in Tracked(new_data)
  /\ pc \in {"initial", "sleep", "failed"} => events = {}

IInv == TypeOK /\ ScanMaps /\ ViewExact /\ EventsFound /\ OneEventPerPath

-----------------------------------------------------------------------------
(* The tree.                                                                *)

LEMMA ChildPath ==
  ASSUME NEW p \in Paths, NEW name \in Names, Len(p) < Depth
  PROVE  Append(p, name) \in Paths
  <1>1. PICK n \in 1 .. Depth : p \in [1 .. n -> Names]
    BY DEF Paths
  <1>2. Depth \in Nat /\ n \in Nat /\ Len(p) = n /\ p \in Seq(Names)
    BY <1>1, FilesAssumption
  <1>3. Append(p, name) \in [1 .. n + 1 -> Names]
    <2>1. Append(p, name) \in Seq(Names) /\ Len(Append(p, name)) = n + 1
      BY <1>2, AppendProperties
    <2> QED
      BY <2>1, LenProperties
  <1>4. n + 1 \in 1 .. Depth
    BY <1>2
  <1> QED
    BY <1>3, <1>4 DEF Paths

LEMMA TouchedTyped ==
  ASSUME FilesTypeOK, NEW nodes \in [Paths -> Node \cup {Absent}], NEW changed
  PROVE  Touched(nodes, changed) \in [Paths -> Node \cup {Absent}]
  <1>1. now \in Nat
    BY FilesAssumption DEF FilesTypeOK
  <1>2. ASSUME NEW d \in Paths, nodes[d] # Absent
        PROVE  [nodes[d] EXCEPT !.mtime = now, !.ctime = now] \in Node
    BY <1>1, <1>2 DEF Node
  <1> QED
    BY <1>2 DEF Touched

LEMMA MovedTyped ==
  ASSUME FilesTypeOK, NEW p \in Paths, NEW q \in Paths, node[p] # Absent
  PROVE  Moved(p, q) \in [Paths -> Node \cup {Absent}]
  <1>1. now \in Nat /\ node[p] \in Node
    BY FilesAssumption DEF FilesTypeOK
  <1>2. [node[p] EXCEPT !.ctime = now] \in Node
    BY <1>1 DEF Node
  <1> QED
    BY <1>2 DEF Moved, FilesTypeOK

LEMMA CountTyped == FilesTypeOK /\ Count => now' \in 0 .. MaxTime /\ ops' \in 0 .. MaxOps
  BY FilesAssumption DEF FilesTypeOK, Count

LEMMA ChangePathTyped ==
  ASSUME FilesTypeOK, NEW p \in Paths, ChangePath(p)
  PROVE  FilesTypeOK'
  <1>1. now \in Nat
    BY FilesAssumption DEF FilesTypeOK
  <1>2. Count
    BY DEF ChangePath, Make, Write, SetAttributes, Delete
  <1>3. CASE Make(p)
    <2>1. PICK d \in BOOLEAN :
            node' = Touched([node EXCEPT ![p] = [dir |-> d, mtime |-> now, ctime |-> now]], {p})
      BY <1>3 DEF Make
    <2>2. [dir |-> d, mtime |-> now, ctime |-> now] \in Node
      BY <1>1 DEF Node
    <2>3. [node EXCEPT ![p] = [dir |-> d, mtime |-> now, ctime |-> now]]
            \in [Paths -> Node \cup {Absent}]
      BY <2>2 DEF FilesTypeOK
    <2> QED
      BY <1>2, <2>1, <2>3, CountTyped, TouchedTyped DEF FilesTypeOK
  <1>4. CASE Write(p)
    <2>1. node[p] \in Node
      BY <1>4 DEF Write, FilesTypeOK
    <2>2. [node[p] EXCEPT !.mtime = now, !.ctime = now] \in Node
      BY <1>1, <2>1 DEF Node
    <2> QED
      BY <1>2, <1>4, <2>2, CountTyped DEF Write, FilesTypeOK
  <1>5. CASE SetAttributes(p)
    <2>1. node[p] \in Node
      BY <1>5 DEF SetAttributes, FilesTypeOK
    <2>2. [node[p] EXCEPT !.ctime = now] \in Node
      BY <1>1, <2>1 DEF Node
    <2> QED
      BY <1>2, <1>5, <2>2, CountTyped DEF SetAttributes, FilesTypeOK
  <1>6. CASE Delete(p)
    <2>1. [node EXCEPT ![p] = Absent] \in [Paths -> Node \cup {Absent}]
      BY DEF FilesTypeOK
    <2> QED
      BY <1>2, <1>6, <2>1, CountTyped, TouchedTyped DEF Delete, FilesTypeOK
  <1> QED
    BY <1>3, <1>4, <1>5, <1>6 DEF ChangePath

LEMMA MoveTyped ==
  ASSUME FilesTypeOK, NEW p \in Paths, NEW q \in Paths, Move(p, q)
  PROVE  FilesTypeOK'
  <1>1. Count /\ node[p] # Absent /\ node' = Touched(Moved(p, q), {p, q})
    BY DEF Move
  <1> QED
    BY <1>1, CountTyped, MovedTyped, TouchedTyped DEF FilesTypeOK

-----------------------------------------------------------------------------
(* The scan.                                                                *)

LEMMA TimesTyped ==
  ASSUME TypeOK, NEW p \in Paths, node[p] # Absent
  PROVE  TimesOf(p) \in Times /\ TimesOf(p) # Absent
  BY PollAssumption DEF TypeOK, FilesTypeOK, Node, TimesOf, Times

LEMMA ScannedTyped ==
  ASSUME TypeOK, todo # <<>>
  PROVE  Scanned \in Paths /\ Tail(todo) \in Seq(Item)
  <1>1. todo \in Seq(Item)
    BY DEF TypeOK, Item
  <1>2. Head(todo) \in Item /\ Tail(todo) \in Seq(Item)
    BY <1>1, HeadTailProperties
  <1> QED
    BY <1>2 DEF Scanned, Item

LEMMA AddedTyped ==
  ASSUME TypeOK, todo # <<>>, Added \/ Left
  PROVE  todo' \in Seq(Item)
  <1>1. [todo EXCEPT ![1].read = TRUE] \in Seq(Item)
    <2>1. todo \in Seq(Item) /\ 1 \in 1 .. Len(todo)
      BY EmptySeq DEF TypeOK, Item
    <2>2. todo[1] \in Item
      BY <2>1, ElementOfSeq
    <2>3. [todo[1] EXCEPT !.read = TRUE] \in Item
      BY <2>2 DEF Item
    <2> QED
      BY <2>1, <2>3, ExceptSeq
  <1> QED
    BY <1>1, ScannedTyped DEF Added, Left

LEMMA RootsTyped == RootsToScan \in Seq(Item)
  <1>1. Roots \in [1 .. Len(Roots) -> Paths] /\ Len(Roots) \in Nat
    BY PollAssumption, LenProperties
  <1>2. \A i \in 1 .. Len(Roots) : ToStat(Roots[i]) \in Item
    BY <1>1 DEF ToStat, Item
  <1>3. RootsToScan = [i \in 1 .. Len(Roots) |-> ToStat(Roots[i])]
    BY <1>1 DEF RootsToScan
  <1> QED
    BY <1>1, <1>2, <1>3

LEMMA ChildrenTyped ==
  ASSUME TypeOK, todo # <<>>, NEW names \in SetToSeqs(Children(Scanned))
  PROVE  [i \in DOMAIN names |-> ToStat(Append(Scanned, names[i]))] \in Seq(Item)
  <1>1. Cardinality(Children(Scanned)) \in Nat
    BY FilesAssumption, FS_Subset, FS_CardinalityType DEF Children
  <1>2. names \in [1 .. Cardinality(Children(Scanned)) -> Children(Scanned)]
    BY DEF SetToSeqs
  <1>3. ASSUME NEW name \in Children(Scanned)
        PROVE  ToStat(Append(Scanned, name)) \in Item
    BY ScannedTyped, ChildPath DEF Children, ToStat, Item
  <1> QED
    BY <1>1, <1>2, <1>3

(* What a scan finds: at most one event, created if the path is new.        *)
LEMMA FoundFacts ==
  ASSUME TypeOK, NEW p \in Paths
  PROVE  /\ \A e \in Found(p) : e.path = p /\ p \notin Rejected
         /\ \A e, f \in Found(p) : e = f
         /\ Found(p) \subseteq [path : Paths \ Rejected, flags : (SUBSET AllFlags) \ {{}}]
         /\ \A e \in Found(p) : e.flags = {"Created"} <=> previous_data[p] = Absent
         /\ previous_data[p] = Absent /\ p \notin Rejected => \E e \in Found(p) : e.path = p
  <1>1. Flags(p) \subseteq {"Updated", "AttributeModified"}
    BY DEF Flags
  <1>2. CASE p \in Rejected \/ (previous_data[p] # Absent /\ Flags(p) = {})
    BY <1>2 DEF Found
  <1>3. CASE p \notin Rejected /\ previous_data[p] = Absent
    <2>1. Found(p) = {[path |-> p, flags |-> {"Created"}]}
      BY <1>3 DEF Found, Event
    <2> QED
      BY <1>3, <2>1 DEF AllFlags
  <1>4. CASE p \notin Rejected /\ previous_data[p] # Absent /\ Flags(p) # {}
    <2>1. Found(p) = {[path |-> p, flags |-> Flags(p)]}
      BY <1>4 DEF Found, Event
    <2>2. Flags(p) # {"Created"} /\ Flags(p) \in (SUBSET AllFlags) \ {{}}
      BY <1>1, <1>4 DEF AllFlags
    <2> QED
      BY <1>4, <2>1, <2>2
  <1> QED
    BY <1>2, <1>3, <1>4

-----------------------------------------------------------------------------
(* The steps.                                                               *)

LEMMA InitHolds == Init => IInv
  <1> SUFFICES ASSUME Init PROVE IInv
    OBVIOUS
  <1>1. TypeOK
    <2>1. MaxTime \in Nat /\ MaxOps \in Nat /\ InitialNodes \in [Paths -> Node \cup {Absent}]
      BY FilesAssumption
    <2>2. FilesTypeOK /\ asleep \in 0 .. MaxTime
      BY <2>1 DEF Init, FilesInit, FilesTypeOK
    <2>3. NoData \in [Paths -> Times \cup {Absent}]
      BY DEF NoData
    <2> QED
      BY <2>2, <2>3, RootsTyped DEF Init, TypeOK, Item
  <1>2. Tracked(previous_data) = {} /\ Tracked(new_data) = {}
    BY DEF Init, NoData, Tracked
  <1> QED
    BY <1>1, <1>2 DEF Init, IInv, ScanMaps, ViewExact, EventsFound, OneEventPerPath

LEMMA ChangeTreeHolds == IInv /\ ChangeTree => IInv'
  <1> SUFFICES ASSUME IInv, ChangeTree PROVE IInv'
    OBVIOUS
  <1>1. FilesTypeOK'
    BY ChangePathTyped, MoveTyped DEF ChangeTree, IInv, TypeOK
  <1>2. owed' \subseteq Paths /\ steady' \in BOOLEAN
    BY DEF ChangeTree, IInv, TypeOK
  <1>3. UNCHANGED <<pollVars, view>>
    BY DEF ChangeTree
  <1> QED
    BY <1>1, <1>2, <1>3
    DEF IInv, TypeOK, ScanMaps, ViewExact, EventsFound, OneEventPerPath, Tracked, pollVars

LEMMA PassTimeHolds == IInv /\ PassTime => IInv'
  <1> SUFFICES ASSUME IInv, PassTime PROVE IInv'
    OBVIOUS
  <1>1. FilesTypeOK'
    BY FilesAssumption DEF PassTime, Tick, IInv, TypeOK, FilesTypeOK
  <1> QED
    BY <1>1
    DEF PassTime, IInv, TypeOK, ScanMaps, ViewExact, EventsFound, OneEventPerPath, Tracked,
        pollVars, history

(* A path enters the map of the scan.                                       *)
LEMMA TrackedExcept ==
  ASSUME NEW data \in [Paths -> Times \cup {Absent}], NEW p \in Paths, NEW t, t # Absent
  PROVE  Tracked([data EXCEPT ![p] = t]) = Tracked(data) \cup {p}
  BY DEF Tracked

LEMMA TrackedErased ==
  ASSUME NEW data \in [Paths -> Times \cup {Absent}], NEW p \in Paths
  PROVE  Tracked([data EXCEPT ![p] = Absent]) = Tracked(data) \ {p}
  BY DEF Tracked

LEMMA InitialScanHolds == IInv /\ InitialScan => IInv'
  <1> SUFFICES ASSUME IInv, InitialScan PROVE IInv'
    OBVIOUS
  <1>1. TypeOK /\ pc = "initial" /\ todo # <<>> /\ UNCHANGED <<fileVars, pc, new_data, events, kept, asleep, owed, steady>>
    BY DEF IInv, InitialScan, Scanning
  <1>2. Scanned \in Paths
    BY <1>1, ScannedTyped
  <1>3. todo' \in Seq(Item)
    BY <1>1, AddedTyped DEF InitialScan
  <1>4. CASE UNCHANGED <<previous_data, view>>
    BY <1>1, <1>3, <1>4
    DEF IInv, TypeOK, FilesTypeOK, fileVars, Item, ScanMaps, ViewExact, EventsFound,
        OneEventPerPath, Tracked
  <1>5. CASE /\ ToAdd(Scanned)
             /\ previous_data' = [previous_data EXCEPT ![Scanned] = TimesOf(Scanned)]
             /\ view' = view \cup ({Scanned} \ Rejected)
    <2>1. TimesOf(Scanned) \in Times /\ TimesOf(Scanned) # Absent
      BY <1>1, <1>2, <1>5, TimesTyped DEF ToAdd
    <2>2. Tracked(previous_data') = Tracked(previous_data) \cup {Scanned}
      BY <1>1, <1>2, <1>5, <2>1, TrackedExcept DEF TypeOK
    <2>3. TypeOK'
      BY <1>1, <1>2, <1>3, <1>5, <2>1 DEF TypeOK, FilesTypeOK, fileVars, Item
    <2>4. Tracked(new_data) = {} /\ Tracked(new_data') = {} /\ new_data' = NoData
      BY <1>1 DEF IInv, ScanMaps, NoData, Tracked
    <2>5. ScanMaps' /\ ViewExact'
      BY <1>5, <2>2, <2>4 DEF IInv, ScanMaps, ViewExact
    <2> QED
      BY <1>1, <2>3, <2>5 DEF IInv, EventsFound, OneEventPerPath
  <1> QED
    BY <1>4, <1>5 DEF InitialScan

(* What the examination of a path changes.                                  *)
LEMMA ExamineEffect ==
  ASSUME IInv, pc = "collect", NEW p \in Paths, node[p] # Absent, new_data[p] = Absent,
         Examine(p)
  PROVE  /\ Tracked(new_data') = Tracked(new_data) \cup {p}
         /\ Tracked(previous_data') = Tracked(previous_data) \ {p}
         /\ new_data' \in [Paths -> Times \cup {Absent}]
         /\ previous_data' \in [Paths -> Times \cup {Absent}]
         /\ view' = view \cup ({p} \ Rejected)
         /\ \A e \in events : e.path # p
  <1>1. TypeOK /\ TimesOf(p) \in Times /\ TimesOf(p) # Absent
    BY TimesTyped DEF IInv
  <1>2. Tracked(new_data') = Tracked(new_data) \cup {p}
    BY <1>1, TrackedExcept DEF Examine, TypeOK
  <1>3. Tracked(previous_data') = Tracked(previous_data) \ {p}
    BY <1>1, TrackedErased DEF Examine, TypeOK
  <1>4. p \notin Tracked(new_data)
    BY DEF Tracked
  <1>5. \A e \in events : e.path # p
    BY <1>4 DEF IInv, EventsFound
  <1>6. view' = view \cup ({p} \ Rejected)
    <2>1. CASE p \notin Rejected /\ previous_data[p] = Absent
      BY <1>1, <2>1, FoundFacts DEF Examine
    <2>2. CASE p \notin Rejected /\ previous_data[p] # Absent
      <3>1. p \in view
        BY <2>2 DEF IInv, ViewExact, Tracked
      <3>2. {e.path : e \in Found(p)} \subseteq {p}
        BY <1>1, FoundFacts
      <3> QED
        BY <3>1, <3>2 DEF Examine
    <2>3. CASE p \in Rejected
      <3>1. Found(p) = {}
        BY <2>3 DEF Found
      <3> QED
        BY <2>3, <3>1 DEF Examine
    <2> QED
      BY <2>1, <2>2, <2>3
  <1> QED
    BY <1>1, <1>2, <1>3, <1>5, <1>6 DEF Examine, TypeOK

LEMMA IntermediateScanHolds == IInv /\ IntermediateScan => IInv'
  <1> SUFFICES ASSUME IInv, IntermediateScan PROVE IInv'
    OBVIOUS
  <1>1. TypeOK /\ pc = "collect" /\ todo # <<>> /\ UNCHANGED <<fileVars, pc, kept, asleep, steady>>
    BY DEF IInv, IntermediateScan, Scanning
  <1>2. Scanned \in Paths
    BY <1>1, ScannedTyped
  <1>3. todo' \in Seq(Item)
    BY <1>1, AddedTyped DEF IntermediateScan
  <1>4. CASE UNCHANGED <<previous_data, new_data, events, view, owed>>
    BY <1>1, <1>3, <1>4
    DEF IInv, TypeOK, FilesTypeOK, fileVars, Item, ScanMaps, ViewExact, EventsFound,
        OneEventPerPath, Tracked
  <1>5. CASE ToAdd(Scanned) /\ new_data[Scanned] = Absent /\ Examine(Scanned)
    <2> DEFINE p == Scanned
    <2>1. /\ Tracked(new_data') = Tracked(new_data) \cup {p}
          /\ Tracked(previous_data') = Tracked(previous_data) \ {p}
          /\ new_data' \in [Paths -> Times \cup {Absent}]
          /\ previous_data' \in [Paths -> Times \cup {Absent}]
          /\ view' = view \cup ({p} \ Rejected)
          /\ \A e \in events : e.path # p
      BY <1>1, <1>2, <1>5, ExamineEffect DEF ToAdd
    <2>2. events' = events \cup Found(p) /\ owed' \subseteq owed
      BY <1>5 DEF Examine
    <2>3. /\ \A e \in Found(p) : e.path = p
          /\ \A e, f \in Found(p) : e = f
          /\ Found(p) \subseteq [path : Paths \ Rejected, flags : (SUBSET AllFlags) \ {{}}]
      BY <1>1, <1>2, FoundFacts
    <2> HIDE DEF p
    <2>4. TypeOK'
      BY <1>1, <1>2, <1>3, <2>1, <2>2, <2>3 DEF TypeOK, FilesTypeOK, fileVars, Item, p
    <2>5. ScanMaps'
      BY <1>1, <2>1 DEF IInv, ScanMaps
    <2>6. ViewExact'
      BY <2>1 DEF IInv, ViewExact
    <2>7. EventsFound'
      BY <1>1, <2>1, <2>2, <2>3 DEF IInv, EventsFound
    <2>8. OneEventPerPath'
      BY <2>1, <2>2, <2>3 DEF IInv, OneEventPerPath
    <2> QED
      BY <2>4, <2>5, <2>6, <2>7, <2>8 DEF IInv
  <1> QED
    BY <1>4, <1>5 DEF IntermediateScan

LEMMA ScanChildrenHolds == IInv /\ ScanChildren => IInv'
  <1> SUFFICES ASSUME IInv, ScanChildren PROVE IInv'
    OBVIOUS
  <1>1. todo' \in Seq(Item)
    <2>1. PICK names \in SetToSeqs(Children(Scanned)) :
            todo' = [i \in DOMAIN names |-> ToStat(Append(Scanned, names[i]))] \o Tail(todo)
      BY DEF ScanChildren
    <2> QED
      BY <2>1, ChildrenTyped, ScannedTyped, ConcatProperties DEF ScanChildren, IInv
  <1> QED
    BY <1>1
    DEF ScanChildren, IInv, TypeOK, FilesTypeOK, fileVars, history, Item, ScanMaps, ViewExact,
        EventsFound, OneEventPerPath, Tracked

LEMMA FindRemovedFilesHolds == IInv /\ FindRemovedFiles => IInv'
  <1> SUFFICES ASSUME IInv, FindRemovedFiles PROVE IInv'
    OBVIOUS
  <1>1. Tracked(new_data') = {} /\ Tracked(previous_data') = Tracked(new_data)
    BY DEF FindRemovedFiles, Tracked, NoData
  <1>2. Gone \cap Tracked(new_data) = {} /\ Gone \subseteq Paths \ Rejected
    BY DEF IInv, ScanMaps, Gone, Tracked
  <1>3. TypeOK'
    <2>1. events' \subseteq [path : Paths \ Rejected, flags : (SUBSET AllFlags) \ {{}}]
      BY <1>2 DEF FindRemovedFiles, IInv, TypeOK, Event, AllFlags
    <2>2. new_data' \in [Paths -> Times \cup {Absent}]
      BY DEF FindRemovedFiles, NoData
    <2> QED
      BY <2>1, <2>2 DEF FindRemovedFiles, IInv, TypeOK, FilesTypeOK, fileVars
  <1>4. ScanMaps'
    BY <1>1 DEF FindRemovedFiles, ScanMaps
  <1>5. ViewExact'
    BY <1>1, <1>2 DEF FindRemovedFiles, IInv, ViewExact, Gone
  <1>6. EventsFound'
    BY DEF FindRemovedFiles, EventsFound
  <1>7. OneEventPerPath'
    <2>1. \A e \in events : e.path \notin Gone
      BY <1>2 DEF FindRemovedFiles, IInv, EventsFound
    <2>2. \A p \in Gone : Event(p, {"Removed"}).path = p
      BY DEF Event
    <2> QED
      BY <2>1, <2>2 DEF FindRemovedFiles, IInv, OneEventPerPath
  <1> QED
    BY <1>3, <1>4, <1>5, <1>6, <1>7 DEF IInv

LEMMA QuietStepsHold ==
  IInv /\ (InitialScanDone \/ NotifyEvents \/ NotifyFails \/ Restart \/ Wake) => IInv'
  <1> SUFFICES ASSUME IInv,
                      InitialScanDone \/ NotifyEvents \/ NotifyFails \/ Restart \/ Wake
               PROVE  IInv'
    OBVIOUS
  <1>1. TypeOK'
    BY RootsTyped, FilesAssumption
    DEF InitialScanDone, NotifyEvents, NotifyFails, Restart, Wake, IInv, TypeOK, FilesTypeOK,
        fileVars, history, Item
  <1> QED
    BY <1>1
    DEF InitialScanDone, NotifyEvents, NotifyFails, Restart, Wake, IInv, ScanMaps, ViewExact,
        EventsFound, OneEventPerPath, Tracked, history

(* The inductive invariant holds in every state.                            *)
THEOREM PollInvariant == Spec => []IInv
  <1>1. Init => IInv
    BY InitHolds
  <1>2. IInv /\ [Next]_vars => IInv'
    <2> SUFFICES ASSUME IInv, [Next]_vars PROVE IInv'
      OBVIOUS
    <2>1. CASE Next
      BY <2>1, ChangeTreeHolds, PassTimeHolds, InitialScanHolds, IntermediateScanHolds,
         ScanChildrenHolds, FindRemovedFilesHolds, QuietStepsHold
      DEF Next, PollStep
    <2>2. CASE UNCHANGED vars
      BY <2>2
      DEF vars, pollVars, fileVars, history, IInv, TypeOK, FilesTypeOK, ScanMaps, ViewExact,
          EventsFound, OneEventPerPath, Tracked
    <2> QED
      BY <2>1, <2>2
  <1> QED
    BY <1>1, <1>2, PTL DEF Spec

(* The callback hears of a path once of each scan, however often and in    *)
(* whatever order the scan meets it.                                        *)
THEOREM OncePerBatch == Spec => []OneEventPerPath
  <1>1. IInv => OneEventPerPath
    BY DEF IInv
  <1> QED
    BY <1>1, PollInvariant, PTL

(* Every state of the poll monitor is well typed.                           *)
THEOREM PollTypes == Spec => []TypeOK
  <1>1. IInv => TypeOK
    BY DEF IInv
  <1> QED
    BY <1>1, PollInvariant, PTL

(* A path is created, changed and removed in an order that makes sense.     *)
THEOREM Coherence == Spec => EventsCoherent
  <1> DEFINE Coherent(e) == IF e.flags = {"Created"} THEN e.path \notin view ELSE e.path \in view
  <1>1. ASSUME IInv, [Next]_vars, NEW e \in events' \ events
        PROVE  Coherent(e)
    <2>1. CASE IntermediateScan
      <3>1. ToAdd(Scanned) /\ new_data[Scanned] = Absent /\ events' = events \cup Found(Scanned)
        BY <1>1, <2>1 DEF IntermediateScan, Examine
      <3>2. TypeOK /\ Scanned \in Paths
        BY <1>1, <2>1, ScannedTyped DEF IInv, IntermediateScan, Scanning
      <3>3. /\ e.path = Scanned /\ Scanned \notin Rejected
            /\ e.flags = {"Created"} <=> previous_data[Scanned] = Absent
        BY <1>1, <3>1, <3>2, FoundFacts
      <3>4. Scanned \in view <=> previous_data[Scanned] # Absent
        BY <1>1, <3>1, <3>2, <3>3 DEF IInv, ViewExact, Tracked
      <3> QED
        BY <3>3, <3>4
    <2>2. CASE FindRemovedFiles
      <3>1. PICK p \in Gone : e = Event(p, {"Removed"})
        BY <1>1, <2>2 DEF FindRemovedFiles
      <3>2. e.path = p /\ e.flags # {"Created"}
        BY <3>1 DEF Event
      <3>3. p \in view
        BY <1>1, <3>1 DEF IInv, ViewExact, Gone
      <3> QED
        BY <3>2, <3>3
    <2>3. events' \subseteq events \/ IntermediateScan \/ FindRemovedFiles
      BY <1>1
      DEF Next, PollStep, ChangeTree, PassTime, InitialScan, ScanChildren, InitialScanDone,
          NotifyEvents, NotifyFails, Restart, Wake, vars, pollVars
    <2> QED
      BY <1>1, <2>1, <2>2, <2>3
  <1>2. IInv /\ [Next]_vars
          => [\A e \in events' \ events :
                IF e.flags = {"Created"} THEN e.path \notin view ELSE e.path \in view]_vars
    BY <1>1
  <1> QED
    BY <1>2, PollInvariant, PTL DEF Spec, EventsCoherent
-----------------------------------------------------------------------------
(* No change is swallowed.  A path that is owed an event is known, from a   *)
(* second before its change, and the next comparison sees the change.       *)
OwedVisible ==
  \A p \in owed : /\ p \notin Rejected
                  /\ LastSeen(p) # Absent
                  /\ LastSeen(p).ctime < now
                  /\ Visible(p)

LEMMA LastSeenTyped ==
  ASSUME TypeOK, NEW p \in Paths, LastSeen(p) # Absent
  PROVE  LastSeen(p) \in Times /\ LastSeen(p).ctime \in Nat
  BY DEF TypeOK, LastSeen, Times

(* What a change of the tree does to the node of a path.                    *)
Renewed(s) == node'[s] = Absent \/ node'[s].ctime = now

LEMMA TouchedNodes ==
  ASSUME NEW nodes \in [Paths -> Node \cup {Absent}], NEW changed,
         node' = Touched(nodes, changed), NEW s \in Paths, FilesTypeOK
  PROVE  node'[s] = nodes[s] \/ Renewed(s)
  <1>1. CASE nodes[s] # Absent /\ \E p \in changed : Len(p) > 1 /\ Front(p) = s
    <2>1. node'[s] = [nodes[s] EXCEPT !.mtime = now, !.ctime = now]
      BY <1>1 DEF Touched
    <2>2. nodes[s] \in Node
      BY <1>1
    <2> QED
      BY <2>1, <2>2 DEF Renewed, Node
  <1>2. CASE ~(nodes[s] # Absent /\ \E p \in changed : Len(p) > 1 /\ Front(p) = s)
    BY <1>2 DEF Touched
  <1> QED
    BY <1>1, <1>2

LEMMA ChangedNodes ==
  ASSUME FilesTypeOK, NEW p \in Paths, ChangePath(p), NEW s \in Paths
  PROVE  node'[s] = node[s] \/ Renewed(s)
  <1>1. CASE Make(p)
    <2>1. PICK d \in BOOLEAN :
            node' = Touched([node EXCEPT ![p] = [dir |-> d, mtime |-> now, ctime |-> now]], {p})
      BY <1>1 DEF Make
    <2> DEFINE nodes == [node EXCEPT ![p] = [dir |-> d, mtime |-> now, ctime |-> now]]
    <2>2. [dir |-> d, mtime |-> now, ctime |-> now] \in Node
      BY FilesAssumption DEF FilesTypeOK, Node
    <2>3. nodes \in [Paths -> Node \cup {Absent}]
      BY <2>2 DEF FilesTypeOK
    <2>4. nodes[s] = node[s] \/ nodes[s].ctime = now
      BY DEF FilesTypeOK
    <2> QED
      BY <2>1, <2>3, <2>4, TouchedNodes DEF Renewed
  <1>2. CASE Write(p)
    <2>1. node[p] \in Node
      BY <1>2 DEF Write, FilesTypeOK
    <2> QED
      BY <1>2, <2>1 DEF Write, FilesTypeOK, Renewed, Node
  <1>3. CASE SetAttributes(p)
    <2>1. node[p] \in Node
      BY <1>3 DEF SetAttributes, FilesTypeOK
    <2> QED
      BY <1>3, <2>1 DEF SetAttributes, FilesTypeOK, Renewed, Node
  <1>4. CASE Delete(p)
    <2> DEFINE nodes == [node EXCEPT ![p] = Absent]
    <2>1. nodes \in [Paths -> Node \cup {Absent}]
      BY DEF FilesTypeOK
    <2>2. nodes[s] = node[s] \/ nodes[s] = Absent
      BY DEF FilesTypeOK
    <2> QED
      BY <1>4, <2>1, <2>2, TouchedNodes DEF Delete, Renewed
  <1> QED
    BY <1>1, <1>2, <1>3, <1>4 DEF ChangePath

LEMMA PathsAreSeqs ==
  ASSUME NEW p \in Paths
  PROVE  p \in Seq(Names)
  <1>1. PICK n \in 1 .. Depth : p \in [1 .. n -> Names]
    BY DEF Paths
  <1> QED
    BY <1>1, FilesAssumption

LEMMA NothingAppended ==
  ASSUME NEW S, NEW s \in Seq(S), NEW t \in Seq(S)
  PROVE  s \o SubSeq(t, Len(t) + 1, Len(t)) = s
  <1>1. SubSeq(t, Len(t) + 1, Len(t)) = <<>>
    BY SubSeqProperties, EmptySeq
  <1> QED
    BY <1>1, ConcatEmptySeq

LEMMA ChangesItsPath ==
  ASSUME FilesTypeOK, NEW p \in Paths, ChangePath(p)
  PROVE  Renewed(p)
  <1>1. CASE Make(p)
    <2>1. PICK d \in BOOLEAN :
            node' = Touched([node EXCEPT ![p] = [dir |-> d, mtime |-> now, ctime |-> now]], {p})
      BY <1>1 DEF Make
    <2> DEFINE nodes == [node EXCEPT ![p] = [dir |-> d, mtime |-> now, ctime |-> now]]
    <2>2. [dir |-> d, mtime |-> now, ctime |-> now] \in Node
      BY FilesAssumption DEF FilesTypeOK, Node
    <2>3. nodes \in [Paths -> Node \cup {Absent}]
      BY <2>2 DEF FilesTypeOK
    <2>4. nodes[p].ctime = now
      BY DEF FilesTypeOK
    <2> QED
      BY <2>1, <2>3, <2>4, TouchedNodes DEF Renewed
  <1>2. CASE Write(p)
    <2>1. node[p] \in Node
      BY <1>2 DEF Write, FilesTypeOK
    <2> QED
      BY <1>2, <2>1 DEF Write, FilesTypeOK, Renewed, Node
  <1>3. CASE SetAttributes(p)
    <2>1. node[p] \in Node
      BY <1>3 DEF SetAttributes, FilesTypeOK
    <2> QED
      BY <1>3, <2>1 DEF SetAttributes, FilesTypeOK, Renewed, Node
  <1>4. CASE Delete(p)
    <2> DEFINE nodes == [node EXCEPT ![p] = Absent]
    <2>1. nodes \in [Paths -> Node \cup {Absent}] /\ nodes[p] = Absent
      BY DEF FilesTypeOK
    <2> QED
      BY <1>4, <2>1, TouchedNodes DEF Delete, Renewed
  <1> QED
    BY <1>1, <1>2, <1>3, <1>4 DEF ChangePath

(* A move renews the node that moves and the directories of both paths.     *)
LEMMA MovedNodes ==
  ASSUME FilesTypeOK, NEW p \in Paths, NEW q \in Paths, Move(p, q),
         NEW s \in Paths, ~IsStrictPrefix(q, s)
  PROVE  node'[s] = node[s] \/ Renewed(s)
  <1>1. node[p] \in Node /\ Moved(p, q) \in [Paths -> Node \cup {Absent}]
    BY MovedTyped DEF Move, FilesTypeOK
  <1>2. Moved(p, q)[s] = node[s] \/ Moved(p, q)[s] = Absent \/ Moved(p, q)[s].ctime = now
    <2>1. CASE IsPrefix(q, s)
      <3>1. s = q
        BY <2>1 DEF IsStrictPrefix
      <3>2. p \o SubSeq(q, Len(q) + 1, Len(q)) = p
        BY PathsAreSeqs, NothingAppended
      <3>3. Moved(p, q)[s] = [node[p] EXCEPT !.ctime = now]
        BY <2>1, <3>1, <3>2 DEF Moved
      <3> QED
        BY <1>1, <3>3 DEF Node
    <2>2. CASE ~IsPrefix(q, s)
      BY <2>2 DEF Moved
    <2> QED
      BY <2>1, <2>2
  <1>3. node' = Touched(Moved(p, q), {p, q})
    BY DEF Move
  <1> QED
    BY <1>1, <1>2, <1>3, TouchedNodes DEF Renewed

LEMMA MovesBothPaths ==
  ASSUME FilesTypeOK, NEW p \in Paths, NEW q \in Paths, Move(p, q)
  PROVE  Renewed(p) /\ Renewed(q)
  <1>1. node[p] \in Node /\ Moved(p, q) \in [Paths -> Node \cup {Absent}]
    BY MovedTyped DEF Move, FilesTypeOK
  <1>2. p \in Seq(Names) /\ q \in Seq(Names)
    BY PathsAreSeqs
  <1>3. IsPrefix(p, p) /\ IsPrefix(q, q)
    BY <1>2 DEF IsPrefix
  <1>4. Moved(p, q)[p] = Absent
    BY <1>3 DEF Moved, Move
  <1>5. Moved(p, q)[q].ctime = now
    <2>1. p \o SubSeq(q, Len(q) + 1, Len(q)) = p
      BY <1>2, NothingAppended
    <2>2. Moved(p, q)[q] = [node[p] EXCEPT !.ctime = now]
      BY <1>3, <2>1 DEF Moved
    <2> QED
      BY <1>1, <2>2 DEF Node
  <1>6. node' = Touched(Moved(p, q), {p, q})
    BY DEF Move
  <1> QED
    BY <1>1, <1>4, <1>5, <1>6, TouchedNodes DEF Renewed

LEMMA ChangeTreeOwes == IInv /\ OwedVisible /\ ChangeTree => OwedVisible'
  <1> SUFFICES ASSUME IInv, OwedVisible, ChangeTree, NEW s \in owed'
               PROVE  /\ s \notin Rejected
                      /\ LastSeen(s)' # Absent
                      /\ LastSeen(s)'.ctime < now'
                      /\ Visible(s)'
    BY DEF OwedVisible
  <1>1. /\ TypeOK /\ FilesTypeOK /\ s \in Paths
        /\ LastSeen(s)' = LastSeen(s)
        /\ now' = now
        /\ now \in Nat
    <2>1. TypeOK /\ FilesTypeOK /\ now \in Nat
      BY FilesAssumption DEF IInv, TypeOK, FilesTypeOK
    <2>2. s \in Paths
      BY <2>1 DEF ChangeTree, TypeOK
    <2>3. LastSeen(s)' = LastSeen(s)
      BY DEF ChangeTree, LastSeen, pollVars
    <2>4. now' = now
      BY DEF ChangeTree, ChangePath, Make, Write, SetAttributes, Delete, Move, Count
    <2> QED
      BY <2>1, <2>2, <2>3, <2>4
  <1>2. s \notin Rejected /\ LastSeen(s) # Absent /\ LastSeen(s).ctime < now
    BY DEF ChangeTree, OwedVisible, MustReport
  <1>3. Renewed(s) => Visible(s)'
    BY <1>1, <1>2, LastSeenTyped DEF Renewed, Visible
  <1>4. s \in owed /\ node'[s] = node[s] => Visible(s)'
    BY <1>1 DEF OwedVisible, Visible
  <1>5. CASE \E p \in Paths : ChangePath(p) /\ owed' = owed \cup {q \in {p} : MustReport(q)}
    <2>1. PICK p \in Paths : ChangePath(p) /\ owed' = owed \cup {q \in {p} : MustReport(q)}
      BY <1>5
    <2>2. s = p \/ s \in owed
      BY <2>1
    <2>3. Renewed(p)
      BY <1>1, <2>1, ChangesItsPath
    <2> QED
      BY <1>1, <1>2, <1>3, <1>4, <2>1, <2>2, <2>3, ChangedNodes
  <1>6. CASE \E p, q \in Paths :
               /\ Move(p, q)
               /\ owed' = {t \in owed : IsStrictPrefix(q, t) => Visible(t)'}
                            \cup {t \in {p, q} : MustReport(t)}
    <2>1. PICK p, q \in Paths :
               /\ Move(p, q)
               /\ owed' = {t \in owed : IsStrictPrefix(q, t) => Visible(t)'}
                            \cup {t \in {p, q} : MustReport(t)}
      BY <1>6
    <2>2. CASE s \in {p, q}
      <3>1. Renewed(p) /\ Renewed(q)
        BY <1>1, <2>1, MovesBothPaths
      <3> QED
        BY <1>1, <1>2, <1>3, <2>2, <3>1
    <2>3. CASE s \in owed /\ (IsStrictPrefix(q, s) => Visible(s)')
      BY <1>1, <1>2, <1>3, <1>4, <2>1, <2>3, MovedNodes
    <2> QED
      BY <1>1, <1>2, <2>1, <2>2, <2>3
  <1> QED
    BY <1>5, <1>6 DEF ChangeTree
(* A scan that compares a path with an owed change finds an event for it.   *)
LEMMA OwedIsFound ==
  ASSUME IInv, OwedVisible, NEW p \in owed, node[p] # Absent, new_data[p] = Absent
  PROVE  \E e \in Found(p) : e.path = p
  <1>1. p \in Paths /\ p \notin Rejected /\ previous_data[p] # Absent
    BY DEF IInv, TypeOK, OwedVisible, LastSeen
  <1>2. node[p].ctime > previous_data[p].ctime
    BY DEF OwedVisible, Visible, LastSeen
  <1>3. "AttributeModified" \in Flags(p)
    BY <1>2 DEF Flags
  <1> QED
    BY <1>1, <1>3 DEF Found, Event

(* What the monitor knows of an owed path changes only when it is told.     *)
LEMMA ScanStepOwes ==
  ASSUME IInv, OwedVisible, PollStep \/ NotifyFails \/ Restart
  PROVE  /\ owed' \subseteq owed
         /\ UNCHANGED fileVars
         /\ \A p \in owed :
              LastSeen(p)' = LastSeen(p) \/ (p \notin owed' /\ \E e \in events' : e.path = p)
  <1>1. CASE InitialScan
    <2>1. owed' = owed /\ UNCHANGED fileVars /\ new_data' = new_data /\ new_data = NoData
      BY <1>1 DEF InitialScan, IInv, ScanMaps
    <2>2. ASSUME NEW p \in owed
          PROVE  LastSeen(p)' = LastSeen(p)
      <3>1. p \in Paths /\ previous_data[p] # Absent
        BY <2>1 DEF IInv, TypeOK, OwedVisible, LastSeen, NoData
      <3>2. previous_data'[p] = previous_data[p]
        BY <1>1, <3>1 DEF InitialScan, IInv, TypeOK
      <3> QED
        BY <2>1, <3>2 DEF LastSeen
    <2> QED
      BY <2>1, <2>2
  <1>2. CASE IntermediateScan
    <2>1. CASE UNCHANGED <<previous_data, new_data, owed>>
      BY <1>2, <2>1 DEF IntermediateScan, LastSeen
    <2>2. CASE ToAdd(Scanned) /\ new_data[Scanned] = Absent /\ Examine(Scanned)
      <3>1. /\ owed' = owed \ {e.path : e \in Found(Scanned)}
            /\ events' = events \cup Found(Scanned)
            /\ UNCHANGED fileVars
        BY <1>2, <2>2 DEF IntermediateScan, Examine
      <3>2. ASSUME NEW p \in owed, p # Scanned
            PROVE  LastSeen(p)' = LastSeen(p)
        BY <2>2, <3>2 DEF Examine, LastSeen, IInv, TypeOK
      <3>3. ASSUME Scanned \in owed
            PROVE  Scanned \notin owed' /\ \E e \in events' : e.path = Scanned
        <4>1. PICK e \in Found(Scanned) : e.path = Scanned
          BY <2>2, <3>3, OwedIsFound DEF ToAdd
        <4> QED
          BY <3>1, <4>1
      <3> QED
        BY <3>1, <3>2, <3>3
    <2> QED
      BY <1>2, <2>1, <2>2 DEF IntermediateScan
  <1>3. CASE FindRemovedFiles
    <2>1. owed' = owed \ Gone /\ UNCHANGED fileVars
      BY <1>3 DEF FindRemovedFiles
    <2>2. ASSUME NEW p \in owed, new_data[p] # Absent
          PROVE  LastSeen(p)' = LastSeen(p)
      BY <1>3, <2>2 DEF FindRemovedFiles, LastSeen, NoData, IInv, TypeOK
    <2>3. ASSUME NEW p \in owed, new_data[p] = Absent
          PROVE  p \notin owed' /\ \E e \in events' : e.path = p
      <3>1. p \in Gone
        BY <2>3 DEF IInv, TypeOK, OwedVisible, LastSeen, Gone, Tracked
      <3>2. Event(p, {"Removed"}) \in events' /\ Event(p, {"Removed"}).path = p
        BY <1>3, <3>1 DEF FindRemovedFiles, Event
      <3> QED
        BY <2>1, <3>1, <3>2
    <2> QED
      BY <2>1, <2>2, <2>3
  <1>4. CASE ScanChildren \/ InitialScanDone \/ NotifyEvents \/ Wake \/ NotifyFails \/ Restart
    BY <1>4
    DEF ScanChildren, InitialScanDone, NotifyEvents, Wake, NotifyFails, Restart, LastSeen,
        history
  <1> QED
    BY <1>1, <1>2, <1>3, <1>4 DEF PollStep

LEMMA OwedVisibleHolds == IInv /\ OwedVisible /\ [Next]_vars => OwedVisible'
  <1> SUFFICES ASSUME IInv, OwedVisible, [Next]_vars PROVE OwedVisible'
    OBVIOUS
  <1>1. CASE ChangeTree
    BY <1>1, ChangeTreeOwes
  <1>2. CASE PassTime
    <2>1. owed' = owed /\ node' = node /\ now' = now + 1 /\ now \in Nat
          /\ new_data' = new_data /\ previous_data' = previous_data
      BY <1>2, FilesAssumption DEF PassTime, Tick, pollVars, history, IInv, TypeOK, FilesTypeOK
    <2>2. ASSUME NEW p \in owed
          PROVE  LastSeen(p).ctime < now'
      <3>1. LastSeen(p).ctime < now /\ LastSeen(p).ctime \in Nat
        BY LastSeenTyped DEF OwedVisible, IInv, TypeOK
      <3> QED
        BY <2>1, <3>1
    <2> QED
      BY <2>1, <2>2 DEF OwedVisible, Visible, LastSeen
  <1>3. CASE PollStep \/ NotifyFails \/ Restart
    <2>1. /\ owed' \subseteq owed
          /\ UNCHANGED fileVars
          /\ \A p \in owed' : LastSeen(p)' = LastSeen(p)
      BY <1>3, ScanStepOwes
    <2> QED
      BY <2>1 DEF OwedVisible, Visible, fileVars
  <1>4. CASE UNCHANGED vars
    BY <1>4 DEF vars, pollVars, fileVars, history, OwedVisible, Visible, LastSeen
  <1> QED
    BY <1>1, <1>2, <1>3, <1>4 DEF Next

(* A change that is owed an event stays visible until it is told: the path  *)
(* is gone, or its times are newer than those the monitor has of it.        *)
THEOREM ChangesStayVisible == Spec => []OwedVisible
  <1>1. Init => OwedVisible
    BY DEF Init, OwedVisible
  <1> QED
    BY <1>1, OwedVisibleHolds, PollInvariant, PTL DEF Spec

(* Nothing the monitor knows of a changed path is replaced or forgotten     *)
(* without an event for the path, for every tree and every sequence of      *)
(* roots, whatever callbacks throw: the safety part of ChangesReported.     *)
THEOREM NothingSwallowed == Spec => NoChangeSwallowed
  <1>1. ASSUME IInv, OwedVisible, [Next]_vars, NEW p \in owed, LastSeen(p)' # LastSeen(p)
        PROVE  \E e \in events' : e.path = p
    <2>1. CASE PollStep \/ NotifyFails \/ Restart
      BY <1>1, <2>1, ScanStepOwes
    <2>2. CASE ChangeTree \/ PassTime \/ UNCHANGED vars
      BY <1>1, <2>2 DEF ChangeTree, PassTime, pollVars, vars, LastSeen
    <2> QED
      BY <1>1, <2>1, <2>2 DEF Next
  <1>2. IInv /\ OwedVisible /\ [Next]_vars
          => [\A p \in owed : LastSeen(p)' # LastSeen(p)
                => \E e \in events' : e.path = p]_vars
    BY <1>1
  <1> QED
    BY <1>2, PollInvariant, ChangesStayVisible, PTL DEF Spec, NoChangeSwallowed

-----------------------------------------------------------------------------
(* Paths: a path and the path of its directory, prefixes of paths.          *)

LEMMA PathTyped ==
  ASSUME NEW p \in Paths
  PROVE  p \in Seq(Names) /\ Len(p) \in 1 .. Depth /\ Last(p) \in Names /\ Depth \in Nat
  <1>1. PICK n \in 1 .. Depth : p \in [1 .. n -> Names]
    BY DEF Paths
  <1>2. Depth \in Nat
    BY FilesAssumption
  <1>3. n \in Nat /\ Len(p) = n /\ p \in Seq(Names)
    BY <1>1, <1>2
  <1>4. p[n] \in Names
    BY <1>1
  <1> QED
    BY <1>1, <1>2, <1>3, <1>4 DEF Last

LEMMA FrontPath ==
  ASSUME NEW p \in Paths, Len(p) > 1
  PROVE  /\ Front(p) \in Paths
         /\ Len(Front(p)) = Len(p) - 1
         /\ \A i \in 1 .. Len(p) - 1 : Front(p)[i] = p[i]
  <1> DEFINE m == Len(p)
             k == m - 1
  <1>1. p \in Seq(Names) /\ m \in 1 .. Depth /\ Depth \in Nat /\ m > 1
    BY PathTyped
  <1>2. k \in 1 .. Depth /\ k <= m /\ k \in Nat
    <2> HIDE DEF m
    <2> QED
      BY <1>1
  <1>3. Front(p) = [i \in 1 .. k |-> p[i]]
    BY <1>1, <1>2 DEF Front
  <1>4. \A i \in 1 .. k : p[i] \in Names
    BY <1>1, <1>2, ElementOfSeq
  <1> HIDE DEF k
  <1>5. Front(p) \in [1 .. k -> Names] /\ Len(Front(p)) = k
    BY <1>2, <1>3, <1>4
  <1>6. Front(p) \in Paths
    BY <1>2, <1>5 DEF Paths
  <1> QED
    BY <1>3, <1>5, <1>6 DEF k

LEMMA FrontAppend ==
  ASSUME NEW p \in Paths, Len(p) > 1
  PROVE  Append(Front(p), Last(p)) = p
  <1> DEFINE f == Front(p)
             n == Len(p)
             c == Append(f, Last(p))
  <1>1. p \in Seq(Names) /\ n \in Nat /\ n > 1 /\ Last(p) \in Names
    BY PathTyped
  <1>2. f \in Paths /\ Len(f) = n - 1 /\ \A i \in 1 .. n - 1 : f[i] = p[i]
    BY FrontPath
  <1>3. f \in Seq(Names)
    BY <1>2, PathTyped
  <1> HIDE DEF f
  <1>4. /\ c \in Seq(Names) /\ Len(c) = Len(f) + 1 /\ c[Len(f) + 1] = Last(p)
        /\ \A i \in 1 .. Len(f) : c[i] = f[i]
    BY <1>1, <1>3, AppendProperties
  <1>5. p[n] = Last(p)
    BY DEF Last
  <1> HIDE DEF c, n
  <1>6. Len(c) = n /\ \A i \in 1 .. n : c[i] = p[i]
    <2>1. Len(c) = n /\ c[n] = p[n]
      BY <1>1, <1>2, <1>4, <1>5
    <2>2. ASSUME NEW i \in 1 .. n, i # n PROVE c[i] = p[i]
      <3>1. i \in 1 .. n - 1
        BY <1>1, <2>2
      <3> QED
        BY <1>2, <1>4, <3>1
    <2> QED
      BY <2>1, <2>2
  <1>7. c = p
    BY <1>1, <1>4, <1>6, SeqEqual DEF n
  <1> QED
    BY <1>7 DEF c, f

LEMMA PrefixMeans ==
  ASSUME NEW s \in Seq(Names), NEW t \in Seq(Names)
  PROVE  IsPrefix(s, t) <=> Len(s) <= Len(t) /\ \A i \in 1 .. Len(s) : s[i] = t[i]
  <1>1. Len(s) \in Nat /\ Len(t) \in Nat
    BY LenProperties
  <1>2. CASE Len(s) <= Len(t)
    <2> DEFINE a == SubSeq(s, 1, Len(s))
               b == SubSeq(t, 1, Len(s))
    <2>1. \A i \in 1 .. Len(s) : s[i] \in Names /\ t[i] \in Names
      BY <1>1, <1>2, ElementOfSeq
    <2>2. /\ a \in Seq(Names) /\ Len(a) = Len(s)
          /\ b \in Seq(Names) /\ Len(b) = Len(s)
          /\ \A i \in 1 .. Len(s) : a[i] = s[i] /\ b[i] = t[i]
      BY <1>1, <2>1, SubSeqProperties
    <2>3. a = b <=> \A i \in 1 .. Len(s) : a[i] = b[i]
      BY <2>2, SeqEqual
    <2> QED
      BY <1>2, <2>2, <2>3 DEF IsPrefix
  <1>3. CASE ~(Len(s) <= Len(t))
    BY <1>3 DEF IsPrefix
  <1> QED
    BY <1>2, <1>3

(* The prefixes of a path that are not the path are those of its directory. *)
LEMMA PrefixFront ==
  ASSUME NEW q \in Paths, NEW s \in Paths, Len(s) > 1
  PROVE  /\ IsPrefix(q, Front(s)) => IsPrefix(q, s)
         /\ IsPrefix(q, s) /\ q # s => IsPrefix(q, Front(s)) /\ Len(q) < Len(s)
  <1> DEFINE f == Front(s)
             k == Len(q)
             n == Len(s)
  <1>1. q \in Seq(Names) /\ s \in Seq(Names) /\ k \in Nat /\ n \in Nat /\ n > 1
    BY PathTyped
  <1>2. f \in Paths /\ Len(f) = n - 1 /\ \A i \in 1 .. n - 1 : f[i] = s[i]
    BY FrontPath
  <1>3. f \in Seq(Names)
    BY <1>2, PathTyped
  <1>4. IsPrefix(q, f) <=> k <= Len(f) /\ \A i \in 1 .. k : q[i] = f[i]
    BY <1>1, <1>3, PrefixMeans
  <1>5. IsPrefix(q, s) <=> k <= n /\ \A i \in 1 .. k : q[i] = s[i]
    BY <1>1, PrefixMeans
  <1>6. k = n /\ IsPrefix(q, s) => q = s
    BY <1>1, <1>5, SeqEqual
  <1> HIDE DEF f, k, n
  <1>7. k <= n - 1 => (IsPrefix(q, f) <=> IsPrefix(q, s))
    BY <1>1, <1>2, <1>4, <1>5
  <1>8. IsPrefix(q, f) => k <= n - 1
    BY <1>2, <1>4
  <1>9. IsPrefix(q, s) /\ q # s => k <= n - 1 /\ k < n
    BY <1>1, <1>5, <1>6
  <1> QED
    BY <1>7, <1>8, <1>9 DEF f, k, n

(* Below p what is below q at s.                                            *)
Swapped(p, q, s) == p \o SubSeq(s, Len(q) + 1, Len(s))

LEMMA SwappedFront ==
  ASSUME NEW p \in Paths, NEW q \in Paths, NEW s \in Paths, IsPrefix(q, s), q # s
  PROVE  /\ Len(s) > 1
         /\ Len(Swapped(p, q, s)) = Len(p) + (Len(s) - Len(q))
         /\ Len(s) > Len(q)
         /\ Front(Swapped(p, q, s)) = Swapped(p, q, Front(s))
  <1> DEFINE k == Len(q)
             n == Len(s)
             m == Len(p)
             t == SubSeq(s, k + 1, n)
             c == p \o t
  <1>1. /\ p \in Seq(Names) /\ q \in Seq(Names) /\ s \in Seq(Names)
        /\ k \in Nat /\ n \in Nat /\ m \in Nat /\ k >= 1 /\ m >= 1
    BY PathTyped
  <1>2. n > 1 /\ n > k
    <2>1. k <= n /\ \A i \in 1 .. k : q[i] = s[i]
      BY <1>1, PrefixMeans
    <2>2. k # n
      BY <1>1, <2>1, SeqEqual
    <2> HIDE DEF k, n
    <2> QED
      BY <1>1, <2>1, <2>2
  <1>3. \A i \in k + 1 .. n : s[i] \in Names
    BY <1>1, ElementOfSeq
  <1>4. /\ t \in Seq(Names) /\ Len(t) = n - k
        /\ \A i \in 1 .. n - k : t[i] = s[k + i]
    <2>1. t \in Seq(Names) /\ Len(t) = n - k
      BY <1>1, <1>2, <1>3, SubSeqProperties
    <2>2. ASSUME NEW i \in 1 .. n - k PROVE t[i] = s[k + i]
      BY <1>1, <1>2, <1>3, <2>1, SubSeqProperties
    <2> QED
      BY <2>1, <2>2
  <1> HIDE DEF t
  <1>5. /\ c \in Seq(Names) /\ Len(c) = m + (n - k)
        /\ \A i \in 1 .. m + (n - k) : c[i] = IF i <= m THEN p[i] ELSE t[i - m]
    <2>1. /\ c \in Seq(Names) /\ Len(c) = m + Len(t)
          /\ \A i \in 1 .. m + Len(t) : c[i] = IF i <= m THEN p[i] ELSE t[i - m]
      BY <1>1, <1>4, ConcatProperties
    <2> HIDE DEF c, k, n, m
    <2> QED
      BY <1>4, <2>1
  <1> DEFINE f == Front(s)
             u == SubSeq(f, k + 1, n - 1)
             d == p \o u
  <1>6. f \in Paths /\ Len(f) = n - 1 /\ \A i \in 1 .. n - 1 : f[i] = s[i]
    BY <1>2, FrontPath
  <1>7. f \in Seq(Names)
    BY <1>6, PathTyped
  <1> HIDE DEF f
  <1>8. /\ u \in Seq(Names) /\ Len(u) = n - 1 - k
        /\ \A i \in 1 .. n - 1 - k : u[i] = f[k + i]
    <2>1. k + 1 >= 1 /\ n - 1 <= Len(f) /\ k + 1 \in Int /\ n - 1 \in Int /\ k + 1 <= (n - 1) + 1
      BY <1>1, <1>2, <1>6
    <2>2. \A i \in k + 1 .. n - 1 : f[i] \in Names
      BY <1>1, <1>6, <1>7, ElementOfSeq
    <2>3. u \in Seq(Names) /\ Len(u) = n - 1 - k
      BY <1>1, <1>2, <2>1, <2>2, SubSeqProperties
    <2>4. ASSUME NEW i \in 1 .. n - 1 - k PROVE u[i] = f[k + i]
      BY <1>1, <1>2, <1>7, <2>1, <2>2, <2>3, SubSeqProperties
    <2> QED
      BY <2>3, <2>4
  <1> HIDE DEF u
  <1>9. /\ d \in Seq(Names) /\ Len(d) = m + (n - 1 - k)
        /\ \A i \in 1 .. m + (n - 1 - k) : d[i] = IF i <= m THEN p[i] ELSE u[i - m]
    <2>1. /\ d \in Seq(Names) /\ Len(d) = m + Len(u)
          /\ \A i \in 1 .. m + Len(u) : d[i] = IF i <= m THEN p[i] ELSE u[i - m]
      BY <1>1, <1>8, ConcatProperties
    <2> HIDE DEF d, k, n, m
    <2> QED
      BY <1>8, <2>1
  <1> HIDE DEF c, d, k, n, m
  <1> DEFINE e == Front(c)
             l == m + (n - 1 - k)
  <1>10. l = Len(c) - 1 /\ l \in Nat /\ l <= Len(c)
    BY <1>1, <1>2, <1>5
  <1>11. \A i \in 1 .. l : c[i] \in Names
    BY <1>5, <1>10, ElementOfSeq
  <1>12. e = [i \in 1 .. l |-> c[i]]
    BY <1>5, <1>10 DEF Front
  <1>13. e \in Seq(Names) /\ Len(e) = l
    BY <1>10, <1>11, <1>12
  <1>14. ASSUME NEW i \in 1 .. l PROVE e[i] = d[i]
    <2>1. e[i] = c[i] /\ i \in 1 .. Len(c) /\ i \in Nat
      BY <1>10, <1>12
    <2>2. CASE i <= m
      BY <1>5, <1>9, <1>10, <2>1, <2>2
    <2>3. CASE ~(i <= m)
      <3>1. i - m \in 1 .. n - k /\ i - m \in 1 .. n - 1 - k /\ k + (i - m) \in 1 .. n - 1
        BY <1>1, <1>2, <1>10, <2>1, <2>3
      <3>2. c[i] = t[i - m] /\ d[i] = u[i - m]
        BY <1>5, <1>9, <1>10, <2>1, <2>3
      <3> QED
        BY <1>4, <1>6, <1>8, <2>1, <3>1, <3>2
    <2> QED
      BY <2>2, <2>3
  <1> HIDE DEF e
  <1>15. e = d
    BY <1>9, <1>13, <1>14, SeqEqual
  <1>16. Swapped(p, q, s) = c /\ Swapped(p, q, f) = d
    BY <1>6 DEF Swapped, c, d, t, u, k, n
  <1> QED
    BY <1>2, <1>5, <1>15, <1>16 DEF e, f, k, n, m

-----------------------------------------------------------------------------
(* The tree stays a tree: what exists is in a directory.                    *)
IsTree(nodes) ==
  \A p \in Paths :
    nodes[p] # Absent /\ Len(p) > 1 => nodes[Front(p)] # Absent /\ nodes[Front(p)].dir

(* Two trees with the same directories and the same paths.                  *)
LEMMA TreesAlike ==
  ASSUME NEW nodes, NEW others, IsTree(nodes),
         \A p \in Paths : /\ nodes[p] # Absent <=> others[p] # Absent
                          /\ nodes[p] # Absent => others[p].dir = nodes[p].dir
  PROVE  IsTree(others)
  BY FrontPath DEF IsTree

LEMMA TouchedTree ==
  ASSUME FilesTypeOK, NEW nodes \in [Paths -> Node \cup {Absent}], IsTree(nodes), NEW changed
  PROVE  IsTree(Touched(nodes, changed))
  <1>1. Touched(nodes, changed) \in [Paths -> Node \cup {Absent}]
    BY TouchedTyped
  <1>2. ASSUME NEW d \in Paths
        PROVE  /\ nodes[d] # Absent <=> Touched(nodes, changed)[d] # Absent
               /\ nodes[d] # Absent => Touched(nodes, changed)[d].dir = nodes[d].dir
    <2>1. CASE nodes[d] # Absent /\ \E p \in changed : Len(p) > 1 /\ Front(p) = d
      <3>1. Touched(nodes, changed)[d] = [nodes[d] EXCEPT !.mtime = now, !.ctime = now]
        BY <2>1 DEF Touched
      <3>2. nodes[d] \in Node /\ now \in Nat
        BY <2>1, FilesAssumption DEF FilesTypeOK
      <3>3. Touched(nodes, changed)[d] \in Node
        BY <3>1, <3>2 DEF Node
      <3> QED
        BY <2>1, <3>1, <3>2, <3>3, FilesAssumption DEF Node
    <2>2. CASE ~(nodes[d] # Absent /\ \E p \in changed : Len(p) > 1 /\ Front(p) = d)
      BY <2>2 DEF Touched
    <2> QED
      BY <2>1, <2>2
  <1> QED
    BY <1>2, TreesAlike

LEMMA ChangePathTree ==
  ASSUME FilesTypeOK, IsTree(node), NEW p \in Paths, ChangePath(p)
  PROVE  IsTree(node')
  <1>1. now \in Nat
    BY FilesAssumption DEF FilesTypeOK
  <1>2. CASE Make(p)
    <2>1. PICK d \in BOOLEAN :
            node' = Touched([node EXCEPT ![p] = [dir |-> d, mtime |-> now, ctime |-> now]], {p})
      BY <1>2 DEF Make
    <2> DEFINE n == [dir |-> d, mtime |-> now, ctime |-> now]
               nodes == [node EXCEPT ![p] = n]
    <2>2. n \in Node /\ n # Absent
      BY <1>1, FilesAssumption DEF Node
    <2> HIDE DEF n
    <2>3. nodes \in [Paths -> Node \cup {Absent}]
      BY <2>2 DEF FilesTypeOK
    <2>4. ASSUME NEW s \in Paths, nodes[s] # Absent, Len(s) > 1
          PROVE  nodes[Front(s)] # Absent /\ nodes[Front(s)].dir
      <3>1. Front(s) \in Paths /\ Len(Front(s)) # Len(s)
        BY <2>4, FrontPath, PathTyped
      <3>2. IsDir(Front(s))
        BY <1>2, <2>4 DEF IsTree, IsDir, InDir, Make, FilesTypeOK
      <3>3. Front(s) # p
        BY <1>2, <3>2 DEF Make, IsDir
      <3> QED
        BY <3>1, <3>2, <3>3 DEF IsDir, FilesTypeOK
    <2> HIDE DEF nodes
    <2>5. IsTree(nodes)
      BY <2>4 DEF IsTree
    <2> QED
      BY <2>1, <2>3, <2>5, TouchedTree DEF nodes, n
  <1>3. CASE Write(p) \/ SetAttributes(p)
    <2>1. node[p] \in Node
      BY <1>3 DEF Write, SetAttributes, FilesTypeOK
    <2>2. node' \in [Paths -> Node \cup {Absent}]
      BY <1>3, ChangePathTyped DEF ChangePath, FilesTypeOK
    <2>3. ASSUME NEW s \in Paths
          PROVE  /\ node[s] # Absent <=> node'[s] # Absent
                 /\ node[s] # Absent => node'[s].dir = node[s].dir
      <3>1. CASE s = p
        <4>1. node'[p] = [node[p] EXCEPT !.mtime = now, !.ctime = now]
                \/ node'[p] = [node[p] EXCEPT !.ctime = now]
          BY <1>3 DEF Write, SetAttributes, FilesTypeOK
        <4>2. node'[p] \in Node /\ node'[p].dir = node[p].dir
          BY <1>1, <2>1, <4>1 DEF Node
        <4> QED
          BY <2>1, <3>1, <4>2, FilesAssumption
      <3>2. CASE s # p
        BY <1>3, <3>2 DEF Write, SetAttributes, FilesTypeOK
      <3> QED
        BY <3>1, <3>2
    <2> QED
      BY <2>3, TreesAlike
  <1>4. CASE Delete(p)
    <2> DEFINE nodes == [node EXCEPT ![p] = Absent]
    <2>1. nodes \in [Paths -> Node \cup {Absent}]
      BY DEF FilesTypeOK
    <2>2. ASSUME NEW s \in Paths, nodes[s] # Absent, Len(s) > 1
          PROVE  nodes[Front(s)] # Absent /\ nodes[Front(s)].dir
      <3>1. s # p /\ node[s] # Absent /\ IsDir(Front(s)) /\ Front(s) \in Paths
        BY <2>2, FrontPath DEF IsTree, IsDir, FilesTypeOK
      <3>2. Front(s) # p
        <4>1. SUFFICES ASSUME Front(s) = p PROVE Last(s) \in Children(p)
          BY <1>4 DEF Delete
        <4>2. Append(p, Last(s)) = s /\ Len(p) = Len(s) - 1
          BY <2>2, <4>1, FrontAppend, FrontPath
        <4>3. Last(s) \in Names /\ Len(p) < Depth
          BY <2>2, <4>2, PathTyped
        <4> QED
          BY <3>1, <4>1, <4>2, <4>3 DEF Children
      <3> QED
        BY <3>1, <3>2 DEF IsDir, FilesTypeOK
    <2> HIDE DEF nodes
    <2>3. IsTree(nodes)
      BY <2>2 DEF IsTree
    <2> QED
      BY <1>4, <2>1, <2>3, TouchedTree DEF Delete, nodes
  <1> QED
    BY <1>2, <1>3, <1>4 DEF ChangePath

(* A subtree that moves takes its directories with it.                      *)
LEMMA MovedTree ==
  ASSUME FilesTypeOK, IsTree(node), NEW p \in Paths, NEW q \in Paths, Move(p, q)
  PROVE  IsTree(Moved(p, q))
  <1>1. /\ node[p] # Absent /\ node[p] \in Node
        /\ ~IsPrefix(p, q) /\ ~IsPrefix(q, p)
        /\ InDir(q)
    BY DEF Move, FilesTypeOK
  <1>2. ASSUME NEW s \in Paths
        PROVE  /\ IsPrefix(q, s) /\ s # q => Moved(p, q)[s] =
                    IF Swapped(p, q, s) \notin Paths THEN Absent
                    ELSE IF Swapped(p, q, s) = p THEN [node[p] EXCEPT !.ctime = now]
                    ELSE node[Swapped(p, q, s)]
               /\ s = q => Moved(p, q)[s] = [node[p] EXCEPT !.ctime = now]
               /\ ~IsPrefix(q, s) =>
                    Moved(p, q)[s] = IF IsPrefix(p, s) THEN Absent ELSE node[s]
    <2>1. CASE IsPrefix(q, s) /\ s # q
      BY <2>1 DEF Moved, Swapped
    <2>2. CASE s = q
      <3>1. p \o SubSeq(q, Len(q) + 1, Len(q)) = p /\ IsPrefix(q, q)
        BY PathsAreSeqs, NothingAppended DEF IsPrefix
      <3> QED
        BY <2>2, <3>1 DEF Moved
    <2>3. CASE ~IsPrefix(q, s) /\ s # q
      BY <2>3 DEF Moved
    <2>4. IsPrefix(q, q)
      BY PathsAreSeqs DEF IsPrefix
    <2> QED
      BY <2>1, <2>2, <2>3, <2>4
  <1>3. [node[p] EXCEPT !.ctime = now] # Absent /\ [node[p] EXCEPT !.ctime = now].dir = node[p].dir
    <2>1. now \in Nat
      BY FilesAssumption DEF FilesTypeOK
    <2>2. [node[p] EXCEPT !.ctime = now] \in Node /\ [node[p] EXCEPT !.ctime = now].dir = node[p].dir
      BY <1>1, <2>1 DEF Node
    <2> QED
      BY <2>2, FilesAssumption
  <1>4. ASSUME NEW s \in Paths, Moved(p, q)[s] # Absent, Len(s) > 1
        PROVE  Moved(p, q)[Front(s)] # Absent /\ Moved(p, q)[Front(s)].dir
    <2> DEFINE f == Front(s)
    <2>1. f \in Paths /\ Len(f) = Len(s) - 1
      BY <1>4, FrontPath
    <2>2. CASE s = q
      <3>1. ~IsPrefix(q, f) /\ ~IsPrefix(p, f)
        <4>1. Len(q) \in Nat /\ Len(f) = Len(q) - 1
          BY <2>1, <2>2, PathTyped
        <4>2. ~IsPrefix(q, f)
          BY <4>1 DEF IsPrefix
        <4> QED
          BY <1>1, <1>4, <2>2, <4>2, PrefixFront
      <3> QED
        BY <1>1, <1>2, <1>4, <2>1, <2>2, <3>1 DEF InDir, IsDir
    <2>3. CASE IsPrefix(q, s) /\ s # q
      <3> DEFINE old == Swapped(p, q, s)
      <3>1. old \in Paths /\ Len(old) > Len(p) /\ Len(old) > 1 /\ Front(old) = Swapped(p, q, f)
        <4>1. old \in Paths
          BY <1>2, <1>4, <2>3
        <4>2. Len(old) = Len(p) + (Len(s) - Len(q)) /\ Len(s) > Len(q)
              /\ Front(old) = Swapped(p, q, f)
          BY <2>3, SwappedFront
        <4>3. Len(p) \in Nat \ {0} /\ Len(s) \in Nat /\ Len(q) \in Nat
          BY PathTyped
        <4> QED
          BY <4>1, <4>2, <4>3
      <3>2. old # p
        BY <3>1, PathTyped
      <3>3. Moved(p, q)[s] = node[old]
        BY <1>2, <2>3, <3>1, <3>2
      <3> HIDE DEF old, f
      <3>4. IsDir(Front(old)) /\ Front(old) \in Paths
        BY <1>4, <3>1, <3>3, FrontPath DEF IsTree, IsDir
      <3>5. IsPrefix(q, f)
        BY <1>4, <2>3, PrefixFront DEF f
      <3>6. CASE f = q
        <4>1. Front(old) = p
          BY <3>1, <3>6, PathsAreSeqs, NothingAppended DEF Swapped
        <4> QED
          BY <1>2, <1>3, <2>1, <3>4, <3>6, <4>1 DEF f, IsDir
      <3>7. CASE f # q
        <4>1. Moved(p, q)[f] = IF Front(old) = p THEN [node[p] EXCEPT !.ctime = now]
                                                 ELSE node[Front(old)]
          BY <1>2, <2>1, <3>1, <3>4, <3>5, <3>7
        <4> QED
          BY <1>3, <3>4, <4>1 DEF f, IsDir
      <3> QED
        BY <3>6, <3>7
    <2>4. CASE ~IsPrefix(q, s) /\ s # q
      <3>1. ~IsPrefix(p, s) /\ node[s] # Absent
        BY <1>2, <1>4, <2>4
      <3>2. ~IsPrefix(p, f) /\ ~IsPrefix(q, f)
        BY <1>4, <2>4, <3>1, PrefixFront
      <3>3. IsDir(f)
        BY <1>4, <3>1 DEF IsTree, IsDir
      <3> QED
        BY <1>2, <2>1, <3>2, <3>3 DEF IsDir
    <2> QED
      BY <2>2, <2>3, <2>4
  <1> QED
    BY <1>4 DEF IsTree

LEMMA ChangeTreeTree == TypeOK /\ IsTree(node) /\ ChangeTree => IsTree(node')
  <1> SUFFICES ASSUME TypeOK, IsTree(node), ChangeTree PROVE IsTree(node')
    OBVIOUS
  <1>1. FilesTypeOK
    BY DEF TypeOK
  <1>2. ASSUME NEW p \in Paths, ChangePath(p) PROVE IsTree(node')
    BY <1>1, <1>2, ChangePathTree
  <1>3. ASSUME NEW p \in Paths, NEW q \in Paths, Move(p, q) PROVE IsTree(node')
    <2>1. Moved(p, q) \in [Paths -> Node \cup {Absent}] /\ node' = Touched(Moved(p, q), {p, q})
      BY <1>1, <1>3, MovedTyped DEF Move
    <2> QED
      BY <1>1, <1>3, <2>1, MovedTree, TouchedTree
  <1> QED
    BY <1>2, <1>3 DEF ChangeTree

-----------------------------------------------------------------------------
(* Sequences of things to do.                                               *)
In(p, s) == \E i \in DOMAIN s : s[i] = p

LEMMA InHead ==
  ASSUME NEW s \in Seq(Item), s # <<>>, NEW p
  PROVE  In(p, s) <=> p = Head(s) \/ In(p, Tail(s))
  <1>1. /\ Len(s) \in Nat \ {0} /\ DOMAIN s = 1 .. Len(s) /\ Head(s) = s[1]
        /\ DOMAIN Tail(s) = 1 .. Len(s) - 1
        /\ \A i \in 1 .. Len(s) - 1 : Tail(s)[i] = s[i + 1]
    BY HeadTailProperties
  <1>2. In(p, s) => p = Head(s) \/ In(p, Tail(s))
    <2>1. SUFFICES ASSUME NEW i \in 1 .. Len(s), s[i] = p, i # 1
                   PROVE  In(p, Tail(s))
      BY <1>1 DEF In
    <2>2. i - 1 \in 1 .. Len(s) - 1 /\ i - 1 + 1 = i
      BY <1>1, <2>1
    <2> QED
      BY <1>1, <2>1, <2>2 DEF In
  <1>3. In(p, Tail(s)) => In(p, s)
    <2>1. SUFFICES ASSUME NEW i \in 1 .. Len(s) - 1, Tail(s)[i] = p
                   PROVE  In(p, s)
      BY <1>1 DEF In
    <2>2. i + 1 \in 1 .. Len(s)
      BY <1>1, <2>1
    <2> QED
      BY <1>1, <2>1, <2>2 DEF In
  <1>4. In(Head(s), s)
    BY <1>1 DEF In
  <1> QED
    BY <1>2, <1>3, <1>4

LEMMA InConcat ==
  ASSUME NEW s \in Seq(Item), NEW t \in Seq(Item), NEW p
  PROVE  In(p, s \o t) <=> In(p, s) \/ In(p, t)
  <1> DEFINE m == Len(s)
             n == Len(t)
             u == s \o t
  <1>1. /\ m \in Nat /\ n \in Nat
        /\ DOMAIN s = 1 .. m /\ DOMAIN t = 1 .. n /\ DOMAIN u = 1 .. m + n
        /\ \A i \in 1 .. m : u[i] = s[i]
        /\ \A i \in m + 1 .. m + n : u[i] = t[i - m]
    BY ConcatProperties, LenProperties
  <1> HIDE DEF m, n, u
  <1>2. \A i \in 1 .. m : i \in 1 .. m + n
    BY <1>1
  <1>3. \A i \in 1 .. n : m + i \in m + 1 .. m + n /\ m + i \in 1 .. m + n /\ m + i - m = i
    BY <1>1
  <1>4. \A i \in 1 .. m + n : i \in 1 .. m \/ (i \in m + 1 .. m + n /\ i - m \in 1 .. n)
    BY <1>1
  <1>5. In(p, u) => In(p, s) \/ In(p, t)
    BY <1>1, <1>4 DEF In
  <1>6. In(p, s) => In(p, u)
    BY <1>1, <1>2 DEF In
  <1>7. In(p, t) => In(p, u)
    <2>1. SUFFICES ASSUME NEW i \in 1 .. n, t[i] = p PROVE In(p, u)
      BY <1>1 DEF In
    <2>2. u[m + i] = p /\ m + i \in DOMAIN u
      BY <1>1, <1>3, <2>1
    <2> QED
      BY <2>2 DEF In
  <1> QED
    BY <1>5, <1>6, <1>7 DEF u

LEMMA InChildren ==
  ASSUME NEW p, NEW names \in SetToSeqs(Children(p)), NEW c
  PROVE  In(c, [i \in DOMAIN names |-> ToStat(Append(p, names[i]))])
           <=> \E name \in Children(p) : c = ToStat(Append(p, name))
  <1> DEFINE C == Children(p)
             n == Cardinality(C)
             s == [i \in DOMAIN names |-> ToStat(Append(p, names[i]))]
  <1>1. IsFiniteSet(C) /\ n \in Nat
    BY FilesAssumption, FS_Subset, FS_CardinalityType DEF Children
  <1>2. names \in [1 .. n -> C] /\ \A i, j \in 1 .. n : i # j => names[i] # names[j]
    BY DEF SetToSeqs
  <1> HIDE DEF C, n
  <1>3. \A x \in C : \E i \in 1 .. n : names[i] = x
    <2>1. names \in Injection(1 .. n, C)
      BY <1>2 DEF Injection, IsInjective
    <2>2. Cardinality(1 .. n) = n
      BY <1>1, FS_Interval
    <2>3. names \in Surjection(1 .. n, C)
      BY <1>1, <2>1, <2>2, FS_Injection DEF n
    <2> QED
      BY <2>3 DEF Surjection
  <1>4. DOMAIN s = 1 .. n /\ \A i \in 1 .. n : s[i] = ToStat(Append(p, names[i]))
    BY <1>2
  <1> HIDE DEF s
  <1>5. In(c, s) <=> \E name \in C : c = ToStat(Append(p, name))
    BY <1>2, <1>3, <1>4 DEF In
  <1> QED
    BY <1>5 DEF s, C

-----------------------------------------------------------------------------
(* A scan during which nothing changes.                                     *)

(* What a scan may come to,                                                 *)
Below(p) ==
  \E i \in DOMAIN Roots : IF Recursive THEN IsPrefix(Roots[i], p) ELSE Roots[i] = p

(* and a path it has added, has to look at, or leaves alone.                *)
Settled(p) == ToAdd(p) => p \in Tracked(new_data) \/ In(ToStat(p), todo)

ToRead(p) == [path |-> p, read |-> TRUE]

(* Whatever a steady scan has added is wanted, and what it comes to from    *)
(* there is settled, or the directory still has to be read.                 *)
ScanFacts ==
  /\ \A p \in Tracked(new_data) : ToAdd(p) /\ Below(p)
  /\ \A e \in Item : In(e, todo) => Below(e.path) /\ (e.read => Recursive)
  /\ \A i \in DOMAIN Roots : Settled(Roots[i])
  /\ \A p \in Tracked(new_data) :
       \/ Recursive /\ In(ToRead(p), todo)
       \/ Recursive => \A name \in Children(p) : Settled(Append(p, name))

SteadyInv ==
  /\ IsTree(node)
  /\ pc = "collect" /\ steady => ScanFacts
  /\ SteadyScanExact

LEMMA RootPath == \A i \in DOMAIN Roots : Roots[i] \in Paths
  BY PollAssumption, ElementOfSeq

LEMMA HeadItem ==
  ASSUME TypeOK, todo # <<>>
  PROVE  /\ todo \in Seq(Item) /\ Tail(todo) \in Seq(Item)
         /\ Scanned \in Paths
         /\ Head(todo) = [path |-> Scanned, read |-> Head(todo).read] /\ Head(todo).read \in BOOLEAN
         /\ Head(todo) \in Item
  <1>1. todo \in Seq(Item)
    BY DEF TypeOK, Item
  <1>2. Head(todo) \in Item /\ Tail(todo) \in Seq(Item)
    BY <1>1, HeadTailProperties
  <1> QED
    BY <1>1, <1>2 DEF Item, Scanned

(* The directory at the head of todo is to be read next.                    *)
LEMMA ReadNext ==
  ASSUME TypeOK, todo # <<>>, ~Head(todo).read, todo' = [todo EXCEPT ![1].read = TRUE], NEW e
  PROVE  In(e, todo') <=> e = ToRead(Scanned) \/ In(e, Tail(todo))
  <1> DEFINE t == [todo EXCEPT ![1].read = TRUE]
             n == Len(todo)
  <1>1. todo \in Seq(Item) /\ n \in Nat /\ n >= 1 /\ Head(todo) = todo[1] /\ todo[1] \in Item
    BY HeadItem, EmptySeq, LenProperties
  <1>2. [todo[1] EXCEPT !.read = TRUE] = ToRead(Scanned)
    <2>1. ASSUME NEW h \in Item
          PROVE  [h EXCEPT !.read = TRUE] = [path |-> h.path, read |-> TRUE]
      <3> DEFINE a == [h EXCEPT !.read = TRUE]
      <3>1. a \in Item /\ a.path = h.path /\ a.read = TRUE
        BY DEF Item
      <3> HIDE DEF a
      <3>2. a = [path |-> a.path, read |-> a.read]
        BY <3>1 DEF Item
      <3> QED
        BY <3>1, <3>2 DEF a
    <2>2. [todo[1] EXCEPT !.read = TRUE] = [path |-> todo[1].path, read |-> TRUE]
      BY <1>1, <2>1
    <2> QED
      BY <1>1, <2>2 DEF Scanned, ToRead
  <1>3. t = [todo EXCEPT ![1] = ToRead(Scanned)] /\ ToRead(Scanned) \in Item
    BY <1>1, <1>2 DEF Item, ToRead, Scanned
  <1>4. t \in Seq(Item) /\ Len(t) = n /\ t[1] = ToRead(Scanned)
        /\ \A i \in 1 .. n : i # 1 => t[i] = todo[i]
    <2>1. todo \in [1 .. n -> Item] /\ 1 \in 1 .. n
      BY <1>1, LenProperties
    <2> HIDE DEF n, t
    <2>2. t \in [1 .. n -> Item] /\ t[1] = ToRead(Scanned)
          /\ \A i \in 1 .. n : i # 1 => t[i] = todo[i]
      BY <1>3, <2>1
    <2> QED
      BY <1>1, <2>2
  <1>5. /\ t # <<>> /\ Head(t) = ToRead(Scanned)
        /\ Tail(t) \in Seq(Item) /\ Len(Tail(t)) = n - 1
        /\ \A i \in 1 .. n - 1 : Tail(t)[i] = t[i + 1]
    BY <1>1, <1>4, EmptySeq, HeadTailProperties
  <1>6. /\ Tail(todo) \in Seq(Item) /\ Len(Tail(todo)) = n - 1
        /\ \A i \in 1 .. n - 1 : Tail(todo)[i] = todo[i + 1]
    BY <1>1, EmptySeq, HeadTailProperties
  <1> HIDE DEF t, n
  <1>7. Tail(t) = Tail(todo)
    <2>1. ASSUME NEW i \in 1 .. n - 1 PROVE Tail(t)[i] = Tail(todo)[i]
      <3>1. i + 1 \in 1 .. n /\ i + 1 # 1
        BY <1>1
      <3> QED
        BY <1>4, <1>5, <1>6, <3>1
    <2> QED
      BY <1>5, <1>6, <2>1, SeqEqual
  <1> QED
    BY <1>4, <1>5, <1>7, InHead DEF t

(* A directory is read: its children take its place.                        *)
LEMMA ChildrenNext ==
  ASSUME TypeOK, ScanChildren, NEW e
  PROVE  In(e, todo') <=> \/ In(e, Tail(todo))
                         \/ \E name \in Children(Scanned) : e = ToStat(Append(Scanned, name))
  <1>1. PICK names \in SetToSeqs(Children(Scanned)) :
          todo' = [i \in DOMAIN names |-> ToStat(Append(Scanned, names[i]))] \o Tail(todo)
    BY DEF ScanChildren
  <1> DEFINE l == [i \in DOMAIN names |-> ToStat(Append(Scanned, names[i]))]
  <1>2. l \in Seq(Item) /\ Tail(todo) \in Seq(Item)
    BY ChildrenTyped, HeadItem DEF ScanChildren
  <1>3. In(e, l) <=> \E name \in Children(Scanned) : e = ToStat(Append(Scanned, name))
    BY InChildren
  <1> HIDE DEF l
  <1>4. todo' = l \o Tail(todo)
    BY <1>1 DEF l
  <1> QED
    BY <1>2, <1>3, <1>4, InConcat

(* A path stays settled when what is done with it is done.                  *)
LEMMA SettledKept ==
  ASSUME node' = node, Tracked(new_data) \subseteq Tracked(new_data'), NEW q, Settled(q),
         In(ToStat(q), todo) =>
           In(ToStat(q), todo') \/ (ToAdd(q) => q \in Tracked(new_data'))
  PROVE  Settled(q)'
  BY DEF Settled, ToAdd, ToStat, Tracked, In

LEMMA DueSettled ==
  ASSUME NEW q, In(ToStat(q), todo')
  PROVE  Settled(q)'
  BY DEF Settled, In, ToStat

LEMMA NotToRead == \A p, q : ToStat(p) # ToRead(q)
  BY DEF ToStat, ToRead

LEMMA IntermediateScanSteady ==
  ASSUME IInv, ScanFacts, IntermediateScan
  PROVE  ScanFacts'
  <1> DEFINE c == Scanned
  <1>1. /\ TypeOK /\ todo # <<>> /\ ~Head(todo).read
        /\ node' = node /\ UNCHANGED <<fileVars, pc>> /\ pc = "collect"
    BY DEF IntermediateScan, Scanning, IInv, fileVars
  <1>2. todo \in Seq(Item) /\ c \in Paths /\ Head(todo) = ToStat(c) /\ ToStat(c) \in Item
    BY <1>1, HeadItem DEF ToStat
  <1>3. \A e : In(e, todo) <=> e = ToStat(c) \/ In(e, Tail(todo))
    BY <1>1, <1>2, InHead
  <1>4. Below(c)
    <2>1. In(ToStat(c), todo) /\ ToStat(c).path = c
      BY <1>3 DEF ToStat
    <2> QED
      BY <1>2, <2>1 DEF ScanFacts
  <1> HIDE DEF c
  <1>5. CASE Left /\ new_data' = new_data /\ ~(ToAdd(c) /\ new_data[c] = Absent)
    <2>1. todo' = Tail(todo) /\ Tracked(new_data') = Tracked(new_data)
      BY <1>5 DEF Left
    <2>2. ASSUME NEW q, Settled(q) PROVE Settled(q)'
      <3>1. ToStat(q) = ToStat(c) => q = c
        BY DEF ToStat
      <3>2. ToAdd(c) => c \in Tracked(new_data')
        BY <1>2, <1>5 DEF Tracked
      <3> QED
        BY <1>1, <1>3, <2>1, <2>2, <3>1, <3>2, SettledKept
    <2>3. \A q : In(ToRead(q), todo) => In(ToRead(q), todo')
      BY <1>3, <2>1, NotToRead
    <2>4. \A e : In(e, todo') => In(e, todo)
      BY <1>3, <2>1
    <2> QED
      BY <1>1, <2>1, <2>2, <2>3, <2>4
      DEF ScanFacts, ToAdd, Below, Children, IsDir, Tracked, In, ToRead
  <1>6. CASE ToAdd(c) /\ new_data[c] = Absent /\ Examine(c) /\ Added
    <2>1. Tracked(new_data') = Tracked(new_data) \cup {c}
      BY <1>1, <1>2, <1>6, ExamineEffect DEF ToAdd
    <2>2. \A e : In(e, todo') <=> \/ In(e, Tail(todo))
                                  \/ Recursive /\ node[c].dir /\ e = ToRead(c)
      <3>1. CASE Recursive /\ node[c].dir
        <4>1. todo' = [todo EXCEPT ![1].read = TRUE]
          BY <1>6, <3>1 DEF Added, c
        <4> QED
          BY <1>1, <3>1, <4>1, ReadNext DEF c
      <3>2. CASE ~(Recursive /\ node[c].dir)
        BY <1>6, <3>2 DEF Added, Left, c
      <3> QED
        BY <3>1, <3>2
    <2>3. ASSUME NEW q, Settled(q) PROVE Settled(q)'
      <3>1. ToStat(q) = ToStat(c) => q = c
        BY DEF ToStat
      <3> QED
        BY <1>1, <1>3, <2>1, <2>2, <2>3, <3>1, SettledKept
    <2>4. \A q : In(ToRead(q), todo) => In(ToRead(q), todo')
      BY <1>3, <2>2, NotToRead
    <2>5. ASSUME NEW q \in Tracked(new_data') PROVE (ToAdd(q) /\ Below(q))'
      BY <1>1, <1>4, <1>6, <2>1 DEF ScanFacts, ToAdd, Below
    <2>6. ASSUME NEW e \in Item, In(e, todo') PROVE Below(e.path) /\ (e.read => Recursive)
      <3>1. CASE In(e, todo)
        BY <3>1 DEF ScanFacts
      <3>2. CASE Recursive /\ e = ToRead(c)
        BY <1>4, <3>2 DEF ToRead
      <3> QED
        BY <1>3, <2>2, <2>6, <3>1, <3>2
    <2>7. ASSUME NEW q \in Tracked(new_data')
          PROVE  \/ Recursive /\ In(ToRead(q), todo')
                 \/ Recursive => \A name \in Children(q) : Settled(Append(q, name))'
      <3>1. CASE q = c
        <4>1. ~node[c].dir => Children(c) = {}
          BY DEF Children, IsDir
        <4> QED
          BY <2>2, <3>1, <4>1
      <3>2. CASE q \in Tracked(new_data)
        BY <2>3, <2>4, <3>2 DEF ScanFacts
      <3> QED
        BY <2>1, <3>1, <3>2
    <2> QED
      BY <1>1, <2>3, <2>5, <2>6, <2>7
      DEF ScanFacts, Children, IsDir, Tracked, In, Below, ToRead
  <1>7. (ToAdd(c) /\ new_data[c] = Absent /\ Examine(c) /\ Added)
          \/ (Left /\ new_data' = new_data /\ ~(ToAdd(c) /\ new_data[c] = Absent))
    BY DEF IntermediateScan, c
  <1> QED
    BY <1>5, <1>6, <1>7

LEMMA AppendPrefix ==
  ASSUME NEW r \in Paths, NEW p \in Paths, NEW name \in Names, Append(p, name) \in Paths,
         IsPrefix(r, p)
  PROVE  IsPrefix(r, Append(p, name))
  <1> DEFINE c == Append(p, name)
  <1>1. r \in Seq(Names) /\ p \in Seq(Names) /\ c \in Seq(Names)
    BY PathTyped
  <1>2. Len(r) \in Nat /\ Len(p) \in Nat
    BY <1>1, LenProperties
  <1>3. Len(c) = Len(p) + 1 /\ \A i \in 1 .. Len(p) : c[i] = p[i]
    BY <1>1, AppendProperties
  <1>4. Len(r) <= Len(p) /\ \A i \in 1 .. Len(r) : r[i] = p[i]
    BY <1>1, PrefixMeans
  <1> HIDE DEF c
  <1>5. Len(r) <= Len(c) /\ \A i \in 1 .. Len(r) : r[i] = c[i]
    BY <1>2, <1>3, <1>4
  <1>6. IsPrefix(r, c)
    BY <1>1, <1>5, PrefixMeans
  <1> QED
    BY <1>6 DEF c

LEMMA ScanChildrenSteady ==
  ASSUME IInv, ScanFacts, ScanChildren
  PROVE  ScanFacts'
  <1> DEFINE c == Scanned
  <1>1. /\ TypeOK /\ todo # <<>> /\ Head(todo).read
        /\ node' = node /\ new_data' = new_data
    BY DEF ScanChildren, IInv, fileVars
  <1>2. todo \in Seq(Item) /\ c \in Paths /\ Head(todo) = ToRead(c) /\ ToRead(c) \in Item
    BY <1>1, HeadItem DEF ToRead
  <1>3. \A e : In(e, todo) <=> e = ToRead(c) \/ In(e, Tail(todo))
    BY <1>1, <1>2, InHead
  <1>4. \A e : In(e, todo') <=> \/ In(e, Tail(todo))
                                \/ \E name \in Children(c) : e = ToStat(Append(c, name))
    BY <1>1, ChildrenNext
  <1>5. Below(c) /\ Recursive
    <2>1. In(ToRead(c), todo) /\ ToRead(c).path = c /\ ToRead(c).read
      BY <1>3 DEF ToRead
    <2> QED
      BY <1>2, <2>1 DEF ScanFacts
  <1> HIDE DEF c
  <1>6. ASSUME NEW name \in Children(c) PROVE Below(Append(c, name))
    <2>1. Append(c, name) \in Paths /\ name \in Names
      BY <1>2, ChildPath DEF Children
    <2> QED
      BY <1>2, <1>5, <2>1, RootPath, AppendPrefix DEF Below
  <1>7. ASSUME NEW q, Settled(q) PROVE Settled(q)'
    BY <1>1, <1>3, <1>4, <1>7, SettledKept, NotToRead
  <1>8. ASSUME NEW e \in Item, In(e, todo') PROVE Below(e.path) /\ (e.read => Recursive)
    <2>1. CASE In(e, todo)
      BY <2>1 DEF ScanFacts
    <2>2. CASE \E name \in Children(c) : e = ToStat(Append(c, name))
      BY <1>6, <2>2 DEF ToStat
    <2> QED
      BY <1>3, <1>4, <1>8, <2>1, <2>2
  <1>9. ASSUME NEW q \in Tracked(new_data)
        PROVE  \/ Recursive /\ In(ToRead(q), todo')
               \/ Recursive => \A name \in Children(q) : Settled(Append(q, name))'
    <2>1. CASE q = c
      <3>1. ASSUME NEW name \in Children(q) PROVE Settled(Append(q, name))'
        <4>1. In(ToStat(Append(q, name)), todo')
          BY <1>4, <2>1
        <4> QED
          BY <4>1, DueSettled
      <3> QED
        BY <3>1
    <2>2. CASE q # c /\ Recursive /\ In(ToRead(q), todo)
      <3>1. ToRead(q) # ToRead(c)
        BY <2>2 DEF ToRead
      <3> QED
        BY <1>3, <1>4, <2>2, <3>1
    <2>3. CASE Recursive => \A name \in Children(q) : Settled(Append(q, name))
      BY <1>7, <2>3
    <2> QED
      BY <2>1, <2>2, <2>3 DEF ScanFacts
  <1> QED
    BY <1>1, <1>7, <1>8, <1>9
    DEF ScanFacts, Children, IsDir, Tracked, In, Below, ToRead, ToAdd

(* A scan begins with the roots.                                            *)
LEMMA WakeSteady ==
  ASSUME IInv, Wake
  PROVE  ScanFacts'
  <1>1. new_data' = NoData /\ todo' = RootsToScan
    BY DEF Wake, IInv, ScanMaps
  <1>2. Tracked(new_data') = {}
    BY <1>1 DEF Tracked, NoData
  <1>3. ASSUME NEW i \in DOMAIN Roots
        PROVE  In(ToStat(Roots[i]), todo') /\ Below(Roots[i])
    <2>1. Roots[i] \in Paths /\ IsPrefix(Roots[i], Roots[i])
      BY RootPath, PathsAreSeqs DEF IsPrefix
    <2> QED
      BY <1>1, <2>1 DEF In, RootsToScan, Below
  <1>4. ASSUME NEW e, In(e, todo') PROVE \E i \in DOMAIN Roots : e = ToStat(Roots[i])
    BY <1>1, <1>4 DEF In, RootsToScan
  <1>5. \A i \in DOMAIN Roots : Settled(Roots[i])'
    BY <1>3 DEF Settled, In, ToStat
  <1>6. ASSUME NEW e \in Item, In(e, todo') PROVE Below(e.path) /\ (e.read => Recursive)
    BY <1>3, <1>4, <1>6 DEF ToStat
  <1> QED
    BY <1>2, <1>5, <1>6 DEF ScanFacts, Tracked, In, Below

(* Induction: a set of numbers has a least one.                             *)
LEMMA LeastNumber ==
  ASSUME NEW T \in SUBSET Nat, T # {}
  PROVE  \E k \in T : \A j \in T : k <= j
  <1> DEFINE R == {ss \in Nat \X Nat : ss[1] < ss[2]}
  <1>1. IsWellFoundedOn(R, Nat)
    BY NatLessThanWellFounded DEF OpToRel
  <1> HIDE DEF R
  <1>2. PICK k \in T : \A j \in T : <<j, k>> \notin R
    BY <1>1, WFMin
  <1>3. \A j \in T : ~(j < k)
    BY <1>2 DEF R
  <1> QED
    BY <1>3

(* When nothing is left to do, everything wanted has been added: the        *)
(* directory of a shortest path that is missing has been added and read.    *)
LEMMA WantedTracked ==
  ASSUME IInv, IsTree(node), ScanFacts, todo = <<>>, NEW p \in Paths, ToAdd(p), Below(p)
  PROVE  p \in Tracked(new_data)
  <1>1. \A e : ~In(e, todo)
    BY DEF In
  <1>2. \A q : Settled(q) /\ ToAdd(q) => q \in Tracked(new_data)
    BY <1>1 DEF Settled
  <1>3. PICK i \in DOMAIN Roots : IF Recursive THEN IsPrefix(Roots[i], p) ELSE Roots[i] = p
    BY DEF Below
  <1>4. Roots[i] \in Paths /\ (ToAdd(Roots[i]) => Roots[i] \in Tracked(new_data))
    BY <1>2, RootPath DEF ScanFacts
  <1>5. CASE ~Recursive
    BY <1>3, <1>4, <1>5
  <1>6. CASE Recursive
    <2> DEFINE Missing(q) == q \in Paths /\ ToAdd(q) /\ IsPrefix(Roots[i], q)
                               /\ q \notin Tracked(new_data)
               T == {n \in Nat : \E q \in Paths : Missing(q) /\ Len(q) = n}
    <2>1. SUFFICES ASSUME T # {} PROVE FALSE
      <3>1. IsPrefix(Roots[i], p) /\ Len(p) \in Nat
        BY <1>3, <1>6, PathTyped
      <3> QED
        BY <3>1
    <2>2. PICK k \in T : \A j \in T : k <= j
      <3>1. T \in SUBSET Nat
        OBVIOUS
      <3> HIDE DEF T
      <3> QED
        BY <2>1, <3>1, LeastNumber
    <2>3. PICK q \in Paths : Missing(q) /\ Len(q) = k
      BY <2>2
    <2>4. Roots[i] # q
      BY <1>4, <2>3
    <2>5. Len(q) > 1
      <3>1. Roots[i] \in Seq(Names) /\ q \in Seq(Names) /\ Len(Roots[i]) >= 1
            /\ Len(q) \in Nat /\ Len(Roots[i]) \in Nat
        BY <1>4, PathTyped
      <3>2. Len(Roots[i]) <= Len(q) /\ \A j \in 1 .. Len(Roots[i]) : Roots[i][j] = q[j]
        BY <2>3, <3>1, PrefixMeans
      <3>3. Len(Roots[i]) # Len(q)
        BY <2>4, <3>1, <3>2, SeqEqual
      <3> QED
        BY <3>1, <3>2, <3>3
    <2> DEFINE f == Front(q)
    <2>6. /\ f \in Paths /\ Len(f) = Len(q) - 1 /\ Len(q) \in 1 .. Depth /\ Depth \in Nat
          /\ Append(f, Last(q)) = q /\ Last(q) \in Names
      BY <2>5, FrontPath, FrontAppend, PathTyped
    <2>7. IsDir(f) /\ node[q] # Absent
      BY <2>3, <2>5 DEF IsTree, IsDir, ToAdd
    <2>8. IsPrefix(Roots[i], f)
      BY <1>4, <2>3, <2>4, <2>5, PrefixFront
    <2> HIDE DEF f
    <2>9. f \in Tracked(new_data)
      <3>1. SUFFICES ASSUME f \notin Tracked(new_data) PROVE FALSE
        OBVIOUS
      <3>2. Missing(f)
        BY <2>6, <2>7, <2>8, <3>1 DEF ToAdd, IsDir
      <3>3. Len(f) \in T
        BY <2>6, <3>2
      <3> HIDE DEF T, Missing
      <3> QED
        BY <2>2, <2>3, <2>6, <3>3
    <2>10. Last(q) \in Children(f)
      <3>1. Len(f) < Depth
        BY <2>6
      <3>2. node[Append(f, Last(q))] # Absent
        BY <2>6, <2>7
      <3> QED
        BY <2>6, <2>7, <3>1, <3>2 DEF Children
    <2>11. Settled(q)
      BY <1>1, <1>6, <2>6, <2>9, <2>10 DEF ScanFacts
    <2> QED
      BY <1>2, <2>3, <2>11
  <1> QED
    BY <1>5, <1>6

LEMMA FindRemovedSteady ==
  ASSUME IInv, SteadyInv, FindRemovedFiles
  PROVE  SteadyScanExact'
  <1>1. SUFFICES ASSUME steady PROVE view' = {p \in Paths : Reachable(p)'}
    BY DEF SteadyScanExact, FindRemovedFiles
  <1>2. ScanFacts /\ IsTree(node) /\ todo = <<>> /\ node' = node
    BY <1>1 DEF SteadyInv, FindRemovedFiles, fileVars
  <1>3. view' = Tracked(new_data) \ Rejected
    BY DEF FindRemovedFiles, IInv, ViewExact, ScanMaps, Gone
  <1>4. \A p \in Paths : Reachable(p)' <=> ToAdd(p) /\ Below(p) /\ p \notin Rejected
    BY <1>2 DEF Reachable, ToAdd, Below
  <1>5. \A p \in Paths : p \in Tracked(new_data) <=> ToAdd(p) /\ Below(p)
    BY <1>2, WantedTracked DEF ScanFacts
  <1>6. Tracked(new_data) \subseteq Paths
    BY DEF Tracked
  <1> QED
    BY <1>3, <1>4, <1>5, <1>6

LEMMA SteadyHolds == IInv /\ SteadyInv /\ [Next]_vars => SteadyInv'
  <1> SUFFICES ASSUME IInv, SteadyInv, [Next]_vars PROVE SteadyInv'
    OBVIOUS
  <1>1. CASE ChangeTree
    <2>1. IsTree(node')
      BY <1>1, ChangeTreeTree DEF IInv, SteadyInv
    <2>2. steady' = FALSE
      BY <1>1 DEF ChangeTree
    <2> QED
      BY <2>1, <2>2 DEF SteadyInv, SteadyScanExact, IsTree
  <1>2. CASE PassTime \/ UNCHANGED vars
    <2>1. UNCHANGED <<node, pc, todo, new_data, view, steady>>
      BY <1>2 DEF PassTime, Tick, pollVars, history, vars, fileVars
    <2> QED
      BY <2>1
      DEF SteadyInv, SteadyScanExact, Reachable, IsTree, ScanFacts, Settled, ToAdd, ToStat,
          ToRead, Tracked, Below, In, Children, IsDir
  <1>3. CASE IntermediateScan
    <2>1. UNCHANGED <<node, steady, pc>> /\ pc = "collect"
      BY <1>3 DEF IntermediateScan, fileVars
    <2>2. steady => ScanFacts'
      BY <1>3, <2>1, IntermediateScanSteady DEF SteadyInv
    <2> QED
      BY <2>1, <2>2 DEF SteadyInv, SteadyScanExact, IsTree
  <1>4. CASE ScanChildren
    <2>1. UNCHANGED <<node, steady, pc, view>>
      BY <1>4 DEF ScanChildren, fileVars, history
    <2>2. pc = "collect" /\ steady => ScanFacts'
      BY <1>4, ScanChildrenSteady DEF SteadyInv
    <2> QED
      BY <2>1, <2>2 DEF SteadyInv, SteadyScanExact, IsTree, Reachable
  <1>5. CASE FindRemovedFiles
    <2>1. node' = node /\ pc' = "notify"
      BY <1>5 DEF FindRemovedFiles, fileVars
    <2> QED
      BY <1>5, <2>1, FindRemovedSteady DEF SteadyInv, IsTree
  <1>6. CASE Wake
    <2>1. node' = node /\ pc' = "collect"
      BY <1>6 DEF Wake, fileVars
    <2> QED
      BY <1>6, <2>1, WakeSteady DEF SteadyInv, SteadyScanExact, IsTree
  <1>7. CASE InitialScan \/ InitialScanDone \/ NotifyEvents \/ NotifyFails \/ Restart
    <2>1. node' = node /\ pc' \in {"initial", "sleep", "failed"}
      BY <1>7 DEF InitialScan, InitialScanDone, NotifyEvents, NotifyFails, Restart, fileVars
    <2> QED
      BY <2>1 DEF SteadyInv, SteadyScanExact, IsTree
  <1> QED
    BY <1>1, <1>2, <1>3, <1>4, <1>5, <1>6, <1>7 DEF Next, PollStep

(* One scan during which nothing changes makes the story the tree as it is, *)
(* for every tree, every sequence of roots, every set of rejected paths and *)
(* whatever happened before it: the safety part of ViewInSync.              *)
THEOREM SteadyScan == Spec => []SteadyScanExact
  <1>1. Init => SteadyInv
    <2> SUFFICES ASSUME Init PROVE SteadyInv
      OBVIOUS
    <2>1. IsTree(node)
      BY FilesAssumption DEF Init, FilesInit, IsTree
    <2> QED
      BY <2>1 DEF Init, SteadyInv, SteadyScanExact
  <1>2. SteadyInv => SteadyScanExact
    BY DEF SteadyInv
  <1> QED
    BY <1>1, <1>2, SteadyHolds, PollInvariant, PTL DEF Spec
=============================================================================
