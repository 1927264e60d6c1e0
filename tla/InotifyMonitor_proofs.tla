------------------------ MODULE InotifyMonitor_proofs ------------------------
(***************************************************************************)
(* Proof that the inotify monitor forgets no watch of the kernel, for every *)
(* tree, every sequence of changes and every length of the queue.           *)
(***************************************************************************)
EXTENDS InotifyMonitor, FileTree_proofs

-----------------------------------------------------------------------------
(* The queue of the kernel.                                                 *)

LEMMA SendTyped ==
  ASSUME NEW S, NEW q \in Seq(S), NEW e, Overflow \in S, e.wd # 0 => e \in S
  PROVE  Send(q, e) \in Seq(S)
  BY DEF Send

(* The events that say of no watch that it is gone. *)
Harmless ==
  {e \in KernelEvents : e.wd \in 1 .. next_wd - 1 /\ e.kind \notin {"DELETE_SELF", "IGNORED"}}
    \cup {Overflow}

EntryKinds == {"CREATE", "DELETE", "MODIFY", "MOVED_FROM", "MOVED_TO"}

LEMMA EntryEventSent ==
  ASSUME WatchesDistinct, NEW S, Harmless \subseteq S, NEW q \in Seq(S),
         NEW d \in Dirs \cup {Base}, NEW kind \in EntryKinds, NEW p \in Paths, NEW n \in Inodes
  PROVE  Send(q, EntryEvent(d, kind, Last(p), n)) \in Seq(S)
  <1> DEFINE e == EntryEvent(d, kind, Last(p), n)
  <1>1. e.kind = kind /\ e.wd = (IF d = Base THEN 0 ELSE watch[d])
    BY DEF EntryEvent, Event
  <1>2. e \in KernelEvents
    BY PathTyped, TreeAssumption
    DEF EntryEvent, Event, KernelEvents, EntryKinds, Kinds, IsDir, WatchesDistinct
  <1>3. e.wd # 0 => e.wd \in 1 .. next_wd - 1
    BY <1>1, TreeAssumption DEF WatchesDistinct
  <1>4. e.wd # 0 => e \in S
    BY <1>1, <1>2, <1>3 DEF Harmless, EntryKinds
  <1> QED
    BY <1>4, SendTyped DEF Harmless

LEMMA SelfEventSent ==
  ASSUME WatchesDistinct, NEW S, Harmless \subseteq S, NEW q \in Seq(S),
         NEW kind \in {"MODIFY", "MOVE_SELF"}, NEW n \in Inodes
  PROVE  Send(q, SelfEvent(n, kind)) \in Seq(S)
  <1> DEFINE e == SelfEvent(n, kind)
  <1>1. e.kind = kind /\ e.wd = watch[n]
    BY DEF SelfEvent, Event
  <1>2. e \in KernelEvents
    BY DEF SelfEvent, Event, KernelEvents, Kinds, IsDir, WatchesDistinct
  <1>3. e.wd # 0 => e \in S
    BY <1>1, <1>2 DEF Harmless, WatchesDistinct
  <1> QED
    BY <1>3, SendTyped DEF Harmless

(* The events of inode n's watch are among S, whatever they say. *)
AllAbout(n, S) == \A e \in KernelEvents : e.wd = watch[n] /\ watch[n] # 0 => e \in S

LEMMA LastSent ==
  ASSUME WatchesDistinct, NEW S, Overflow \in S, NEW q \in Seq(S),
         NEW n \in Inodes, AllAbout(n, S)
  PROVE  SendLast(q, n) \in Seq(S)
  <1> DEFINE e == SelfEvent(n, "DELETE_SELF")
             f == Event(watch[n], "IGNORED", NoName, FALSE)
  <1>1. e.wd = watch[n] /\ f.wd = watch[n]
    BY DEF SelfEvent, Event
  <1>2. e \in KernelEvents /\ f \in KernelEvents
    BY DEF SelfEvent, Event, KernelEvents, Kinds, IsDir, WatchesDistinct
  <1>3. (e.wd # 0 => e \in S) /\ (f.wd # 0 => f \in S)
    BY <1>1, <1>2 DEF AllAbout
  <1>4. Send(q, e) \in Seq(S)
    BY <1>3, SendTyped
  <1> QED
    BY <1>3, <1>4, SendTyped DEF SendLast

-----------------------------------------------------------------------------
(* What the steps that change watches do to the truth of the events.        *)

LEMMA OverflowTyped == Overflow \in KernelEvents /\ Overflow.kind = "Q_OVERFLOW"
  BY DEF Overflow, Event, KernelEvents, Kinds

LEMMA HarmlessTrue == WatchesDistinct => Harmless \subseteq TrueEvents
  BY OverflowTyped DEF Harmless, TrueEvents

(* The watch of inode n is dropped: what is said of it may be true by now.  *)
LEMMA DropEffect ==
  ASSUME WatchesDistinct, NEW n \in Inodes,
         watch' = [watch EXCEPT ![n] = 0], next_wd' = next_wd
  PROVE  /\ WatchesDistinct'
         /\ TrueEvents \subseteq TrueEvents'
         /\ AllAbout(n, TrueEvents')
         /\ \A wd \in 1 .. next_wd - 1 : Live(wd)' <=> Live(wd) /\ wd # watch[n]
  <1>1. WatchesDistinct'
    BY DEF WatchesDistinct
  <1>2. \A wd \in 1 .. next_wd - 1 : Live(wd)' <=> Live(wd) /\ wd # watch[n]
    BY DEF WatchesDistinct, Live
  <1>3. TrueEvents \subseteq TrueEvents'
    BY <1>2 DEF TrueEvents
  <1>4. AllAbout(n, TrueEvents')
    BY <1>2 DEF AllAbout, TrueEvents, WatchesDistinct
  <1> QED
    BY <1>1, <1>2, <1>3, <1>4

(* A watch is added under the next descriptor, which no event knows yet.    *)
LEMMA AddEffect ==
  ASSUME WatchesDistinct, NEW n \in Inodes, watch[n] = 0,
         watch' = [watch EXCEPT ![n] = next_wd], next_wd' = next_wd + 1
  PROVE  /\ WatchesDistinct'
         /\ TrueEvents \subseteq TrueEvents'
         /\ \A wd \in 1 .. next_wd - 1 : Live(wd)' <=> Live(wd)
  <1>1. WatchesDistinct'
    BY DEF WatchesDistinct
  <1>2. \A wd \in 1 .. next_wd - 1 : Live(wd)' <=> Live(wd)
    BY DEF WatchesDistinct, Live
  <1>3. TrueEvents \subseteq TrueEvents'
    BY <1>2 DEF TrueEvents, WatchesDistinct
  <1> QED
    BY <1>1, <1>2, <1>3

-----------------------------------------------------------------------------
(* A step that leaves the watches, the marks and the batch alone keeps the  *)
(* invariant when what it adds to the queue is harmless.                    *)
LEMMA HarmlessStep ==
  ASSUME WatchInv, UNCHANGED <<watch, next_wd, marks, watched_descriptors, batch>>,
         queue' \in Seq(TrueEvents)
  PROVE  WatchInv'
  <1>1. WatchesDistinct' /\ NoWatchForgotten'
    BY DEF WatchInv, WatchesDistinct, NoWatchForgotten
  <1>2. TrueEvents' = TrueEvents /\ \A wd : Live(wd)' <=> Live(wd)
    BY DEF TrueEvents, Live
  <1>3. EventsTrue' /\ MarksRight'
    BY <1>2 DEF WatchInv, EventsTrue, MarksRight, marks
  <1> QED
    BY <1>1, <1>3 DEF WatchInv

(* A step that deletes inode n and tells the truth about it. *)
LEMMA DeleteStep ==
  ASSUME WatchInv, NEW n \in Inodes, watch' = [watch EXCEPT ![n] = 0],
         UNCHANGED <<next_wd, marks, watched_descriptors, batch>>,
         NEW q \in Seq(TrueEvents), queue' = SendLast(q, n)
  PROVE  WatchInv'
  <1>1. WatchesDistinct /\ WatchesDistinct'
    BY DropEffect DEF WatchInv
  <1>2. TrueEvents \subseteq TrueEvents' /\ AllAbout(n, TrueEvents')
    BY DropEffect, <1>1
  <1>3. Overflow \in TrueEvents'
    BY <1>1, <1>2, HarmlessTrue DEF Harmless
  <1>4. q \in Seq(TrueEvents') /\ batch' \in Seq(TrueEvents')
    BY <1>2, SeqMonotonic DEF WatchInv, EventsTrue
  <1>5. EventsTrue'
    BY <1>1, <1>2, <1>3, <1>4, LastSent DEF EventsTrue
  <1>6. \A wd \in 1 .. next_wd - 1 : Live(wd)' => Live(wd)
    BY <1>1, DropEffect
  <1>7. MarksRight'
    BY <1>6 DEF WatchInv, MarksRight, marks
  <1>8. NoWatchForgotten'
    BY <1>1 DEF WatchInv, WatchesDistinct, NoWatchForgotten
  <1> QED
    BY <1>1, <1>5, <1>7, <1>8 DEF WatchInv

(* A rename tells no watch that it is gone. *)
LEMMA MovedSent ==
  ASSUME WatchesDistinct, queue \in Seq(TrueEvents), NEW p \in Paths, NEW q \in Paths,
         {Parent(p), Parent(q)} \subseteq Dirs \cup {Base}, NEW n \in Inodes
  PROVE  SendMoved(p, q, n) \in Seq(TrueEvents)
  <1> DEFINE from == Send(queue, EntryEvent(Parent(p), "MOVED_FROM", Last(p), n))
             to == Send(from, EntryEvent(Parent(q), "MOVED_TO", Last(q), n))
  <1>1. Harmless \subseteq TrueEvents
    BY HarmlessTrue
  <1>2. from \in Seq(TrueEvents)
    BY <1>1, EntryEventSent DEF EntryKinds
  <1>3. to \in Seq(TrueEvents)
    BY <1>1, <1>2, EntryEventSent DEF EntryKinds
  <1>4. Send(to, SelfEvent(n, "MOVE_SELF")) \in Seq(TrueEvents)
    BY <1>1, <1>3, SelfEventSent
  <1> QED
    BY <1>4 DEF SendMoved

LEMMA ChangeTreeStep ==
  ASSUME WatchInv, ChangeTree
  PROVE  WatchInv'
  <1>1. UNCHANGED <<marks, watched_descriptors, batch>>
    BY DEF ChangeTree, monitorVars, marks
  <1>2. WatchesDistinct /\ queue \in Seq(TrueEvents)
    BY DEF WatchInv, EventsTrue
  <1>3. Harmless \subseteq TrueEvents
    BY <1>2, HarmlessTrue
  <1>4. ASSUME NEW p \in Paths, Write(p)
        PROVE  WatchInv'
    <2>1. PICK n \in Inodes :
            queue' = Send(Send(queue, EntryEvent(Parent(p), "MODIFY", Last(p), n)),
                          SelfEvent(n, "MODIFY"))
      BY <1>4 DEF Write
    <2>2. Parent(p) \in Dirs \cup {Base} /\ UNCHANGED <<watch, next_wd>>
      BY <1>4 DEF Write, WriteNode, IsDir
    <2>3. queue' \in Seq(TrueEvents)
      BY <1>2, <1>3, <2>1, <2>2, EntryEventSent, SelfEventSent DEF EntryKinds
    <2> QED
      BY <1>1, <2>2, <2>3, HarmlessStep
  <1>5. ASSUME NEW p \in Paths, Create(p)
        PROVE  WatchInv'
    <2>1. PICK n \in Inodes :
            queue' = Send(queue, EntryEvent(Parent(p), "CREATE", Last(p), n))
      BY <1>5 DEF Create
    <2>2. Parent(p) \in Dirs \cup {Base} /\ UNCHANGED <<watch, next_wd>>
      BY <1>5 DEF Create, MakeNode, IsDir
    <2>3. queue' \in Seq(TrueEvents)
      BY <1>2, <1>3, <2>1, <2>2, EntryEventSent DEF EntryKinds
    <2> QED
      BY <1>1, <2>2, <2>3, HarmlessStep
  <1>6. ASSUME NEW p \in Paths, Delete(p)
        PROVE  WatchInv'
    <2>1. PICK n \in Inodes :
            /\ watch' = [watch EXCEPT ![n] = 0]
            /\ queue' = SendLast(Send(queue, EntryEvent(Parent(p), "DELETE", Last(p), n)), n)
      BY <1>6 DEF Delete
    <2>2. Parent(p) \in Dirs \cup {Base} /\ UNCHANGED next_wd
      BY <1>6 DEF Delete, DeleteNode, IsDir
    <2>3. Send(queue, EntryEvent(Parent(p), "DELETE", Last(p), n)) \in Seq(TrueEvents)
      BY <1>2, <1>3, <2>2, EntryEventSent DEF EntryKinds
    <2> QED
      BY <1>1, <2>1, <2>2, <2>3, DeleteStep
  <1>7. ASSUME NEW p \in Paths, NEW q \in Paths, Rename(p, q)
        PROVE  WatchInv'
    <2>1. PICK n \in Inodes : queue' = SendMoved(p, q, n)
      BY <1>7 DEF Rename
    <2>2. {Parent(p), Parent(q)} \subseteq Dirs \cup {Base} /\ UNCHANGED <<watch, next_wd>>
      BY <1>7 DEF Rename, RenameNode, IsDir
    <2>3. queue' \in Seq(TrueEvents)
      BY <1>2, <2>1, <2>2, MovedSent
    <2> QED
      BY <1>1, <2>2, <2>3, HarmlessStep
  <1>8. ASSUME NEW p \in Paths, NEW q \in Paths, Replace(p, q)
        PROVE  WatchInv'
    <2>1. PICK n \in Inodes, m \in Inodes :
            /\ watch' = [watch EXCEPT ![m] = 0]
            /\ queue' = SendLast(SendMoved(p, q, n), m)
      BY <1>8 DEF Replace
    <2>2. {Parent(p), Parent(q)} \subseteq Dirs \cup {Base} /\ UNCHANGED next_wd
      BY <1>8 DEF Replace, ReplaceNode, IsDir
    <2>3. SendMoved(p, q, n) \in Seq(TrueEvents)
      BY <1>2, <2>2, MovedSent
    <2> QED
      BY <1>1, <2>1, <2>2, <2>3, DeleteStep
  <1> QED
    BY <1>4, <1>5, <1>6, <1>7, <1>8 DEF ChangeTree

-----------------------------------------------------------------------------
(* The steps of the monitor.                                                *)

LEMMA RemovePendingWatchStep ==
  ASSUME WatchInv, RemovePendingWatch
  PROVE  WatchInv'
  <1>1. PICK wd \in watches_to_remove :
          RemoveWatch(wd) /\ watches_to_remove' = watches_to_remove \ {wd}
    BY DEF RemovePendingWatch
  <1>2. UNCHANGED <<next_wd, watched_descriptors, descriptors_to_remove, batch>>
    BY <1>1 DEF RemovePendingWatch, RemoveWatch, tables
  <1>3. WatchesDistinct /\ queue \in Seq(TrueEvents) /\ batch \in Seq(TrueEvents)
    BY DEF WatchInv, EventsTrue
  <1>4. CASE \A n \in Inodes : watch[n] # wd
    <2>1. UNCHANGED <<watch, queue>>
      BY <1>1, <1>4 DEF RemoveWatch
    <2>2. ~Live(wd) /\ \A v : Live(v)' <=> Live(v)
      BY <1>4, <2>1 DEF Live
    <2>3. MarksRight'
      BY <1>1, <1>2, <2>2 DEF WatchInv, MarksRight
    <2>4. WatchesDistinct' /\ NoWatchForgotten'
      BY <1>2, <2>1 DEF WatchInv, WatchesDistinct, NoWatchForgotten
    <2>5. TrueEvents' = TrueEvents
      BY <1>2, <2>2 DEF TrueEvents
    <2> QED
      BY <1>2, <1>3, <2>1, <2>3, <2>4, <2>5 DEF WatchInv, EventsTrue
  <1>5. CASE ~\A n \in Inodes : watch[n] # wd
    <2>1. PICK n \in Inodes :
            /\ watch[n] = wd
            /\ watch' = [watch EXCEPT ![n] = 0]
            /\ queue' = Send(queue, Event(wd, "IGNORED", NoName, FALSE))
      BY <1>1, <1>5 DEF RemoveWatch
    <2> DEFINE e == Event(wd, "IGNORED", NoName, FALSE)
    <2>2. /\ WatchesDistinct'
          /\ TrueEvents \subseteq TrueEvents'
          /\ AllAbout(n, TrueEvents')
      BY <1>2, <1>3, <2>1, DropEffect
    <2>3. \A v \in 1 .. next_wd - 1 : Live(v)' => Live(v) /\ v # wd
      BY <1>2, <1>3, <2>1, DropEffect
    <2>4. e \in KernelEvents /\ e.wd = watch[n]
      BY <1>3, <2>1 DEF Event, KernelEvents, Kinds, WatchesDistinct
    <2>5. Overflow \in TrueEvents' /\ (e.wd # 0 => e \in TrueEvents')
      BY <1>3, <2>2, <2>4, HarmlessTrue DEF Harmless, AllAbout
    <2>6. queue \in Seq(TrueEvents') /\ batch' \in Seq(TrueEvents')
      BY <1>2, <1>3, <2>2, SeqMonotonic
    <2>7. EventsTrue'
      BY <2>1, <2>5, <2>6, SendTyped DEF EventsTrue
    <2>8. MarksRight'
      BY <1>1, <1>2, <2>3 DEF WatchInv, MarksRight
    <2>9. NoWatchForgotten'
      BY <1>2, <1>3, <2>1 DEF WatchInv, WatchesDistinct, NoWatchForgotten
    <2> QED
      BY <2>2, <2>7, <2>8, <2>9 DEF WatchInv
  <1> QED
    BY <1>4, <1>5

LEMMA CleanDescriptorsStep ==
  ASSUME WatchInv, CleanDescriptors
  PROVE  WatchInv'
  <1>1. /\ watches_to_remove = {} /\ watches_to_remove' = {} /\ descriptors_to_remove' = {}
        /\ watched_descriptors' = watched_descriptors \ descriptors_to_remove
        /\ UNCHANGED <<watch, next_wd, queue, batch>>
    BY DEF CleanDescriptors, kernelVars
  <1>2. \A wd \in descriptors_to_remove : ~Live(wd)
    BY <1>1 DEF WatchInv, MarksRight
  <1>3. NoWatchForgotten'
    BY <1>1, <1>2 DEF WatchInv, NoWatchForgotten, Live
  <1>4. TrueEvents' = TrueEvents
    BY <1>1 DEF TrueEvents, Live
  <1>5. WatchesDistinct' /\ EventsTrue' /\ MarksRight'
    BY <1>1, <1>4 DEF WatchInv, WatchesDistinct, EventsTrue, MarksRight
  <1> QED
    BY <1>3, <1>5 DEF WatchInv

LEMMA ScanAddStep ==
  ASSUME WatchInv, ScanAdd
  PROVE  WatchInv'
  <1>1. PICK wd \in Wds : /\ AddWatch(Scanned.path, wd)
                          /\ watched_descriptors' = watched_descriptors \cup {wd}
    BY DEF ScanAdd
  <1>2. UNCHANGED <<queue, marks, batch>>
    BY <1>1 DEF ScanAdd, AddWatch
  <1>3. PICK n \in Inodes :
          \/ watch[n] # 0 /\ wd = watch[n] /\ UNCHANGED <<watch, next_wd>>
          \/ /\ watch[n] = 0
             /\ wd = next_wd
             /\ watch' = [watch EXCEPT ![n] = wd]
             /\ next_wd' = next_wd + 1
    BY <1>1 DEF AddWatch
  <1>4. CASE UNCHANGED <<watch, next_wd>>
    <2>1. WatchesDistinct' /\ NoWatchForgotten'
      BY <1>1, <1>4 DEF WatchInv, WatchesDistinct, NoWatchForgotten
    <2>2. TrueEvents' = TrueEvents /\ \A v : Live(v)' <=> Live(v)
      BY <1>4 DEF TrueEvents, Live
    <2>3. EventsTrue' /\ MarksRight'
      BY <1>2, <1>4, <2>2 DEF WatchInv, EventsTrue, MarksRight, marks
    <2> QED
      BY <2>1, <2>3 DEF WatchInv
  <1>5. CASE ~UNCHANGED <<watch, next_wd>>
    <2>1. WatchesDistinct /\ watch[n] = 0 /\ wd = next_wd
          /\ watch' = [watch EXCEPT ![n] = next_wd] /\ next_wd' = next_wd + 1
      BY <1>3, <1>5 DEF WatchInv
    <2>2. WatchesDistinct' /\ TrueEvents \subseteq TrueEvents'
      BY <2>1, AddEffect
    <2>3. \A v \in 1 .. next_wd - 1 : Live(v)' <=> Live(v)
      BY <2>1, AddEffect
    <2>4. EventsTrue'
      BY <1>2, <2>2, SeqMonotonic DEF WatchInv, EventsTrue
    <2>5. MarksRight'
      BY <1>2, <2>1, <2>3 DEF WatchInv, WatchesDistinct, MarksRight, marks
    <2>6. NoWatchForgotten'
      BY <1>1, <2>1 DEF WatchInv, WatchesDistinct, NoWatchForgotten
    <2> QED
      BY <2>2, <2>4, <2>5, <2>6 DEF WatchInv
  <1> QED
    BY <1>4, <1>5

LEMMA ReadEventsStep ==
  ASSUME WatchInv, ReadEvents
  PROVE  WatchInv'
  <1> DEFINE n == IF Len(queue) < BufferEvents THEN Len(queue) ELSE BufferEvents
  <1>1. /\ batch' = SubSeq(queue, 1, n)
        /\ queue' = SubSeq(queue, n + 1, Len(queue))
        /\ UNCHANGED <<watch, next_wd, marks, watched_descriptors>>
    BY DEF ReadEvents, tables
  <1>2. TrueEvents' = TrueEvents /\ \A wd : Live(wd)' <=> Live(wd)
    BY <1>1 DEF TrueEvents, Live
  <1>3. queue \in Seq(TrueEvents) /\ Len(queue) \in Nat
    BY DEF WatchInv, EventsTrue
  <1>4. n \in 0 .. Len(queue)
    BY <1>3, MonitorAssumption
  <1>5. \A i \in 1 .. Len(queue) : queue[i] \in TrueEvents
    BY <1>3, ElementOfSeq
  <1>6. SubSeq(queue, 1, n) \in Seq(TrueEvents)
    BY <1>3, <1>4, <1>5, SubSeqProperties
  <1>7. SubSeq(queue, n + 1, Len(queue)) \in Seq(TrueEvents)
    BY <1>3, <1>4, <1>5, SubSeqProperties
  <1>8. EventsTrue'
    BY <1>1, <1>2, <1>6, <1>7 DEF EventsTrue
  <1>9. WatchesDistinct' /\ MarksRight' /\ NoWatchForgotten'
    BY <1>1, <1>2 DEF WatchInv, WatchesDistinct, MarksRight, NoWatchForgotten, marks
  <1> QED
    BY <1>8, <1>9 DEF WatchInv

LEMMA PreprocessEventStep ==
  ASSUME WatchInv, PreprocessEvent
  PROVE  WatchInv'
  <1> DEFINE e == Head(batch)
  <1>1. /\ batch # <<>> /\ e.kind # "Q_OVERFLOW" /\ batch' = Tail(batch)
        /\ watches_to_remove' =
             watches_to_remove \cup (IF WatchToRemove(e) THEN {e.wd} ELSE {})
        /\ descriptors_to_remove' =
             descriptors_to_remove \cup (IF DescriptorToRemove(e) THEN {e.wd} ELSE {})
        /\ UNCHANGED <<watch, next_wd, queue, watched_descriptors>>
    BY DEF PreprocessEvent, kernelVars, tables
  <1>2. TrueEvents' = TrueEvents /\ \A wd : Live(wd)' <=> Live(wd)
    BY <1>1 DEF TrueEvents, Live
  <1>3. e \in TrueEvents /\ Tail(batch) \in Seq(TrueEvents)
    BY <1>1, HeadTailProperties DEF WatchInv, EventsTrue
  <1>4. EventsTrue'
    BY <1>1, <1>2, <1>3 DEF WatchInv, EventsTrue
  <1>5. /\ e.wd \in 1 .. next_wd - 1
        /\ DescriptorToRemove(e) /\ Live(e.wd) => WatchToRemove(e)
    BY <1>1, <1>3 DEF TrueEvents, DescriptorToRemove, WatchToRemove
  <1>6. MarksRight'
    BY <1>1, <1>2, <1>5 DEF WatchInv, MarksRight
  <1>7. WatchesDistinct' /\ NoWatchForgotten'
    BY <1>1 DEF WatchInv, WatchesDistinct, NoWatchForgotten
  <1> QED
    BY <1>4, <1>6, <1>7 DEF WatchInv

(* The other steps only move on. *)
Elsewhere ==
  VisitRoot \/ RootsVisited \/ ScanStat \/ ScanAddFails \/ ScanList \/ ScanDone
    \/ SelectTimeout \/ PreprocessOverflow \/ NotifyEvents \/ CallbackFails \/ CallFails \/ Restart

LEMMA ElsewhereStep ==
  ASSUME WatchInv, Elsewhere \/ UNCHANGED vars
  PROVE  WatchInv'
  <1>1. /\ UNCHANGED <<watch, next_wd, queue, marks, watched_descriptors>>
        /\ batch' \in {batch, <<>>}
    BY DEF Elsewhere, VisitRoot, RootsVisited, ScanStat, ScanAddFails, ScanList, ScanDone,
           SelectTimeout, PreprocessOverflow, NotifyEvents, CallbackFails, CallFails, Restart, vars, kernelVars,
           monitorVars, tables, marks
  <1>2. TrueEvents' = TrueEvents /\ \A wd : Live(wd)' <=> Live(wd)
    BY <1>1 DEF TrueEvents, Live
  <1>3. EventsTrue'
    BY <1>1, <1>2, EmptySeq DEF WatchInv, EventsTrue
  <1>4. WatchesDistinct' /\ MarksRight' /\ NoWatchForgotten'
    BY <1>1, <1>2 DEF WatchInv, WatchesDistinct, MarksRight, NoWatchForgotten, marks
  <1> QED
    BY <1>3, <1>4 DEF WatchInv

-----------------------------------------------------------------------------
(* The inductive invariant: descriptors are never shared or reused, what    *)
(* the queue says of dead watches is true, and what the monitor is about to *)
(* forget is dead or about to be removed.                                   *)
THEOREM WatchInvariant == Spec => []WatchInv
  <1>1. Init => WatchInv
    BY EmptySeq DEF Init, KernelInit, MonitorInit, WatchInv, WatchesDistinct, EventsTrue,
       MarksRight, NoWatchForgotten
  <1>2. WatchInv /\ [Next]_vars => WatchInv'
    <2> SUFFICES ASSUME WatchInv, [Next]_vars PROVE WatchInv'
      OBVIOUS
    <2>1. ChangeTree \/ RemovePendingWatch \/ CleanDescriptors \/ ScanAdd \/ ReadEvents
            \/ PreprocessEvent \/ Elsewhere \/ UNCHANGED vars
      BY DEF Next, MonitorStep, Elsewhere
    <2> QED
      BY <2>1, ChangeTreeStep, RemovePendingWatchStep, CleanDescriptorsStep, ScanAddStep,
         ReadEventsStep, PreprocessEventStep, ElsewhereStep
  <1> QED
    BY <1>1, <1>2, PTL DEF Spec

(* The monitor forgets no watch the kernel keeps, so that its destructor    *)
(* removes them all: whatever is moved, deleted or watched again between    *)
(* the kernel's event and the step that cleans up after it, and although    *)
(* an overflow may lose any event.                                          *)
THEOREM NothingForgotten == Spec => []NoWatchForgotten
  <1>1. WatchInv => NoWatchForgotten
    BY DEF WatchInv
  <1> QED
    BY <1>1, WatchInvariant, PTL

-----------------------------------------------------------------------------
(* Types.                                                                   *)

Item == [path : Paths, any : BOOLEAN]
Change == [path : Seq(Names) \cup {Unknown}, flags : (SUBSET AllFlags) \ {{}}]

LEMMA TrueEventsTyped == TrueEvents \subseteq KernelEvents
  BY DEF TrueEvents

LEMMA QueueTyped ==
  ASSUME WatchInv
  PROVE  queue \in Seq(KernelEvents) /\ batch \in Seq(KernelEvents)
  BY TrueEventsTyped, SeqMonotonic DEF WatchInv, EventsTrue

LEMMA ChangeTreeTypes ==
  ASSUME TypeOK, WatchInv', ChangeTree
  PROVE  TypeOK'
  <1>1. TreeTypeOK /\ watch \in [Inodes -> 0 .. MaxWd] /\ 0 \in 0 .. MaxWd
    BY KernelAssumption DEF TypeOK, KernelTypeOK
  <1>2. ops' \in 0 .. MaxOps
    BY <1>1, CountTyped DEF ChangeTree
  <1>3. next_wd' = next_wd
    BY DEF ChangeTree, Write, Create, Delete, Rename, Replace
  <1> DEFINE Seats == [Inodes -> ((Dirs \cup {Base}) \X Names) \cup {Nowhere}]
  <1>4. ASSUME NEW p \in Paths, Write(p)
        PROVE  seat' \in Seats /\ watch' \in [Inodes -> 0 .. MaxWd]
    BY <1>1, <1>4 DEF Write, WriteNode, TreeTypeOK
  <1>5. ASSUME NEW p \in Paths, Create(p)
        PROVE  seat' \in Seats /\ watch' \in [Inodes -> 0 .. MaxWd]
    <2>1. PICK n \in Inodes : MakeNode(p, n)
      BY <1>5 DEF Create
    <2>2. seat' \in Seats
      BY <1>1, <2>1, MakeTyped
    <2> QED
      BY <1>1, <1>5, <2>2 DEF Create
  <1>6. ASSUME NEW p \in Paths, Delete(p)
        PROVE  seat' \in Seats /\ watch' \in [Inodes -> 0 .. MaxWd]
    <2>1. PICK n \in Inodes : DeleteNode(p, n) /\ watch' = [watch EXCEPT ![n] = 0]
      BY <1>6 DEF Delete
    <2>2. seat' \in Seats
      BY <1>1, <2>1, DeleteTyped
    <2> QED
      BY <1>1, <2>1, <2>2
  <1>7. ASSUME NEW p \in Paths, NEW q \in Paths, Rename(p, q)
        PROVE  seat' \in Seats /\ watch' \in [Inodes -> 0 .. MaxWd]
    <2>1. PICK n \in Inodes : RenameNode(p, q, n)
      BY <1>7 DEF Rename
    <2>2. seat' \in Seats
      BY <1>1, <2>1, RenameTyped
    <2> QED
      BY <1>1, <1>7, <2>2 DEF Rename
  <1>8. ASSUME NEW p \in Paths, NEW q \in Paths, Replace(p, q)
        PROVE  seat' \in Seats /\ watch' \in [Inodes -> 0 .. MaxWd]
    <2>1. PICK n \in Inodes, m \in Inodes :
            ReplaceNode(p, q, n, m) /\ watch' = [watch EXCEPT ![m] = 0]
      BY <1>8 DEF Replace
    <2>2. seat' \in Seats
      BY <1>1, <2>1, ReplaceTyped
    <2> QED
      BY <1>1, <2>1, <2>2
  <1>9. seat' \in Seats /\ watch' \in [Inodes -> 0 .. MaxWd]
    BY <1>4, <1>5, <1>6, <1>7, <1>8 DEF ChangeTree
  <1>10. queue' \in Seq(KernelEvents)
    <2>1. TrueEvents' \subseteq KernelEvents
      BY DEF TrueEvents
    <2> QED
      BY <2>1, SeqMonotonic DEF WatchInv, EventsTrue
  <1>11. owed' \subseteq Paths /\ lossy' \in BOOLEAN
    BY DEF ChangeTree, NoteLoss, TypeOK
  <1>12. KernelTypeOK'
    BY <1>2, <1>3, <1>9, <1>10 DEF TypeOK, KernelTypeOK, TreeTypeOK
  <1> QED
    BY <1>11, <1>12 DEF TypeOK, ChangeTree, monitorVars

LEMMA ScannedTyped ==
  ASSUME TypeOK, todo # <<>>
  PROVE  Scanned \in Item /\ Tail(todo) \in Seq(Item)
  <1>1. todo \in Seq(Item)
    BY DEF TypeOK, Item
  <1> QED
    BY <1>1, HeadTailProperties DEF Scanned

LEMMA RemovePendingTypes ==
  ASSUME TypeOK, WatchInv', RemovePendingWatch
  PROVE  TypeOK'
  <1>1. PICK wd \in watches_to_remove :
          RemoveWatch(wd) /\ watches_to_remove' = watches_to_remove \ {wd}
    BY DEF RemovePendingWatch
  <1>2. /\ UNCHANGED <<treeVars, next_wd, pc, root, todo, found, tables, descriptors_to_remove,
                       batch, events, owed>>
        /\ NoteLoss
    BY <1>1 DEF RemovePendingWatch, RemoveWatch
  <1>3. watch' \in [Inodes -> 0 .. MaxWd]
    <2>1. 0 \in 0 .. MaxWd /\ watch \in [Inodes -> 0 .. MaxWd]
      BY KernelAssumption DEF TypeOK, KernelTypeOK
    <2>2. (\E n \in Inodes : watch' = [watch EXCEPT ![n] = 0]) \/ watch' = watch
      BY <1>1 DEF RemoveWatch
    <2> QED
      BY <2>1, <2>2
  <1>4. queue' \in Seq(KernelEvents)
    <2>1. TrueEvents' \subseteq KernelEvents
      BY DEF TrueEvents
    <2> QED
      BY <2>1, SeqMonotonic DEF WatchInv, EventsTrue
  <1>5. KernelTypeOK'
    BY <1>2, <1>3, <1>4 DEF TypeOK, KernelTypeOK, TreeTypeOK, treeVars
  <1>6. lossy' \in BOOLEAN
    BY <1>2 DEF NoteLoss, TypeOK
  <1> QED
    BY <1>1, <1>2, <1>5, <1>6 DEF TypeOK, tables

LEMMA CleanDescriptorsTypes ==
  ASSUME TypeOK, CleanDescriptors
  PROVE  TypeOK'
  <1>1. KernelTypeOK' /\ 0 \in 0 .. MaxWd
    BY KernelAssumption
    DEF CleanDescriptors, kernelVars, treeVars, TypeOK, KernelTypeOK, TreeTypeOK
  <1>2. path_to_wd' \in [Paths -> 0 .. MaxWd]
    BY <1>1 DEF CleanDescriptors, TypeOK
  <1>3. wd_to_path' \in [Wds -> Paths \cup {Unknown}]
    BY DEF CleanDescriptors, TypeOK
  <1>4. root' \in 1 .. Len(Roots) + 1
    BY MonitorAssumption, LenProperties DEF CleanDescriptors
  <1> QED
    BY <1>1, <1>2, <1>3, <1>4 DEF CleanDescriptors, TypeOK, history

LEMMA VisitRootTypes ==
  ASSUME TypeOK, VisitRoot
  PROVE  TypeOK'
  <1>1. root \in 1 .. Len(Roots) /\ root' \in 1 .. Len(Roots) + 1
    BY MonitorAssumption, LenProperties DEF VisitRoot, TypeOK
  <1>2. [path |-> Roots[root], any |-> TRUE] \in Item
    BY <1>1, MonitorAssumption, ElementOfSeq DEF Item
  <1>3. todo' \in Seq(Item) /\ pc' \in {pc, "scan"}
    <2>1. <<[path |-> Roots[root], any |-> TRUE]>> \in Seq(Item)
      BY <1>2
    <2>2. todo \in Seq(Item)
      BY DEF TypeOK, Item
    <2> QED
      BY <2>1, <2>2 DEF VisitRoot
  <1>4. UNCHANGED <<kernelVars, found, tables, marks, batch, events, history>>
    BY DEF VisitRoot
  <1> QED
    BY <1>1, <1>3, <1>4
    DEF TypeOK, KernelTypeOK, TreeTypeOK, kernelVars, treeVars, tables, marks, history, Item

LEMMA ScanAddTypes ==
  ASSUME TypeOK, pc = "add" => todo # <<>>, WatchInv', ScanAdd
  PROVE  TypeOK'
  <1>1. PICK wd \in Wds :
          /\ AddWatch(Scanned.path, wd)
          /\ watched_descriptors' = watched_descriptors \cup {wd}
          /\ wd_to_path' = [wd_to_path EXCEPT ![wd] = Scanned.path]
          /\ path_to_wd' = [path_to_wd EXCEPT ![Scanned.path] = wd]
    BY DEF ScanAdd
  <1>2. Scanned.path \in Paths /\ Tail(todo) \in Seq(Item)
    BY ScannedTyped DEF ScanAdd, Item
  <1>3. wd \in 0 .. MaxWd /\ wd + 1 \in 1 .. MaxWd + 1
    BY KernelAssumption DEF Wds
  <1>4. watch' \in [Inodes -> 0 .. MaxWd] /\ next_wd' \in 1 .. MaxWd + 1
    BY <1>1, <1>3 DEF AddWatch, TypeOK, KernelTypeOK
  <1>5. KernelTypeOK'
    BY <1>1, <1>4 DEF AddWatch, TypeOK, KernelTypeOK, TreeTypeOK, treeVars
  <1>6. wd_to_path' \in [Wds -> Paths \cup {Unknown}] /\ path_to_wd' \in [Paths -> 0 .. MaxWd]
    BY <1>1, <1>2, <1>3 DEF TypeOK
  <1>7. pc' \in {"list", "scan"} /\ todo' \in Seq(Item)
    BY <1>2 DEF ScanAdd, TypeOK, Item
  <1>8. UNCHANGED <<root, found, marks, batch, events, history>>
    BY DEF ScanAdd
  <1> QED
    BY <1>1, <1>5, <1>6, <1>7, <1>8 DEF TypeOK, marks, history, Item

LEMMA ScanListTypes ==
  ASSUME TypeOK, pc = "list" => todo # <<>>, ScanList
  PROVE  TypeOK'
  <1>1. /\ pc = "list" /\ pc' = "scan" /\ todo # <<>>
        /\ UNCHANGED <<kernelVars, root, found, tables, marks, batch, events, history>>
    BY DEF ScanList
  <1>2. PICK names \in SetToSeqs(Children(Scanned.path)) :
          todo' = [i \in DOMAIN names |->
                     [path |-> Append(Scanned.path, names[i]), any |-> FALSE]]
                  \o Tail(todo)
    BY DEF ScanList
  <1> DEFINE N == Cardinality(Children(Scanned.path))
             items == [i \in DOMAIN names |->
                         [path |-> Append(Scanned.path, names[i]), any |-> FALSE]]
  <1>3. Scanned.path \in Paths /\ Tail(todo) \in Seq(Item)
    BY <1>1, ScannedTyped DEF Item
  <1>4. N \in Nat /\ items \in [1 .. N -> Item]
    BY <1>3, ChildrenListed DEF Item
  <1>5. todo' = items \o Tail(todo)
    BY <1>2
  <1> HIDE DEF N, items
  <1>6. items \in Seq(Item)
    BY <1>4
  <1>7. todo' \in Seq(Item)
    BY <1>3, <1>5, <1>6, ConcatProperties
  <1> QED
    BY <1>1, <1>7
    DEF TypeOK, KernelTypeOK, TreeTypeOK, kernelVars, treeVars, tables, marks, history, Item

LEMMA ReadEventsTypes ==
  ASSUME TypeOK, WatchInv', ReadEvents
  PROVE  TypeOK'
  <1>1. queue' \in Seq(KernelEvents) /\ batch' \in Seq(KernelEvents)
    <2>1. TrueEvents' \subseteq KernelEvents
      BY DEF TrueEvents
    <2> QED
      BY <2>1, SeqMonotonic DEF WatchInv, EventsTrue
  <1>2. /\ pc' = "dispatch"
        /\ UNCHANGED <<treeVars, watch, next_wd, root, todo, found, tables, marks, events, history>>
    BY DEF ReadEvents
  <1> QED
    BY <1>1, <1>2
    DEF TypeOK, KernelTypeOK, TreeTypeOK, treeVars, tables, marks, history

LEMMA ReportedTyped ==
  ASSUME NEW path \in Seq(Names) \cup {Unknown}, NEW flags \in SUBSET AllFlags
  PROVE  Reported(path, flags) \in Seq(Change)
  <1>1. CASE flags = {}
    BY <1>1 DEF Reported
  <1>2. CASE flags # {}
    <2>1. [path |-> path, flags |-> flags] \in Change
      BY <1>2 DEF Change
    <2> QED
      BY <1>2, <2>1 DEF Reported
  <1> QED
    BY <1>1, <1>2

LEMMA PreprocessEventTypes ==
  ASSUME TypeOK, WatchInv, PreprocessEvent
  PROVE  TypeOK'
  <1> DEFINE e == Head(batch)
  <1>1. /\ batch # <<>> /\ e.kind # "Q_OVERFLOW" /\ batch' = Tail(batch)
        /\ events' = events \o Reported(wd_to_path[e.wd], DirFlags(e))
                            \o Reported(EventPath(e), NodeFlags(e))
        /\ watches_to_remove' =
             watches_to_remove \cup (IF WatchToRemove(e) THEN {e.wd} ELSE {})
        /\ descriptors_to_remove' =
             descriptors_to_remove \cup (IF DescriptorToRemove(e) THEN {e.wd} ELSE {})
        /\ UNCHANGED <<kernelVars, pc, root, todo, found, tables, history>>
    BY DEF PreprocessEvent
  <1>2. e \in TrueEvents /\ e \in KernelEvents /\ Tail(batch) \in Seq(KernelEvents)
    <2>1. batch \in Seq(TrueEvents) /\ batch \in Seq(KernelEvents)
      BY QueueTyped DEF WatchInv, EventsTrue
    <2> QED
      BY <1>1, <2>1, HeadTailProperties, TrueEventsTyped
  <1>3. e.wd \in Wds
    BY <1>1, <1>2, KernelAssumption DEF TrueEvents, Wds, TypeOK, KernelTypeOK
  <1> HIDE DEF e
  <1>4. wd_to_path[e.wd] \in Seq(Names) \cup {Unknown}
    BY <1>3, PathTyped DEF TypeOK
  <1>5. EventPath(e) \in Seq(Names) \cup {Unknown}
    <2>1. e.name \in Names \cup {NoName}
      BY <1>2 DEF KernelEvents
    <2>2. wd_to_path[e.wd] \in Seq(Names) /\ e.name \in Names
            => Append(wd_to_path[e.wd], e.name) \in Seq(Names)
      BY AppendProperties
    <2> QED
      BY <1>4, <2>1, <2>2 DEF EventPath
  <1>6. DirFlags(e) \in SUBSET AllFlags /\ NodeFlags(e) \in SUBSET AllFlags
    BY DEF DirFlags, NodeFlags, AllFlags
  <1>7. events' \in Seq(Change)
    <2>1. events \in Seq(Change)
      BY DEF TypeOK, Change
    <2>2. Reported(wd_to_path[e.wd], DirFlags(e)) \in Seq(Change)
      BY <1>4, <1>6, ReportedTyped
    <2>3. Reported(EventPath(e), NodeFlags(e)) \in Seq(Change)
      BY <1>5, <1>6, ReportedTyped
    <2> QED
      BY <1>1, <2>1, <2>2, <2>3, ConcatProperties
  <1>8. watches_to_remove' \subseteq descriptors_to_remove' /\ descriptors_to_remove' \subseteq Wds
    BY <1>1, <1>3 DEF WatchToRemove, DescriptorToRemove, TypeOK
  <1> QED
    BY <1>1, <1>2, <1>7, <1>8
    DEF TypeOK, KernelTypeOK, TreeTypeOK, kernelVars, treeVars, tables, history, Change

LEMMA ElsewhereTypes ==
  ASSUME TypeOK, pc = "add" => todo # <<>>, Elsewhere \/ UNCHANGED vars, ~VisitRoot, ~ScanList
  PROVE  TypeOK'
  <1>1. CASE RootsVisited \/ ScanDone \/ SelectTimeout \/ CallbackFails \/ CallFails \/ Restart \/ UNCHANGED vars
    BY <1>1
    DEF RootsVisited, ScanDone, SelectTimeout, CallbackFails, CallFails, Restart, vars, monitorVars, TypeOK,
        KernelTypeOK, TreeTypeOK, kernelVars, treeVars, tables, marks, history
  <1>2. CASE PreprocessOverflow
    <2>1. <<>> \in Seq(KernelEvents)
      BY EmptySeq
    <2> QED
      BY <1>2, <2>1
      DEF PreprocessOverflow, TypeOK, KernelTypeOK, TreeTypeOK, kernelVars, treeVars, tables,
          marks, history
  <1>3. CASE NotifyEvents
    <2>1. <<>> \in Seq(Change) /\ owed' \subseteq Paths
      BY <1>3, EmptySeq DEF NotifyEvents, TypeOK
    <2> QED
      BY <1>3, <2>1
      DEF NotifyEvents, TypeOK, KernelTypeOK, TreeTypeOK, kernelVars, treeVars, tables, marks,
          Change
  <1>4. CASE ScanAddFails
    <2>1. Tail(todo) \in Seq(Item)
      BY <1>4, ScannedTyped DEF ScanAddFails
    <2> QED
      BY <1>4, <2>1
      DEF ScanAddFails, TypeOK, KernelTypeOK, TreeTypeOK, kernelVars, treeVars, tables, marks,
          history, Item
  <1>5. CASE ScanStat
    <2>1. Tail(todo) \in Seq(Item) /\ todo \in Seq(Item)
      BY <1>5, ScannedTyped DEF ScanStat, TypeOK, Item
    <2>2. IsDir(Resolve(Scanned.path)) \in BOOLEAN
      BY DEF IsDir
    <2>3. pc' \in {"scan", "add"} /\ found' \in BOOLEAN /\ todo' \in Seq(Item)
      <3>1. CASE ToScan(Resolve(Scanned.path))
        BY <1>5, <2>1, <2>2, <3>1 DEF ScanStat
      <3>2. CASE ~ToScan(Resolve(Scanned.path))
        <4>1. todo' = Tail(todo) /\ UNCHANGED <<pc, found>> /\ pc = "scan"
          BY <1>5, <3>2 DEF ScanStat
        <4> QED
          BY <2>1, <4>1 DEF TypeOK
      <3> QED
        BY <3>1, <3>2
    <2>4. UNCHANGED <<kernelVars, root, tables, marks, batch, events, history>>
      BY <1>5 DEF ScanStat
    <2> QED
      BY <2>3, <2>4
      DEF TypeOK, KernelTypeOK, TreeTypeOK, kernelVars, treeVars, tables, marks, history, Item
  <1> QED
    BY <1>1, <1>2, <1>3, <1>4, <1>5 DEF Elsewhere

-----------------------------------------------------------------------------
(* What is lost and what is noticed.                                        *)

(* Only dispatch has a batch, and only a scan has paths to scan. *)
LoopShape ==
  /\ pc # "dispatch" => batch = <<>>
  /\ pc \in {"add", "list"} => todo # <<>>

LossKnown ==
  ~lossy => \A s \in {queue, batch} : \A i \in DOMAIN s : s[i].kind # "Q_OVERFLOW"

IInv == TypeOK /\ WatchInv /\ LoopShape /\ LossKnown /\ DeadWatchesNoticed

Has(q, e) == \E i \in DOMAIN q : q[i] = e

LEMMA AppendHas ==
  ASSUME NEW q \in Seq(KernelEvents), NEW e \in KernelEvents
  PROVE  /\ Append(q, e) \in Seq(KernelEvents)
         /\ Has(Append(q, e), e)
         /\ \A x : Has(q, x) => Has(Append(q, e), x)
  <1>1. /\ Append(q, e) \in Seq(KernelEvents)
        /\ Len(Append(q, e)) = Len(q) + 1
        /\ Append(q, e)[Len(q) + 1] = e
        /\ \A i \in 1 .. Len(q) : Append(q, e)[i] = q[i]
        /\ Len(q) \in Nat
    BY AppendProperties, LenProperties
  <1>2. DOMAIN q = 1 .. Len(q) /\ DOMAIN Append(q, e) = 1 .. Len(q) + 1
    BY <1>1, LenProperties
  <1> QED
    BY <1>1, <1>2 DEF Has

(* Nothing is taken from the queue; what is sent arrives or overflows it.   *)
LEMMA SendHas ==
  ASSUME NEW q \in Seq(KernelEvents), NEW e \in KernelEvents
  PROVE  /\ Send(q, e) \in Seq(KernelEvents)
         /\ \A x : Has(q, x) => Has(Send(q, e), x)
         /\ e.wd # 0 => Has(Send(q, e), e) \/ Has(Send(q, e), Overflow)
  <1> DEFINE new == IF Len(q) >= MaxQueue THEN Overflow ELSE e
  <1>1. new \in KernelEvents
    BY OverflowTyped
  <1>2. CASE e.wd = 0
    BY <1>2 DEF Send
  <1>3. CASE e.wd # 0 /\ q # <<>> /\ Last(q) = new
    <2>1. Send(q, e) = q
      BY <1>3 DEF Send
    <2>2. Len(q) \in DOMAIN q
      BY <1>3, EmptySeq, LenProperties
    <2>3. Has(q, new)
      BY <1>3, <2>2 DEF Has, Last
    <2> QED
      BY <2>1, <2>3
  <1>4. CASE e.wd # 0 /\ ~(q # <<>> /\ Last(q) = new)
    <2>1. Send(q, e) = Append(q, new)
      BY <1>4 DEF Send
    <2> QED
      BY <1>1, <2>1, AppendHas
  <1> QED
    BY <1>2, <1>3, <1>4

(* The news of a watch that is gone is in the queue, or the queue overflowed. *)
Announced(q, wd) ==
  \/ Has(q, Overflow)
  \/ \E i \in DOMAIN q : q[i].wd = wd /\ q[i].kind = "IGNORED"

LEMMA IgnoredSent ==
  ASSUME NEW q \in Seq(KernelEvents), NEW wd \in Nat \ {0}
  PROVE  Announced(Send(q, Event(wd, "IGNORED", NoName, FALSE)), wd)
  <1> DEFINE e == Event(wd, "IGNORED", NoName, FALSE)
  <1>1. e \in KernelEvents /\ e.wd = wd /\ e.kind = "IGNORED"
    BY DEF Event, KernelEvents, Kinds
  <1>2. Has(Send(q, e), e) \/ Has(Send(q, e), Overflow)
    BY <1>1, SendHas
  <1> QED
    BY <1>1, <1>2 DEF Announced, Has

LEMMA LastAnnounced ==
  ASSUME WatchesDistinct, NEW q \in Seq(KernelEvents), NEW n \in Inodes
  PROVE  /\ SendLast(q, n) \in Seq(KernelEvents)
         /\ \A x : Has(q, x) => Has(SendLast(q, n), x)
         /\ watch[n] # 0 => Announced(SendLast(q, n), watch[n])
  <1> DEFINE e == SelfEvent(n, "DELETE_SELF")
             f == Event(watch[n], "IGNORED", NoName, FALSE)
  <1>1. e \in KernelEvents /\ f \in KernelEvents /\ watch[n] \in Nat
    BY DEF SelfEvent, Event, KernelEvents, Kinds, IsDir, WatchesDistinct
  <1>2. /\ Send(q, e) \in Seq(KernelEvents)
        /\ \A x : Has(q, x) => Has(Send(q, e), x)
    BY <1>1, SendHas
  <1>3. /\ Send(Send(q, e), f) \in Seq(KernelEvents)
        /\ \A x : Has(Send(q, e), x) => Has(Send(Send(q, e), f), x)
    BY <1>1, <1>2, SendHas
  <1> HIDE DEF e
  <1>4. watch[n] # 0 => Announced(Send(Send(q, e), f), watch[n])
    <2>1. watch[n] # 0 => watch[n] \in Nat \ {0}
      BY <1>1
    <2> QED
      BY <1>2, <2>1, IgnoredSent
  <1> QED
    BY <1>2, <1>3, <1>4 DEF SendLast, e

(* The queue as it may be after more was sent. *)
Grown(q) == q \in Seq(KernelEvents) /\ \A x : Has(queue, x) => Has(q, x)

LEMMA GrownByEntry ==
  ASSUME WatchesDistinct, NEW q, Grown(q), NEW d \in Dirs \cup {Base}, NEW kind \in EntryKinds,
         NEW p \in Paths, NEW n \in Inodes
  PROVE  Grown(Send(q, EntryEvent(d, kind, Last(p), n)))
  <1>1. EntryEvent(d, kind, Last(p), n) \in KernelEvents
    BY PathTyped, TreeAssumption
    DEF EntryEvent, Event, KernelEvents, EntryKinds, Kinds, IsDir, WatchesDistinct
  <1> QED
    BY <1>1, SendHas DEF Grown

LEMMA GrownBySelf ==
  ASSUME WatchesDistinct, NEW q, Grown(q), NEW kind \in {"MODIFY", "MOVE_SELF"}, NEW n \in Inodes
  PROVE  /\ Grown(Send(q, SelfEvent(n, kind)))
         /\ watch[n] # 0 => \/ Has(Send(q, SelfEvent(n, kind)), SelfEvent(n, kind))
                            \/ Has(Send(q, SelfEvent(n, kind)), Overflow)
  <1>1. SelfEvent(n, kind) \in KernelEvents /\ SelfEvent(n, kind).wd = watch[n]
    BY DEF SelfEvent, Event, KernelEvents, Kinds, IsDir, WatchesDistinct
  <1> QED
    BY <1>1, SendHas DEF Grown

LEMMA GrownByMove ==
  ASSUME WatchesDistinct, Grown(queue), NEW p \in Paths, NEW q \in Paths, NEW n \in Inodes,
         {Parent(p), Parent(q)} \subseteq Dirs \cup {Base}
  PROVE  /\ Grown(SendMoved(p, q, n))
         /\ watch[n] # 0 => \/ Has(SendMoved(p, q, n), SelfEvent(n, "MOVE_SELF"))
                            \/ Has(SendMoved(p, q, n), Overflow)
  <1> DEFINE from == Send(queue, EntryEvent(Parent(p), "MOVED_FROM", Last(p), n))
             to == Send(from, EntryEvent(Parent(q), "MOVED_TO", Last(q), n))
  <1>1. Grown(from)
    BY GrownByEntry DEF EntryKinds
  <1>2. Grown(to)
    BY <1>1, GrownByEntry DEF EntryKinds
  <1> HIDE DEF to
  <1>3. /\ Grown(Send(to, SelfEvent(n, "MOVE_SELF")))
        /\ watch[n] # 0 => \/ Has(Send(to, SelfEvent(n, "MOVE_SELF")), SelfEvent(n, "MOVE_SELF"))
                           \/ Has(Send(to, SelfEvent(n, "MOVE_SELF")), Overflow)
    BY <1>2, GrownBySelf
  <1> QED
    BY <1>3 DEF SendMoved, to

LEMMA GrownByLast ==
  ASSUME WatchesDistinct, NEW q, Grown(q), NEW n \in Inodes
  PROVE  /\ Grown(SendLast(q, n))
         /\ watch[n] # 0 => Announced(SendLast(q, n), watch[n])
  BY LastAnnounced DEF Grown

(* A step that only sends: what it drops it announces.                      *)
LEMMA SendingStep ==
  ASSUME IInv, queue' \in Seq(KernelEvents), NoteLoss,
         UNCHANGED <<batch, watched_descriptors, descriptors_to_remove>>,
         \A x : Has(queue, x) => Has(queue', x),
         \A wd \in watched_descriptors : Live(wd) => Live(wd)' \/ Announced(queue', wd)
  PROVE  LossKnown' /\ DeadWatchesNoticed'
  <1>1. ~lossy' => ~lossy /\ \A i \in DOMAIN queue' : queue'[i].kind # "Q_OVERFLOW"
    BY DEF NoteLoss, IInv, TypeOK
  <1>2. LossKnown'
    BY <1>1 DEF IInv, LossKnown
  <1>3. ASSUME ~lossy', NEW wd \in watched_descriptors
        PROVE  Live(wd)' \/ wd \in descriptors_to_remove \/ Pending(wd, {"IGNORED"})'
    <2>1. Announced(queue', wd) => Pending(wd, {"IGNORED"})'
      BY <1>1, <1>3, OverflowTyped DEF Announced, Has, Pending
    <2>2. Pending(wd, {"IGNORED"}) => Pending(wd, {"IGNORED"})'
      <3>1. ASSUME NEW i \in DOMAIN queue, queue[i].wd = wd, queue[i].kind = "IGNORED"
            PROVE  \E j \in DOMAIN queue' : queue'[j].wd = wd /\ queue'[j].kind = "IGNORED"
        <4>1. Has(queue, queue[i])
          BY DEF Has
        <4>2. Has(queue', queue[i])
          BY <4>1
        <4> QED
          BY <3>1, <4>2 DEF Has
      <3> QED
        BY <3>1 DEF Pending
    <2>3. Live(wd) \/ wd \in descriptors_to_remove \/ Pending(wd, {"IGNORED"})
      BY <1>1, <1>3 DEF IInv, DeadWatchesNoticed
    <2> QED
      BY <2>1, <2>2, <2>3
  <1> QED
    BY <1>2, <1>3 DEF DeadWatchesNoticed

LEMMA ChangeTreeNotices ==
  ASSUME IInv, ChangeTree
  PROVE  LossKnown' /\ DeadWatchesNoticed'
  <1>1. /\ UNCHANGED <<batch, watched_descriptors, descriptors_to_remove>>
        /\ NoteLoss
    BY DEF ChangeTree, monitorVars
  <1>2. WatchesDistinct /\ queue \in Seq(KernelEvents) /\ 0 \notin watched_descriptors
    BY QueueTyped DEF IInv, WatchInv, TypeOK, Wds
  <1>3. Grown(queue)
    BY <1>2 DEF Grown
  <1>4. ASSUME Grown(queue'), UNCHANGED watch
        PROVE  LossKnown' /\ DeadWatchesNoticed'
    <2>1. \A wd : Live(wd) => Live(wd)'
      BY <1>4 DEF Live
    <2> QED
      BY <1>1, <1>4, <2>1, SendingStep DEF Grown
  <1>5. ASSUME NEW q, Grown(q), NEW n \in Inodes, queue' = SendLast(q, n),
               watch' = [watch EXCEPT ![n] = 0]
        PROVE  LossKnown' /\ DeadWatchesNoticed'
    <2>1. Grown(queue') /\ (watch[n] # 0 => Announced(queue', watch[n]))
      BY <1>2, <1>5, GrownByLast
    <2>2. \A wd \in watched_descriptors : Live(wd) => Live(wd)' \/ wd = watch[n]
      BY <1>2, <1>5 DEF Live, WatchesDistinct
    <2>3. \A wd \in watched_descriptors : Live(wd) => Live(wd)' \/ Announced(queue', wd)
      BY <1>2, <2>1, <2>2
    <2> QED
      BY <1>1, <2>1, <2>3, SendingStep DEF Grown
  <1>6. ASSUME NEW p \in Paths, Write(p)
        PROVE  LossKnown' /\ DeadWatchesNoticed'
    <2>1. PICK n \in Inodes :
            queue' = Send(Send(queue, EntryEvent(Parent(p), "MODIFY", Last(p), n)),
                          SelfEvent(n, "MODIFY"))
      BY <1>6 DEF Write
    <2>2. Parent(p) \in Dirs \cup {Base} /\ UNCHANGED watch
      BY <1>6 DEF Write, WriteNode, IsDir
    <2>3. Grown(Send(queue, EntryEvent(Parent(p), "MODIFY", Last(p), n)))
      BY <1>2, <1>3, <2>2, GrownByEntry DEF EntryKinds
    <2> DEFINE q == Send(queue, EntryEvent(Parent(p), "MODIFY", Last(p), n))
    <2>4. Grown(q) /\ queue' = Send(q, SelfEvent(n, "MODIFY"))
      BY <2>1, <2>3
    <2> HIDE DEF q
    <2>5. Grown(queue')
      BY <1>2, <2>4, GrownBySelf
    <2> QED
      BY <1>4, <2>2, <2>5
  <1>7. ASSUME NEW p \in Paths, Create(p)
         PROVE  LossKnown' /\ DeadWatchesNoticed'
    <2>1. PICK n \in Inodes :
            queue' = Send(queue, EntryEvent(Parent(p), "CREATE", Last(p), n))
      BY <1>7 DEF Create
    <2>2. Parent(p) \in Dirs \cup {Base} /\ UNCHANGED watch
      BY <1>7 DEF Create, MakeNode, IsDir
    <2>3. Grown(Send(queue, EntryEvent(Parent(p), "CREATE", Last(p), n)))
      BY <1>2, <1>3, <2>2, GrownByEntry DEF EntryKinds
    <2> QED
      BY <1>4, <2>1, <2>2, <2>3
  <1>8. ASSUME NEW p \in Paths, Delete(p)
         PROVE  LossKnown' /\ DeadWatchesNoticed'
    <2>1. PICK n \in Inodes :
            /\ watch' = [watch EXCEPT ![n] = 0]
            /\ queue' = SendLast(Send(queue, EntryEvent(Parent(p), "DELETE", Last(p), n)), n)
      BY <1>8 DEF Delete
    <2>2. Parent(p) \in Dirs \cup {Base}
      BY <1>8 DEF Delete, DeleteNode, IsDir
    <2>3. Grown(Send(queue, EntryEvent(Parent(p), "DELETE", Last(p), n)))
      BY <1>2, <1>3, <2>2, GrownByEntry DEF EntryKinds
    <2> QED
      BY <1>5, <2>1, <2>3
  <1>9. ASSUME NEW p \in Paths, NEW q \in Paths, Rename(p, q)
         PROVE  LossKnown' /\ DeadWatchesNoticed'
    <2>1. PICK n \in Inodes : queue' = SendMoved(p, q, n)
      BY <1>9 DEF Rename
    <2>2. {Parent(p), Parent(q)} \subseteq Dirs \cup {Base} /\ UNCHANGED watch
      BY <1>9 DEF Rename, RenameNode, IsDir
    <2>3. Grown(queue')
      BY <1>2, <1>3, <2>1, <2>2, GrownByMove
    <2> QED
      BY <1>4, <2>2, <2>3
  <1>10. ASSUME NEW p \in Paths, NEW q \in Paths, Replace(p, q)
         PROVE  LossKnown' /\ DeadWatchesNoticed'
    <2>1. PICK n \in Inodes, m \in Inodes :
            /\ watch' = [watch EXCEPT ![m] = 0]
            /\ queue' = SendLast(SendMoved(p, q, n), m)
      BY <1>10 DEF Replace
    <2>2. {Parent(p), Parent(q)} \subseteq Dirs \cup {Base}
      BY <1>10 DEF Replace, ReplaceNode, IsDir
    <2>3. Grown(SendMoved(p, q, n))
      BY <1>2, <1>3, <2>2, GrownByMove
    <2> QED
      BY <1>5, <2>1, <2>3
  <1> QED
    BY <1>6, <1>7, <1>8, <1>9, <1>10 DEF ChangeTree

LEMMA RemovePendingNotices ==
  ASSUME IInv, RemovePendingWatch
  PROVE  LossKnown' /\ DeadWatchesNoticed'
  <1>1. PICK wd \in watches_to_remove : RemoveWatch(wd)
    BY DEF RemovePendingWatch
  <1>2. /\ UNCHANGED <<batch, watched_descriptors, descriptors_to_remove>>
        /\ NoteLoss
    BY DEF RemovePendingWatch, tables
  <1>3. WatchesDistinct /\ queue \in Seq(KernelEvents) /\ wd \in Nat \ {0}
    BY QueueTyped DEF IInv, WatchInv, TypeOK, Wds
  <1>4. CASE \A n \in Inodes : watch[n] # wd
    <2>1. UNCHANGED <<watch, queue>>
      BY <1>1, <1>4 DEF RemoveWatch
    <2>2. \A v : Live(v) => Live(v)'
      BY <2>1 DEF Live
    <2> QED
      BY <1>2, <1>3, <2>1, <2>2, SendingStep
  <1>5. CASE ~\A n \in Inodes : watch[n] # wd
    <2> DEFINE e == Event(wd, "IGNORED", NoName, FALSE)
    <2>1. PICK n \in Inodes :
            watch[n] = wd /\ watch' = [watch EXCEPT ![n] = 0] /\ queue' = Send(queue, e)
      BY <1>1, <1>5 DEF RemoveWatch
    <2>2. e \in KernelEvents
      BY <1>3 DEF Event, KernelEvents, Kinds
    <2>3. /\ queue' \in Seq(KernelEvents)
          /\ \A x : Has(queue, x) => Has(queue', x)
      BY <1>3, <2>1, <2>2, SendHas
    <2>4. Announced(queue', wd)
      BY <1>3, <2>1, IgnoredSent
    <2>5. \A v \in watched_descriptors : Live(v) => Live(v)' \/ v = wd
      BY <1>3, <2>1 DEF Live, WatchesDistinct
    <2> QED
      BY <1>2, <2>3, <2>4, <2>5, SendingStep
  <1> QED
    BY <1>4, <1>5

LEMMA CleanDescriptorsNotices ==
  ASSUME IInv, CleanDescriptors
  PROVE  LossKnown' /\ DeadWatchesNoticed'
  BY DEF IInv, CleanDescriptors, kernelVars, history, LossKnown, DeadWatchesNoticed, Live,
         Pending

LEMMA ScanAddNotices ==
  ASSUME IInv, ScanAdd
  PROVE  LossKnown' /\ DeadWatchesNoticed'
  <1>1. PICK wd \in Wds : /\ AddWatch(Scanned.path, wd)
                          /\ watched_descriptors' = watched_descriptors \cup {wd}
    BY DEF ScanAdd
  <1>2. UNCHANGED <<queue, descriptors_to_remove, batch, lossy>>
    BY <1>1 DEF ScanAdd, AddWatch, marks, history
  <1>3. Live(wd)' /\ \A v \in Wds : Live(v) => Live(v)'
    <2>1. PICK n \in Inodes :
            \/ watch[n] # 0 /\ wd = watch[n] /\ UNCHANGED <<watch, next_wd>>
            \/ /\ watch[n] = 0
               /\ watch' = [watch EXCEPT ![n] = wd]
      BY <1>1 DEF AddWatch
    <2>2. watch \in [Inodes -> 0 .. MaxWd] /\ 0 \notin Wds
      BY DEF IInv, TypeOK, KernelTypeOK, Wds
    <2> QED
      BY <2>1, <2>2 DEF Live
  <1>4. watched_descriptors \subseteq Wds
    BY DEF IInv, TypeOK
  <1> QED
    BY <1>1, <1>2, <1>3, <1>4 DEF IInv, LossKnown, DeadWatchesNoticed, Pending

(* What is read moves from the queue to the batch. *)
LEMMA EventsRead ==
  ASSUME IInv, ReadEvents
  PROVE  \E n \in 0 .. Len(queue) :
           /\ DOMAIN queue = 1 .. Len(queue) /\ Len(queue) \in Nat
           /\ DOMAIN batch' = 1 .. n
           /\ \A i \in 1 .. n : batch'[i] = queue[i]
           /\ DOMAIN queue' = 1 .. Len(queue) - n
           /\ \A i \in 1 .. Len(queue) - n : queue'[i] = queue[n + i]
  <1> DEFINE L == Len(queue)
             n == IF L < BufferEvents THEN L ELSE BufferEvents
  <1>1. /\ batch' = SubSeq(queue, 1, n)
        /\ queue' = SubSeq(queue, n + 1, L)
        /\ UNCHANGED <<watch, watched_descriptors, descriptors_to_remove, lossy>>
        /\ batch = <<>>
    BY DEF ReadEvents, tables, marks, history, IInv, LoopShape
  <1>2. queue \in Seq(KernelEvents) /\ L \in Nat /\ DOMAIN queue = 1 .. L
    BY QueueTyped, LenProperties DEF IInv
  <1>3. n \in 0 .. L
    BY <1>2, MonitorAssumption
  <1> HIDE DEF n, L
  <1>4. /\ DOMAIN batch' = 1 .. n
        /\ \A i \in 1 .. n : batch'[i] = queue[i]
    BY <1>1, <1>2, <1>3, SubSeqProperties, LenProperties
  <1>5. /\ DOMAIN queue' = 1 .. L - n
        /\ \A i \in 1 .. L - n : queue'[i] = queue[n + i]
    <2>1. n \in Nat /\ n + 1 \in Int /\ L \in Int /\ L - (n + 1) + 1 = L - n
      BY <1>2, <1>3
    <2>2. \A i \in n + 1 .. L : queue[i] \in KernelEvents
      BY <1>2, <1>3
    <2>3. /\ queue' \in Seq(KernelEvents)
          /\ Len(queue') = IF n + 1 <= L THEN L - n ELSE 0
          /\ \A i \in 1 .. L - n : queue'[i] = queue[n + 1 + i - 1]
      BY <1>1, <2>1, <2>2, SubSeqProperties
    <2>4. Len(queue') = L - n
      BY <1>2, <1>3, <2>3
    <2>5. \A i \in 1 .. L - n : n + 1 + i - 1 = n + i
      BY <2>1
    <2>6. DOMAIN queue' = 1 .. L - n
      BY <2>3, <2>4, LenProperties
    <2>7. ASSUME NEW i \in 1 .. L - n PROVE queue'[i] = queue[n + i]
      <3>1. queue'[i] = queue[n + 1 + i - 1] /\ n + 1 + i - 1 = n + i
        BY <2>3, <2>5
      <3> QED
        BY <3>1
    <2> QED
      BY <2>6, <2>7
  <1> QED
    BY <1>2, <1>3, <1>4, <1>5 DEF L

LEMMA ReadKeepsPending ==
  ASSUME IInv, ReadEvents, NEW wd, NEW kinds, Pending(wd, kinds)
  PROVE  Pending(wd, kinds)'
  <1> DEFINE L == Len(queue)
  <1>1. PICK n \in 0 .. L :
          /\ DOMAIN queue = 1 .. L /\ L \in Nat
          /\ DOMAIN batch' = 1 .. n
          /\ \A i \in 1 .. n : batch'[i] = queue[i]
          /\ DOMAIN queue' = 1 .. L - n
          /\ \A i \in 1 .. L - n : queue'[i] = queue[n + i]
    BY EventsRead
  <1> HIDE DEF L
  <1>2. PICK i \in 1 .. L : queue[i].wd = wd /\ queue[i].kind \in kinds
    <2>1. batch = <<>>
      BY DEF ReadEvents, IInv, LoopShape
    <2> QED
      BY <1>1, <2>1 DEF Pending
  <1>3. CASE i <= n
    <2>1. i \in 1 .. n
      BY <1>1, <1>3
    <2> QED
      BY <1>1, <1>2, <2>1 DEF Pending
  <1>4. CASE i > n
    <2>1. i - n \in 1 .. L - n /\ n + (i - n) = i
      BY <1>1, <1>4
    <2>2. queue'[i - n] = queue[i]
      BY <1>1, <2>1
    <2> QED
      BY <1>1, <1>2, <2>1, <2>2 DEF Pending
  <1> QED
    BY <1>1, <1>3, <1>4

LEMMA ReadEventsNotices ==
  ASSUME IInv, ReadEvents
  PROVE  LossKnown' /\ DeadWatchesNoticed'
  <1> DEFINE L == Len(queue)
  <1>1. UNCHANGED <<watch, watched_descriptors, descriptors_to_remove, lossy>>
    BY DEF ReadEvents, tables, marks, history
  <1>2. PICK n \in 0 .. L :
          /\ DOMAIN queue = 1 .. L /\ L \in Nat
          /\ DOMAIN batch' = 1 .. n
          /\ \A i \in 1 .. n : batch'[i] = queue[i]
          /\ DOMAIN queue' = 1 .. L - n
          /\ \A i \in 1 .. L - n : queue'[i] = queue[n + i]
    BY EventsRead
  <1> HIDE DEF L
  <1>3. LossKnown'
    <2>1. ASSUME ~lossy, NEW i \in 1 .. L PROVE queue[i].kind # "Q_OVERFLOW"
      BY <1>2, <2>1 DEF IInv, LossKnown
    <2>2. ASSUME ~lossy, NEW i \in DOMAIN batch' PROVE batch'[i].kind # "Q_OVERFLOW"
      BY <1>2, <2>1, <2>2
    <2>3. ASSUME ~lossy, NEW i \in DOMAIN queue' PROVE queue'[i].kind # "Q_OVERFLOW"
      <3>1. i \in 1 .. L - n /\ n + i \in 1 .. L
        BY <1>2
      <3> QED
        BY <1>2, <2>1, <2>3, <3>1
    <2> QED
      BY <1>1, <2>2, <2>3 DEF LossKnown
  <1>4. DeadWatchesNoticed'
    BY <1>1, ReadKeepsPending DEF IInv, DeadWatchesNoticed, Live
  <1> QED
    BY <1>3, <1>4

(* News is out of the batch when its descriptor is marked. *)
LEMMA EventTaken ==
  ASSUME IInv, PreprocessEvent, NEW wd, NEW kinds, Pending(wd, kinds)
  PROVE  Pending(wd, kinds)' \/ (Head(batch).wd = wd /\ Head(batch).kind \in kinds)
  <1>1. batch # <<>> /\ batch' = Tail(batch) /\ queue' = queue
    BY DEF PreprocessEvent, kernelVars
  <1>2. batch \in Seq(KernelEvents) /\ Len(batch) \in Nat /\ DOMAIN batch = 1 .. Len(batch)
    BY QueueTyped, LenProperties DEF IInv
  <1>3. /\ Head(batch) = batch[1]
        /\ DOMAIN batch' = 1 .. Len(batch) - 1
        /\ \A i \in 1 .. Len(batch) - 1 : batch'[i] = batch[i + 1]
    BY <1>1, <1>2
  <1>4. CASE \E i \in DOMAIN queue : queue[i].wd = wd /\ queue[i].kind \in kinds
    BY <1>1, <1>4 DEF Pending
  <1>5. CASE \E i \in DOMAIN batch : batch[i].wd = wd /\ batch[i].kind \in kinds
    <2>1. PICK i \in 1 .. Len(batch) : batch[i].wd = wd /\ batch[i].kind \in kinds
      BY <1>2, <1>5
    <2>2. CASE i = 1
      BY <1>3, <2>1, <2>2
    <2>3. CASE i # 1
      <3>1. i - 1 \in 1 .. Len(batch) - 1 /\ (i - 1) + 1 = i
        BY <1>2, <2>3
      <3>2. batch'[i - 1] = batch[i]
        BY <1>3, <3>1
      <3> QED
        BY <1>3, <2>1, <3>1, <3>2 DEF Pending
    <2> QED
      BY <2>2, <2>3
  <1> QED
    BY <1>4, <1>5 DEF Pending

LEMMA PreprocessEventNotices ==
  ASSUME IInv, PreprocessEvent
  PROVE  LossKnown' /\ DeadWatchesNoticed'
  <1> DEFINE e == Head(batch)
  <1>1. /\ batch # <<>> /\ batch' = Tail(batch)
        /\ descriptors_to_remove' =
             descriptors_to_remove \cup (IF DescriptorToRemove(e) THEN {e.wd} ELSE {})
        /\ UNCHANGED <<watch, queue, watched_descriptors, lossy>>
    BY DEF PreprocessEvent, kernelVars, tables, history
  <1>2. batch \in Seq(KernelEvents) /\ Len(batch) \in Nat /\ DOMAIN batch = 1 .. Len(batch)
    BY QueueTyped, LenProperties DEF IInv
  <1>3. /\ e = batch[1]
        /\ DOMAIN batch' = 1 .. Len(batch) - 1
        /\ \A i \in 1 .. Len(batch) - 1 : batch'[i] = batch[i + 1]
    BY <1>1, <1>2
  <1> HIDE DEF e
  <1>4. LossKnown'
    BY <1>1, <1>2, <1>3 DEF IInv, LossKnown
  <1>5. ASSUME NEW wd, Pending(wd, {"IGNORED"})
        PROVE  Pending(wd, {"IGNORED"})' \/ wd \in descriptors_to_remove'
    BY <1>1, <1>5, EventTaken DEF DescriptorToRemove, e
  <1>6. DeadWatchesNoticed'
    BY <1>1, <1>5 DEF IInv, DeadWatchesNoticed, Live
  <1> QED
    BY <1>4, <1>6

LEMMA ElsewhereNotices ==
  ASSUME IInv, Elsewhere \/ UNCHANGED vars
  PROVE  LossKnown' /\ DeadWatchesNoticed'
  <1>1. UNCHANGED <<watch, queue, watched_descriptors, descriptors_to_remove, lossy>>
    BY DEF Elsewhere, VisitRoot, RootsVisited, ScanStat, ScanAddFails, ScanList, ScanDone,
           SelectTimeout, PreprocessOverflow, NotifyEvents, CallbackFails, CallFails, Restart, vars, kernelVars,
           monitorVars, tables, marks, history
  <1>2. CASE PreprocessOverflow
    <2>1. lossy
      <3>1. 1 \in DOMAIN batch /\ batch[1].kind = "Q_OVERFLOW"
        <4>1. batch \in Seq(KernelEvents) /\ batch # <<>> /\ Head(batch).kind = "Q_OVERFLOW"
          BY <1>2, QueueTyped DEF PreprocessOverflow, IInv
        <4> QED
          BY <4>1, EmptySeq, LenProperties, HeadTailProperties
      <3> QED
        BY <3>1 DEF IInv, LossKnown
    <2> QED
      BY <1>1, <2>1 DEF LossKnown, DeadWatchesNoticed
  <1>3. CASE ~PreprocessOverflow
    <2>1. batch' = batch
      BY <1>3
      DEF Elsewhere, VisitRoot, RootsVisited, ScanStat, ScanAddFails, ScanList, ScanDone,
          SelectTimeout, NotifyEvents, CallbackFails, CallFails, Restart, vars, monitorVars
    <2> QED
      BY <1>1, <2>1 DEF IInv, LossKnown, DeadWatchesNoticed, Live, Pending
  <1> QED
    BY <1>2, <1>3

LEMMA LoopShapeKept ==
  ASSUME IInv, [Next]_vars
  PROVE  LoopShape'
  <1>1. CASE UNCHANGED <<pc, batch, todo>>
    BY <1>1 DEF IInv, LoopShape
  <1>2. CASE ~UNCHANGED <<pc, batch, todo>>
    BY <1>2
    DEF IInv, LoopShape, Next, MonitorStep, ChangeTree, monitorVars, vars, RemovePendingWatch,
        CleanDescriptors, VisitRoot, RootsVisited, ScanStat, ScanAdd, ScanAddFails, ScanList,
        ScanDone, SelectTimeout, ReadEvents, PreprocessEvent, PreprocessOverflow, NotifyEvents,
        CallbackFails, CallFails, Restart
  <1> QED
    BY <1>1, <1>2

LEMMA TypesKept ==
  ASSUME IInv, [Next]_vars, WatchInv'
  PROVE  TypeOK'
  <1>1. /\ TypeOK /\ WatchInv
        /\ pc = "add" => todo # <<>>
        /\ pc = "list" => todo # <<>>
    BY DEF IInv, LoopShape
  <1>2. CASE ChangeTree
    BY <1>1, <1>2, ChangeTreeTypes
  <1>3. CASE RemovePendingWatch
    BY <1>1, <1>3, RemovePendingTypes
  <1>4. CASE CleanDescriptors
    BY <1>1, <1>4, CleanDescriptorsTypes
  <1>5. CASE VisitRoot
    BY <1>1, <1>5, VisitRootTypes
  <1>6. CASE ScanAdd
    BY <1>1, <1>6, ScanAddTypes
  <1>7. CASE ScanList
    BY <1>1, <1>7, ScanListTypes
  <1>8. CASE ReadEvents
    BY <1>1, <1>8, ReadEventsTypes
  <1>9. CASE PreprocessEvent
    BY <1>1, <1>9, PreprocessEventTypes
  <1>10. CASE (Elsewhere \/ UNCHANGED vars) /\ ~VisitRoot /\ ~ScanList
    BY <1>1, <1>10, ElsewhereTypes
  <1> QED
    BY <1>2, <1>3, <1>4, <1>5, <1>6, <1>7, <1>8, <1>9, <1>10 DEF Next, MonitorStep, Elsewhere

LEMMA NoticesKept ==
  ASSUME IInv, [Next]_vars
  PROVE  LossKnown' /\ DeadWatchesNoticed'
  <1>1. ChangeTree \/ RemovePendingWatch \/ CleanDescriptors \/ ScanAdd \/ ReadEvents
          \/ PreprocessEvent \/ Elsewhere \/ UNCHANGED vars
    BY DEF Next, MonitorStep, Elsewhere
  <1> QED
    BY <1>1, ChangeTreeNotices, RemovePendingNotices, CleanDescriptorsNotices, ScanAddNotices,
       ReadEventsNotices, PreprocessEventNotices, ElsewhereNotices

LEMMA InitHolds == Init => IInv
  <1> SUFFICES ASSUME Init PROVE IInv
    OBVIOUS
  <1>1. WatchInv
    BY EmptySeq DEF Init, KernelInit, MonitorInit, WatchInv, WatchesDistinct, EventsTrue,
       MarksRight, NoWatchForgotten
  <1>2. KernelTypeOK
    BY TreeAssumption, KernelAssumption, EmptySeq
    DEF Init, KernelInit, TreeInit, KernelTypeOK, TreeTypeOK
  <1>3. TypeOK
    <2>1. 1 \in 1 .. Len(Roots) + 1 /\ 0 \in 0 .. MaxWd
      BY MonitorAssumption, LenProperties, KernelAssumption
    <2>2. <<>> \in Seq(Item) /\ <<>> \in Seq(KernelEvents) /\ <<>> \in Seq(Change)
      BY EmptySeq
    <2> QED
      BY <1>2, <2>1, <2>2 DEF Init, MonitorInit, TypeOK, Item, Change
  <1> QED
    BY <1>1, <1>3
    DEF Init, KernelInit, MonitorInit, IInv, LoopShape, LossKnown, DeadWatchesNoticed

(* Types, watches, what was lost and what is still to be noticed. *)
THEOREM InotifyInvariant == Spec => []IInv
  <1>1. IInv /\ [Next]_vars /\ WatchInv' => IInv'
    BY TypesKept, NoticesKept, LoopShapeKept DEF IInv
  <1> QED
    BY <1>1, InitHolds, WatchInvariant, PTL DEF Spec

(* Types; every change reported to the callback has a flag, and a watch to  *)
(* be removed belongs to a descriptor to be forgotten.                      *)
THEOREM InotifyTypeOK == Spec => []TypeOK
  <1>1. IInv => TypeOK
    BY DEF IInv
  <1> QED
    BY <1>1, InotifyInvariant, PTL

(* Unless the queue overflowed, the news of every watch the kernel dropped  *)
(* is on its way or has arrived, for every length of queue and buffer.      *)
THEOREM DeadNoticed == Spec => []DeadWatchesNoticed
  <1>1. IInv => DeadWatchesNoticed
    BY DEF IInv
  <1> QED
    BY <1>1, InotifyInvariant, PTL

-----------------------------------------------------------------------------
(* What is_watched says of the paths in the directory that never moves.     *)

(* The entries of a path in the tables were handed out by the kernel. *)
WdsHandedOut == \A p \in Paths : path_to_wd[p] < next_wd

PathsInv == SeatsDistinct /\ WdsHandedOut /\ MovesNoticed

(* A step of others: what leaves its seat loses its watch or is announced.  *)
LEMMA MovingStep ==
  ASSUME IInv, PathsInv, SeatsDistinct', NoteLoss, Grown(queue'),
         UNCHANGED <<next_wd, path_to_wd, descriptors_to_remove, batch>>,
         \A m \in Inodes : watch'[m] \in {0, watch[m]},
         \A m \in Inodes : watch'[m] # 0 =>
           \/ seat'[m] = seat[m]
           \/ seat[m] = Nowhere
           \/ Has(queue', SelfEvent(m, "MOVE_SELF"))
           \/ Has(queue', Overflow)
  PROVE  PathsInv'
  <1>1. ~lossy' => ~lossy /\ \A i \in DOMAIN queue' : queue'[i].kind # "Q_OVERFLOW"
    BY DEF NoteLoss, IInv, TypeOK
  <1>2. ASSUME ~lossy', NEW p \in Paths, NEW n \in Inodes, Len(p) = 1, watch'[n] # 0,
               path_to_wd'[p] = watch'[n]
        PROVE  \/ Resolve(p)' = n
               \/ watch'[n] \in descriptors_to_remove'
               \/ Pending(watch[n], {"MOVE_SELF"})'
    <2>1. watch'[n] = watch[n] /\ path_to_wd[p] = watch[n]
      BY <1>2
    <2>2. \/ Resolve(p) = n
          \/ watch[n] \in descriptors_to_remove
          \/ Pending(watch[n], {"MOVE_SELF"})
      BY <1>1, <1>2, <2>1 DEF PathsInv, MovesNoticed
    <2>3. CASE Pending(watch[n], {"MOVE_SELF"})
      <3>1. ASSUME NEW i \in DOMAIN queue, queue[i].wd = watch[n], queue[i].kind = "MOVE_SELF"
            PROVE  \E j \in DOMAIN queue' : queue'[j].wd = watch[n] /\ queue'[j].kind = "MOVE_SELF"
        <4>1. Has(queue, queue[i])
          BY DEF Has
        <4>2. Has(queue', queue[i])
          BY <4>1 DEF Grown
        <4> QED
          BY <3>1, <4>2 DEF Has
      <3> QED
        BY <2>1, <2>3, <3>1 DEF Pending
    <2>4. CASE Resolve(p) = n
      <3>1. seat[n] = <<Base, Last(p)>> /\ seat[n] # Nowhere
        <4>1. seat[n] = <<Base, Last(p)>>
          BY <1>2, <2>4, ShortPathsNow DEF ShortPaths, PathsInv
        <4> QED
          BY <4>1, PathTyped, TreeAssumption
      <3>2. CASE seat'[n] = seat[n]
        BY <1>2, <3>1, <3>2, ShortPathsLater DEF ShortPaths
      <3>3. CASE seat'[n] # seat[n]
        <4>1. Has(queue', SelfEvent(n, "MOVE_SELF"))
          BY <1>1, <1>2, <3>1, <3>3, OverflowTyped DEF Has
        <4>2. SelfEvent(n, "MOVE_SELF").wd = watch[n]
              /\ SelfEvent(n, "MOVE_SELF").kind = "MOVE_SELF"
          BY DEF SelfEvent, Event
        <4> QED
          BY <2>1, <4>1, <4>2 DEF Has, Pending
      <3> QED
        BY <3>2, <3>3
    <2> QED
      BY <2>1, <2>2, <2>3, <2>4
  <1>3. MovesNoticed'
    BY <1>2 DEF MovesNoticed
  <1> QED
    BY <1>3 DEF PathsInv, WdsHandedOut

LEMMA ChangeTreePaths ==
  ASSUME IInv, PathsInv, ChangeTree
  PROVE  PathsInv'
  <1>1. /\ UNCHANGED <<path_to_wd, descriptors_to_remove, batch>>
        /\ NoteLoss
    BY DEF ChangeTree, monitorVars, tables, marks
  <1>2. /\ WatchesDistinct /\ TreeTypeOK /\ SeatsDistinct /\ Grown(queue)
        /\ watch \in [Inodes -> Nat]
    BY QueueTyped DEF IInv, WatchInv, TypeOK, KernelTypeOK, PathsInv, Grown, WatchesDistinct
  <1> DEFINE Announces(m) == \/ Has(queue', SelfEvent(m, "MOVE_SELF"))
                             \/ Has(queue', Overflow)
  <1>3. ASSUME NEW p \in Paths, Write(p)
        PROVE  PathsInv'
    <2>1. PICK n \in Inodes :
            queue' = Send(Send(queue, EntryEvent(Parent(p), "MODIFY", Last(p), n)),
                          SelfEvent(n, "MODIFY"))
      BY <1>3 DEF Write
    <2>2. Parent(p) \in Dirs \cup {Base} /\ UNCHANGED <<seat, watch, next_wd>>
      BY <1>3 DEF Write, WriteNode, IsDir
    <2> DEFINE q == Send(queue, EntryEvent(Parent(p), "MODIFY", Last(p), n))
    <2>3. Grown(q) /\ queue' = Send(q, SelfEvent(n, "MODIFY"))
      BY <1>2, <2>1, <2>2, GrownByEntry DEF EntryKinds
    <2> HIDE DEF q
    <2>4. Grown(queue')
      BY <1>2, <2>3, GrownBySelf
    <2>5. SeatsDistinct'
      BY <1>2, <2>2 DEF SeatsDistinct
    <2> QED
      BY <1>1, <2>2, <2>4, <2>5, MovingStep
  <1>4. ASSUME NEW p \in Paths, Create(p)
        PROVE  PathsInv'
    <2>1. PICK n \in Inodes :
            /\ MakeNode(p, n)
            /\ queue' = Send(queue, EntryEvent(Parent(p), "CREATE", Last(p), n))
      BY <1>4 DEF Create
    <2>2. Parent(p) \in Dirs \cup {Base} /\ UNCHANGED <<watch, next_wd>>
      BY <1>4, <2>1 DEF Create, MakeNode, IsDir
    <2>3. Grown(queue')
      <3>1. Grown(Send(queue, EntryEvent(Parent(p), "CREATE", Last(p), n)))
        BY <1>2, <2>2, GrownByEntry DEF EntryKinds
      <3> QED
        BY <2>1, <3>1
    <2>4. SeatsDistinct'
      BY <1>2, <2>1, MakeDistinct
    <2>5. \A m \in Inodes : seat'[m] = seat[m] \/ seat[m] = Nowhere
      BY <1>2, <2>1 DEF MakeNode, TreeTypeOK
    <2> QED
      BY <1>1, <2>2, <2>3, <2>4, <2>5, MovingStep
  <1>5. ASSUME NEW p \in Paths, Delete(p)
        PROVE  PathsInv'
    <2>1. PICK n \in Inodes :
            /\ DeleteNode(p, n)
            /\ watch' = [watch EXCEPT ![n] = 0]
            /\ queue' = SendLast(Send(queue, EntryEvent(Parent(p), "DELETE", Last(p), n)), n)
      BY <1>5 DEF Delete
    <2>2. Parent(p) \in Dirs \cup {Base} /\ UNCHANGED next_wd
      BY <1>5, <2>1 DEF Delete, DeleteNode, IsDir
    <2>3. Grown(queue')
      <3> DEFINE q == Send(queue, EntryEvent(Parent(p), "DELETE", Last(p), n))
      <3>1. Grown(q) /\ queue' = SendLast(q, n)
        BY <1>2, <2>1, <2>2, GrownByEntry DEF EntryKinds
      <3> HIDE DEF q
      <3> QED
        BY <1>2, <3>1, GrownByLast
    <2>4. SeatsDistinct'
      BY <1>2, <2>1, DeleteDistinct
    <2>5. \A m \in Inodes : /\ watch'[m] \in {0, watch[m]}
                            /\ watch'[m] # 0 => seat'[m] = seat[m]
      BY <1>2, <2>1 DEF DeleteNode, TreeTypeOK
    <2> QED
      BY <1>1, <2>2, <2>3, <2>4, <2>5, MovingStep
  <1>6. ASSUME NEW p \in Paths, NEW q \in Paths, Rename(p, q)
        PROVE  PathsInv'
    <2>1. PICK n \in Inodes : RenameNode(p, q, n) /\ queue' = SendMoved(p, q, n)
      BY <1>6 DEF Rename
    <2>2. {Parent(p), Parent(q)} \subseteq Dirs \cup {Base} /\ UNCHANGED <<watch, next_wd>>
      BY <1>6, <2>1 DEF Rename, RenameNode, IsDir
    <2>3. Grown(queue') /\ (watch[n] # 0 => Announces(n))
      BY <1>2, <2>1, <2>2, GrownByMove
    <2>4. SeatsDistinct'
      BY <1>2, <2>1, RenameDistinct
    <2>5. \A m \in Inodes : m # n => seat'[m] = seat[m]
      BY <1>2, <2>1 DEF RenameNode, TreeTypeOK
    <2> QED
      BY <1>1, <2>2, <2>3, <2>4, <2>5, MovingStep
  <1>7. ASSUME NEW p \in Paths, NEW q \in Paths, Replace(p, q)
        PROVE  PathsInv'
    <2>1. PICK n \in Inodes, m \in Inodes :
            /\ ReplaceNode(p, q, n, m)
            /\ watch' = [watch EXCEPT ![m] = 0]
            /\ queue' = SendLast(SendMoved(p, q, n), m)
      BY <1>7 DEF Replace
    <2>2. {Parent(p), Parent(q)} \subseteq Dirs \cup {Base} /\ UNCHANGED next_wd
      BY <1>7, <2>1 DEF Replace, ReplaceNode, IsDir
    <2> DEFINE s == SendMoved(p, q, n)
    <2>3. Grown(s) /\ (watch[n] # 0 => \/ Has(s, SelfEvent(n, "MOVE_SELF"))
                                      \/ Has(s, Overflow))
      BY <1>2, <2>2, GrownByMove
    <2>4. queue' = SendLast(s, m)
      BY <2>1
    <2> HIDE DEF s
    <2>5. /\ Grown(queue')
          /\ \A x : Has(s, x) => Has(queue', x)
      BY <1>2, <2>3, <2>4, GrownByLast, LastAnnounced DEF Grown
    <2>6. SeatsDistinct'
      BY <1>2, <2>1, ReplaceDistinct
    <2>7. \A k \in Inodes : /\ watch'[k] \in {0, watch[k]}
                            /\ watch'[k] # 0 /\ k # n => seat'[k] = seat[k]
      BY <1>2, <2>1 DEF ReplaceNode, TreeTypeOK
    <2>8. watch'[n] # 0 => Announces(n)
      BY <2>3, <2>5, <2>7
    <2> QED
      BY <1>1, <2>2, <2>5, <2>6, <2>7, <2>8, MovingStep
  <1> QED
    BY <1>3, <1>4, <1>5, <1>6, <1>7 DEF ChangeTree

(* The steps of the monitor leave the tree alone. *)
LEMMA SameTree ==
  ASSUME UNCHANGED seat, SeatsDistinct
  PROVE  /\ SeatsDistinct'
         /\ \A p \in Paths, n \in Inodes :
              Len(p) = 1 /\ Resolve(p) = n => Resolve(p)' = n
  <1>1. SeatsDistinct'
    BY DEF SeatsDistinct
  <1> QED
    BY <1>1, ShortPathsNow, ShortPathsLater DEF ShortPaths

LEMMA RemovePendingPaths ==
  ASSUME IInv, PathsInv, RemovePendingWatch
  PROVE  PathsInv'
  <1>1. PICK wd \in watches_to_remove : RemoveWatch(wd)
    BY DEF RemovePendingWatch
  <1>2. /\ UNCHANGED <<path_to_wd, descriptors_to_remove, batch>>
        /\ NoteLoss
    BY DEF RemovePendingWatch, tables
  <1>3. UNCHANGED <<seat, next_wd>>
    BY <1>1 DEF RemoveWatch, treeVars
  <1>4. queue \in Seq(KernelEvents) /\ wd \in Nat \ {0} /\ watch \in [Inodes -> Nat]
    BY QueueTyped DEF IInv, WatchInv, WatchesDistinct, TypeOK, Wds
  <1>5. SeatsDistinct'
    BY <1>3, SameTree DEF PathsInv
  <1>6. Grown(queue') /\ \A m \in Inodes : watch'[m] \in {0, watch[m]}
    <2> DEFINE e == Event(wd, "IGNORED", NoName, FALSE)
    <2>1. e \in KernelEvents
      BY <1>4 DEF Event, KernelEvents, Kinds
    <2> HIDE DEF e
    <2>2. Grown(Send(queue, e)) /\ Grown(queue)
      BY <1>4, <2>1, SendHas DEF Grown
    <2>3. \/ UNCHANGED <<watch, queue>>
          \/ queue' = Send(queue, e) /\ \E n \in Inodes : watch' = [watch EXCEPT ![n] = 0]
      BY <1>1 DEF RemoveWatch, e
    <2> QED
      BY <1>4, <2>2, <2>3 DEF Grown
  <1> QED
    BY <1>2, <1>3, <1>5, <1>6, MovingStep

LEMMA CleanDescriptorsPaths ==
  ASSUME IInv, PathsInv, CleanDescriptors
  PROVE  PathsInv'
  <1>1. /\ watches_to_remove = {} /\ descriptors_to_remove' = {}
        /\ \A p \in Paths : path_to_wd'[p] \in {0, path_to_wd[p]}
        /\ UNCHANGED <<seat, watch, next_wd, queue, batch, lossy>>
    BY DEF CleanDescriptors, kernelVars, treeVars, history
  <1>2. SeatsDistinct' /\ next_wd \in Nat \ {0}
    BY <1>1, SameTree DEF PathsInv, IInv, WatchInv, WatchesDistinct
  <1>3. WdsHandedOut'
    BY <1>1, <1>2 DEF PathsInv, WdsHandedOut
  <1>4. \A n \in Inodes : watch[n] \notin descriptors_to_remove
    BY <1>1 DEF IInv, WatchInv, MarksRight, Live
  <1>5. MovesNoticed'
    BY <1>1, <1>4, SameTree DEF PathsInv, MovesNoticed, Pending
  <1> QED
    BY <1>2, <1>3, <1>5 DEF PathsInv

LEMMA ScanAddPaths ==
  ASSUME IInv, PathsInv, ScanAdd
  PROVE  PathsInv'
  <1>1. PICK wd \in Wds :
          /\ AddWatch(Scanned.path, wd)
          /\ path_to_wd' = [path_to_wd EXCEPT ![Scanned.path] = wd]
    BY DEF ScanAdd
  <1>2. UNCHANGED <<seat, queue, descriptors_to_remove, batch, lossy>>
    BY <1>1 DEF ScanAdd, AddWatch, marks, history, treeVars
  <1>3. PICK n \in Inodes :
          /\ n = Resolve(Scanned.path)
          /\ \/ watch[n] # 0 /\ wd = watch[n] /\ UNCHANGED <<watch, next_wd>>
             \/ /\ watch[n] = 0
                /\ wd = next_wd
                /\ watch' = [watch EXCEPT ![n] = wd]
                /\ next_wd' = next_wd + 1
    BY <1>1 DEF AddWatch
  <1>4. /\ WatchesDistinct /\ path_to_wd \in [Paths -> 0 .. MaxWd]
        /\ watch'[n] = wd /\ wd < next_wd' /\ next_wd <= next_wd'
        /\ \A m \in Inodes : m # n => watch'[m] = watch[m] /\ watch[m] # wd
    BY <1>3 DEF IInv, WatchInv, WatchesDistinct, TypeOK
  <1>5. SeatsDistinct'
    BY <1>2, SameTree DEF PathsInv
  <1>6. Scanned.path \in Paths
    BY ScannedTyped DEF ScanAdd, IInv, LoopShape, Item
  <1>7. \A p \in Paths : path_to_wd'[p] = IF p = Scanned.path THEN wd ELSE path_to_wd[p]
    BY <1>1, <1>4
  <1>8. WdsHandedOut'
    <2>1. \A p \in Paths : path_to_wd[p] < next_wd /\ path_to_wd[p] \in Nat
      BY <1>4, KernelAssumption DEF PathsInv, WdsHandedOut
    <2>2. next_wd \in Nat /\ next_wd' \in Nat
      BY <1>3, <1>4 DEF WatchesDistinct
    <2> QED
      BY <1>4, <1>7, <2>1, <2>2 DEF WdsHandedOut
  <1>9. ASSUME ~lossy', NEW p \in Paths, NEW m \in Inodes, Len(p) = 1, watch'[m] # 0,
               path_to_wd'[p] = watch'[m]
        PROVE  \/ Resolve(p)' = m
               \/ watch'[m] \in descriptors_to_remove'
               \/ Pending(watch[m], {"MOVE_SELF"})'
    <2>1. CASE p = Scanned.path
      <3>1. m = n
        BY <1>4, <1>7, <1>9, <2>1
      <3> QED
        BY <1>2, <1>3, <1>9, <2>1, <3>1, SameTree DEF PathsInv
    <2>2. CASE p # Scanned.path
      <3>1. watch'[m] = watch[m] /\ path_to_wd[p] = watch[m]
        <4>1. path_to_wd[p] = watch'[m] /\ path_to_wd[p] < next_wd
          BY <1>7, <1>9, <2>2 DEF PathsInv, WdsHandedOut
        <4>2. m = n => UNCHANGED watch
          BY <1>3, <1>4, <4>1
        <4> QED
          BY <1>4, <4>1, <4>2
      <3>2. \/ Resolve(p) = m
            \/ watch[m] \in descriptors_to_remove
            \/ Pending(watch[m], {"MOVE_SELF"})
        BY <1>2, <1>9, <3>1 DEF PathsInv, MovesNoticed
      <3> QED
        BY <1>2, <1>9, <3>1, <3>2, SameTree DEF PathsInv, Pending
    <2> QED
      BY <2>1, <2>2
  <1>10. MovesNoticed'
    BY <1>9 DEF MovesNoticed
  <1> QED
    BY <1>5, <1>8, <1>10 DEF PathsInv

(* News of a move is read before it is acted on. *)
LEMMA ReadingPaths ==
  ASSUME IInv, PathsInv, ReadEvents \/ PreprocessEvent
  PROVE  PathsInv'
  <1>1. /\ UNCHANGED <<seat, watch, next_wd, path_to_wd, lossy>>
        /\ descriptors_to_remove \subseteq descriptors_to_remove'
    BY DEF ReadEvents, PreprocessEvent, kernelVars, treeVars, tables, marks, history
  <1>2. SeatsDistinct'
    BY <1>1, SameTree DEF PathsInv
  <1>3. ASSUME NEW wd, Pending(wd, {"MOVE_SELF"})
        PROVE  Pending(wd, {"MOVE_SELF"})' \/ wd \in descriptors_to_remove'
    <2>1. CASE ReadEvents
      BY <1>3, <2>1, ReadKeepsPending
    <2>2. CASE PreprocessEvent
      <3>1. Pending(wd, {"MOVE_SELF"})'
              \/ (Head(batch).wd = wd /\ Head(batch).kind \in {"MOVE_SELF"})
        BY <1>3, <2>2, EventTaken
      <3> QED
        BY <2>2, <3>1 DEF PreprocessEvent, DescriptorToRemove
    <2> QED
      BY <2>1, <2>2
  <1>4. ASSUME ~lossy', NEW p \in Paths, NEW n \in Inodes, Len(p) = 1, watch'[n] # 0,
               path_to_wd'[p] = watch'[n]
        PROVE  \/ Resolve(p)' = n
               \/ watch'[n] \in descriptors_to_remove'
               \/ Pending(watch[n], {"MOVE_SELF"})'
    <2>1. \/ Resolve(p) = n
          \/ watch[n] \in descriptors_to_remove
          \/ Pending(watch[n], {"MOVE_SELF"})
      BY <1>1, <1>4 DEF PathsInv, MovesNoticed
    <2>2. Pending(watch[n], {"MOVE_SELF"}) =>
            Pending(watch[n], {"MOVE_SELF"})' \/ watch[n] \in descriptors_to_remove'
      <3> DEFINE wd == watch[n]
      <3>1. wd' = wd
        BY <1>1
      <3> QED
        BY <1>1, <1>3 DEF Pending
    <2> QED
      BY <1>1, <1>4, <2>1, <2>2, SameTree DEF PathsInv
  <1>5. MovesNoticed'
    BY <1>4 DEF MovesNoticed
  <1> QED
    BY <1>1, <1>2, <1>5 DEF PathsInv, WdsHandedOut

LEMMA ElsewherePaths ==
  ASSUME IInv, PathsInv, Elsewhere \/ UNCHANGED vars
  PROVE  PathsInv'
  <1>1. UNCHANGED <<seat, watch, next_wd, queue, path_to_wd, descriptors_to_remove, lossy>>
    BY DEF Elsewhere, VisitRoot, RootsVisited, ScanStat, ScanAddFails, ScanList, ScanDone,
           SelectTimeout, PreprocessOverflow, NotifyEvents, CallbackFails, CallFails, Restart, vars, kernelVars,
           treeVars, monitorVars, tables, marks, history
  <1>2. SeatsDistinct' /\ WdsHandedOut'
    BY <1>1, SameTree DEF PathsInv, WdsHandedOut
  <1>3. CASE lossy
    BY <1>1, <1>2, <1>3 DEF PathsInv, MovesNoticed
  <1>4. CASE ~lossy
    <2>1. batch' = batch
      <3>1. ~PreprocessOverflow
        <4>1. ASSUME PreprocessOverflow PROVE FALSE
          <5>1. batch \in Seq(KernelEvents) /\ batch # <<>> /\ Head(batch).kind = "Q_OVERFLOW"
            BY <4>1, QueueTyped DEF PreprocessOverflow, IInv
          <5>2. 1 \in DOMAIN batch /\ batch[1].kind = "Q_OVERFLOW"
            BY <5>1, EmptySeq, LenProperties, HeadTailProperties
          <5> QED
            BY <1>4, <5>2 DEF IInv, LossKnown
        <4> QED
          BY <4>1
      <3> QED
        BY <3>1
        DEF Elsewhere, VisitRoot, RootsVisited, ScanStat, ScanAddFails, ScanList, ScanDone,
            SelectTimeout, NotifyEvents, CallbackFails, CallFails, Restart, vars, monitorVars
    <2>2. MovesNoticed'
      BY <1>1, <1>4, <2>1, SameTree DEF PathsInv, MovesNoticed, Pending
    <2> QED
      BY <1>2, <2>2 DEF PathsInv
  <1> QED
    BY <1>3, <1>4

LEMMA InitPaths == Init => PathsInv
  BY TreeAssumption
  DEF Init, KernelInit, TreeInit, MonitorInit, PathsInv, SeatsDistinct, WdsHandedOut, MovesNoticed

(* A path in the directory that never moves is not taken for watched on the *)
(* ground of a watch that has moved elsewhere, except until the news of the *)
(* move is acted on: for every tree, every number of descriptors, and every *)
(* order of moves, scans and reads, unless the queue overflowed.            *)
THEOREM MovesAreNoticed == Spec => []MovesNoticed
  <1>1. IInv /\ PathsInv /\ [Next]_vars => PathsInv'
    <2> SUFFICES ASSUME IInv, PathsInv, [Next]_vars PROVE PathsInv'
      OBVIOUS
    <2>1. ChangeTree \/ RemovePendingWatch \/ CleanDescriptors \/ ScanAdd
            \/ (ReadEvents \/ PreprocessEvent) \/ (Elsewhere \/ UNCHANGED vars)
      BY DEF Next, MonitorStep, Elsewhere
    <2> QED
      BY <2>1, ChangeTreePaths, RemovePendingPaths, CleanDescriptorsPaths, ScanAddPaths,
         ReadingPaths, ElsewherePaths
  <1>2. PathsInv => MovesNoticed
    BY DEF PathsInv
  <1> QED
    BY <1>1, <1>2, InitPaths, InotifyInvariant, PTL DEF Spec

-----------------------------------------------------------------------------
(* The two maps.                                                            *)

LEMMA ScanAddKeepsMaps ==
  ASSUME IInv, ~StalePath, ~FoundTwice', ScanAdd
  PROVE  ~StalePath'
  <1>1. PICK wd \in Wds :
          /\ watched_descriptors' = watched_descriptors \cup {wd}
          /\ wd_to_path' = [wd_to_path EXCEPT ![wd] = Scanned.path]
          /\ path_to_wd' = [path_to_wd EXCEPT ![Scanned.path] = wd]
    BY DEF ScanAdd
  <1>2. /\ Scanned.path \in Paths /\ wd # 0
        /\ path_to_wd \in [Paths -> 0 .. MaxWd]
        /\ wd_to_path \in [Wds -> Paths \cup {Unknown}]
    BY ScannedTyped DEF ScanAdd, IInv, LoopShape, TypeOK, Item, Wds
  <1>3. ASSUME NEW p \in Paths, path_to_wd'[p] # 0
        PROVE  path_to_wd'[p] \in watched_descriptors' /\ wd_to_path'[path_to_wd'[p]] = p
    <2>1. CASE p = Scanned.path
      BY <1>1, <1>2, <2>1
    <2>2. CASE p # Scanned.path
      <3>1. path_to_wd'[p] = path_to_wd[p] /\ path_to_wd'[Scanned.path] = wd
        BY <1>1, <1>2, <2>2
      <3>2. path_to_wd[p] # wd
        BY <1>2, <1>3, <2>2, <3>1 DEF FoundTwice
      <3>3. path_to_wd[p] \in watched_descriptors /\ wd_to_path[path_to_wd[p]] = p
        BY <1>3, <3>1 DEF StalePath
      <3> QED
        BY <1>1, <1>2, <3>1, <3>2, <3>3 DEF IInv, TypeOK
    <2> QED
      BY <2>1, <2>2
  <1> QED
    BY <1>3 DEF StalePath

LEMMA CleaningKeepsMaps ==
  ASSUME IInv, ~StalePath, CleanDescriptors
  PROVE  ~StalePath'
  <1>1. /\ path_to_wd' = [p \in Paths |->
             IF \E wd \in descriptors_to_remove : wd_to_path[wd] = p THEN 0
             ELSE path_to_wd[p]]
        /\ wd_to_path' = [wd \in Wds |->
             IF wd \in descriptors_to_remove THEN Unknown ELSE wd_to_path[wd]]
        /\ watched_descriptors' = watched_descriptors \ descriptors_to_remove
    BY DEF CleanDescriptors
  <1>2. ASSUME NEW p \in Paths, path_to_wd'[p] # 0
        PROVE  path_to_wd'[p] \in watched_descriptors' /\ wd_to_path'[path_to_wd'[p]] = p
    <2>1. /\ path_to_wd'[p] = path_to_wd[p]
          /\ \A wd \in descriptors_to_remove : wd_to_path[wd] # p
      BY <1>1, <1>2
    <2>2. path_to_wd[p] \in watched_descriptors /\ wd_to_path[path_to_wd[p]] = p
      BY <1>2, <2>1 DEF StalePath
    <2>3. path_to_wd[p] \in Wds
      BY <2>2 DEF IInv, TypeOK
    <2> QED
      BY <1>1, <2>1, <2>2, <2>3
  <1> QED
    BY <1>2 DEF StalePath

LEMMA NextKeepsMaps ==
  ASSUME IInv, ~StalePath, ~FoundTwice', [Next]_vars
  PROVE  ~StalePath'
  <1>1. CASE ScanAdd
    BY <1>1, ScanAddKeepsMaps
  <1>2. CASE CleanDescriptors
    BY <1>2, CleaningKeepsMaps
  <1>3. CASE ~ScanAdd /\ ~CleanDescriptors
    <2>1. UNCHANGED tables
      BY <1>3
      DEF Next, MonitorStep, ChangeTree, RemovePendingWatch, VisitRoot, RootsVisited, ScanStat,
          ScanAddFails, ScanList, ScanDone, SelectTimeout, ReadEvents, PreprocessEvent,
          PreprocessOverflow, NotifyEvents, CallbackFails, CallFails, Restart, vars, monitorVars, tables
    <2> QED
      BY <2>1 DEF StalePath, tables
  <1> QED
    BY <1>1, <1>2, <1>3

(* As long as no object is found under a second path, each path the monitor *)
(* has a descriptor for is the one the descriptor's events are told under,  *)
(* whatever is moved, deleted and cleaned up in between.                    *)
THEOREM MapsAgree == Spec => NoStalePathWhenDistinct
  <1>1. Init => ~StalePath
    BY DEF Init, MonitorInit, StalePath
  <1>2. IInv /\ ~StalePath /\ ~FoundTwice' /\ [Next]_vars => ~StalePath'
    BY NextKeepsMaps
  <1> QED
    BY <1>1, <1>2, InotifyInvariant, PTL DEF Spec, NoStalePathWhenDistinct
=============================================================================
