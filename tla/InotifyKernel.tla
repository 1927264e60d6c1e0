---------------------------- MODULE InotifyKernel ----------------------------
(***************************************************************************)
(* The inotify instance of the kernel, as inotify_monitor.cpp uses it: the  *)
(* watches of inodes, and the queue of what happens to them.  None of it is *)
(* code of the repository.                                                  *)
(***************************************************************************)
EXTENDS FileTree

CONSTANTS
  MaxQueue,    \* max_queued_events
  MaxWatches,  \* max_user_watches
  MaxWd        \* bound: watch descriptors handed out

ASSUME KernelAssumption == {MaxQueue, MaxWatches, MaxWd} \subseteq Nat

VARIABLES
  watch,     \* the watch descriptor of an inode, 0 if it is not watched
  next_wd,   \* the watch descriptor the kernel hands out next
  queue      \* events the monitor has not read

kernelVars == <<treeVars, watch, next_wd, queue>>

(* An event of the kernel: its watch, its kind, the name of the entry, and  *)
(* whether it is about a directory.                                         *)
NoName == "no name"
Event(wd, kind, name, isdir) == [wd |-> wd, kind |-> kind, name |-> name, isdir |-> isdir]
Overflow == Event(0, "Q_OVERFLOW", NoName, FALSE)

Kinds == {"CREATE", "DELETE", "MODIFY", "MOVED_FROM", "MOVED_TO", "MOVE_SELF",
          "DELETE_SELF", "IGNORED", "Q_OVERFLOW"}

KernelEvents == [wd : Nat, kind : Kinds, name : Names \cup {NoName}, isdir : BOOLEAN]

(* The kernel queues the events of watched inodes.  It drops one that       *)
(* repeats the last, and queues one overflow event when the queue is full.  *)
Send(q, e) ==
  LET new == IF Len(q) >= MaxQueue THEN Overflow ELSE e
  IN IF e.wd = 0 \/ (q # <<>> /\ Last(q) = new) THEN q ELSE Append(q, new)

(* Events about an entry go to its directory, the others to the inode. *)
EntryEvent(d, kind, name, n) ==
  Event(IF d = Base THEN 0 ELSE watch[d], kind, name, IsDir(n))
SelfEvent(n, kind) == Event(watch[n], kind, NoName, IsDir(n))

(* What remains of a deleted inode; its watch goes with it. *)
SendLast(q, n) ==
  Send(Send(q, SelfEvent(n, "DELETE_SELF")), Event(watch[n], "IGNORED", NoName, FALSE))

-----------------------------------------------------------------------------
KernelInit ==
  /\ TreeInit
  /\ watch = [n \in Inodes |-> 0]
  /\ next_wd = 1
  /\ queue = <<>>

Create(p) ==
  /\ \E n \in Inodes :
       /\ MakeNode(p, n)
       /\ queue' = Send(queue, EntryEvent(Parent(p), "CREATE", Last(p), n))
  /\ UNCHANGED <<watch, next_wd>>

Write(p) ==
  /\ \E n \in Inodes :
       /\ WriteNode(p, n)
       /\ queue' = Send(Send(queue, EntryEvent(Parent(p), "MODIFY", Last(p), n)),
                        SelfEvent(n, "MODIFY"))
  /\ UNCHANGED <<watch, next_wd>>

Delete(p) ==
  /\ \E n \in Inodes :
       /\ DeleteNode(p, n)
       /\ watch' = [watch EXCEPT ![n] = 0]
       /\ queue' = SendLast(Send(queue, EntryEvent(Parent(p), "DELETE", Last(p), n)), n)
  /\ UNCHANGED next_wd

SendMoved(p, q, n) ==
  Send(Send(Send(queue, EntryEvent(Parent(p), "MOVED_FROM", Last(p), n)),
            EntryEvent(Parent(q), "MOVED_TO", Last(q), n)),
       SelfEvent(n, "MOVE_SELF"))

Rename(p, q) ==
  /\ \E n \in Inodes :
       /\ RenameNode(p, q, n)
       /\ queue' = SendMoved(p, q, n)
  /\ UNCHANGED <<watch, next_wd>>

Replace(p, q) ==
  /\ \E n, m \in Inodes :
       /\ ReplaceNode(p, q, n, m)
       /\ watch' = [watch EXCEPT ![m] = 0]
       /\ queue' = SendLast(SendMoved(p, q, n), m)
  /\ UNCHANGED next_wd

-----------------------------------------------------------------------------
(* The system calls of the monitor. *)

(* inotify_add_watch fails on a path that leads nowhere, and at the limit.  *)
CanWatch(p) ==
  \E n \in Inodes :
    /\ n = Resolve(p)
    /\ watch[n] = 0 => Cardinality({k \in Inodes : watch[k] # 0}) < MaxWatches

(* A watched inode keeps its descriptor; the others are never used again.   *)
AddWatch(p, wd) ==
  /\ CanWatch(p)
  /\ \E n \in Inodes :
       /\ n = Resolve(p)
       /\ \/ watch[n] # 0 /\ wd = watch[n] /\ UNCHANGED <<watch, next_wd>>
          \/ /\ watch[n] = 0
             /\ wd = next_wd
             /\ watch' = [watch EXCEPT ![n] = wd]
             /\ next_wd' = next_wd + 1
  /\ UNCHANGED <<treeVars, queue>>

(* inotify_rm_watch; the kernel may have dropped the watch already.         *)
RemoveWatch(wd) ==
  /\ \/ \E n \in Inodes :
          /\ watch[n] = wd
          /\ watch' = [watch EXCEPT ![n] = 0]
          /\ queue' = Send(queue, Event(wd, "IGNORED", NoName, FALSE))
     \/ /\ \A n \in Inodes : watch[n] # wd
        /\ UNCHANGED <<watch, queue>>
  /\ UNCHANGED <<treeVars, next_wd>>

KernelTypeOK ==
  /\ TreeTypeOK
  /\ watch \in [Inodes -> 0 .. MaxWd]
  /\ next_wd \in 1 .. MaxWd + 1
  /\ queue \in Seq(KernelEvents)
=============================================================================
