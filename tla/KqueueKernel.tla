---------------------------- MODULE KqueueKernel ----------------------------
(***************************************************************************)
(* Descriptors and the kqueue of the kernel, as kqueue_monitor.cpp uses     *)
(* them: a descriptor is opened on an inode and, once it is registered,     *)
(* collects what happens to the inode until kevent is called.  None of it   *)
(* is code of the repository.                                               *)
(***************************************************************************)
EXTENDS FileTree

CONSTANTS
  MaxFds,    \* descriptors a process may open
  Closed     \* what a descriptor leads to that is not open

ASSUME KernelAssumption == MaxFds \in Nat /\ Closed \notin Inodes

VARIABLES
  open,        \* the inode a descriptor is open on, or Closed
  registered,  \* descriptors of which the kqueue collects notes
  notes        \* what happened to each since kevent returned

kernelVars == <<treeVars, open, registered, notes>>
fdVars == <<open, registered, notes>>

Fds == 1 .. MaxFds

KernelInit ==
  /\ TreeInit
  /\ open = [fd \in Fds |-> Closed]
  /\ registered = {}
  /\ notes = [fd \in Fds |-> {}]

-----------------------------------------------------------------------------
(* What happens to the inodes in changed is noted for each descriptor of    *)
(* theirs that is registered.                                               *)
Note(changed, note) ==
  [fd \in Fds |-> IF fd \in registered /\ open[fd] \in changed THEN {note} ELSE {}]

Noted(new) == notes' = [fd \in Fds |-> notes[fd] \cup new[fd]]

(* A directory is written when an entry of it comes or goes. *)
EntryNote(paths) == Note({Parent(p) : p \in paths}, "WRITE")

Both(a, b) == [fd \in Fds |-> a[fd] \cup b[fd]]

(* An inode that is still open is not used for another file. *)
Create(p) ==
  /\ \E n \in Inodes :
       /\ \A fd \in Fds : open[fd] # n
       /\ MakeNode(p, n)
  /\ Noted(EntryNote({p}))
  /\ UNCHANGED <<open, registered>>

Write(p) ==
  /\ \E n \in Inodes : WriteNode(p, n) /\ Noted(Note({n}, "WRITE"))
  /\ UNCHANGED <<open, registered>>

Delete(p) ==
  /\ \E n \in Inodes :
       /\ DeleteNode(p, n)
       /\ Noted(Both(EntryNote({p}), Note({n}, "DELETE")))
  /\ UNCHANGED <<open, registered>>

Rename(p, q) ==
  /\ \E n \in Inodes :
       /\ RenameNode(p, q, n)
       /\ Noted(Both(EntryNote({p, q}), Note({n}, "RENAME")))
  /\ UNCHANGED <<open, registered>>

Replace(p, q) ==
  /\ \E n, m \in Inodes :
       /\ ReplaceNode(p, q, n, m)
       /\ Noted(Both(EntryNote({p, q}), Both(Note({n}, "RENAME"), Note({m}, "DELETE"))))
  /\ UNCHANGED <<open, registered>>

-----------------------------------------------------------------------------
(* The system calls of the monitor. *)

FreeFds == {fd \in Fds : open[fd] = Closed}

CanOpen(p) == Resolve(p) \in Inodes /\ FreeFds # {}

(* The lowest free number is handed out. *)
Open(p, fd) ==
  /\ CanOpen(p)
  /\ fd \in FreeFds
  /\ \A k \in FreeFds : fd <= k
  /\ open' = [open EXCEPT ![fd] = Resolve(p)]
  /\ UNCHANGED <<treeVars, registered, notes>>

(* The registration of a descriptor and its notes end with it. *)
Close(fd) ==
  /\ open' = [k \in Fds |-> IF k = fd THEN Closed ELSE open[k]]
  /\ registered' = registered \ {fd}
  /\ notes' = [k \in Fds |-> IF k = fd THEN {} ELSE notes[k]]
  /\ UNCHANGED treeVars

(* kevent with a list of descriptors to add.  A descriptor that is known    *)
(* keeps its notes.                                                         *)
Register(fds) ==
  /\ registered' = registered \cup fds
  /\ UNCHANGED <<treeVars, open, notes>>

(* kevent returns the notes, which are clear from then on (EV_CLEAR).       *)
Collect ==
  /\ notes' = [fd \in Fds |-> {}]
  /\ UNCHANGED <<treeVars, open, registered>>

KernelTypeOK ==
  /\ TreeTypeOK
  /\ open \in [Fds -> Inodes \cup {Closed}]
  /\ registered \subseteq Fds
  /\ notes \in [Fds -> SUBSET {"WRITE", "DELETE", "RENAME"}]
=============================================================================
