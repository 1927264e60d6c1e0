------------------------------ MODULE LinkScan ------------------------------
(***************************************************************************)
(* One pass of a monitor over its root paths when there are symbolic links: *)
(* scan of the inotify, the kqueue and the poll monitor, one step per call  *)
(* of scan.  The tree is at rest; a path is real, that is, all that leads   *)
(* to it are directories.                                                   *)
(***************************************************************************)
EXTENDS Naturals, FiniteSets, SequencesExt

CONSTANTS
  Names,      \* names of directory entries
  Paths,      \* the real paths
  Roots,      \* the sequence of paths to monitor
  Recursive,  \* the recursive flag of the monitor
  Rejected,   \* the paths accept_path rejects
  Absent, File, Dir,  \* what a path leads to, or else the path realpath
                      \* yields for a link,
  Broken      \* or that realpath fails: nothing is there, or links in a circle

Objects == {File, Dir}
Nodes == {Absent, Broken} \cup Objects \cup Paths

ASSUME LinksAssumption ==
  /\ Paths \subseteq Seq(Names)
  /\ IsFiniteSet(Paths)
  /\ Roots \in Seq(Paths)
  /\ Recursive \in BOOLEAN
  /\ Rejected \subseteq Paths
  /\ Absent \notin {Broken} \cup Objects \cup Paths
  /\ Broken \notin Objects \cup Paths
  /\ Objects \cap Paths = {}
  /\ File # Dir

VARIABLES
  tree,      \* what lstat finds at a path
  monitor,   \* which of the monitors it is
  follow,    \* its follow_symlinks
  root,      \* the next of the root paths
  todo,      \* what is left to scan: the stack of scan
  watched    \* the paths in the tables of the monitor

vars == <<tree, monitor, follow, root, todo, watched>>

IsLink(p) == tree[p] \in Paths \cup {Broken}

Children(p) == {c \in Paths : Len(c) = Len(p) + 1 /\ IsPrefix(p, c) /\ tree[c] # Absent}

(* A link leads to an object, and what exists is in a directory.            *)
ATree(t) ==
  \A p \in Paths :
    /\ t[p] \in Paths => t[t[p]] \in Objects
    /\ t[p] # Absent /\ Len(p) > 1 => t[Front(p)] = Dir

Init ==
  /\ tree \in {t \in [Paths -> Nodes] : ATree(t)}
  /\ monitor \in {"inotify", "kqueue", "poll"}
  /\ follow \in BOOLEAN
  /\ root = 1
  /\ todo = <<>>
  /\ watched = {}

-----------------------------------------------------------------------------
Item(p, any) == [path |-> p, any |-> any]

(* scan_root_paths of the inotify and the kqueue monitor, and collect_data. *)
VisitRoot ==
  /\ todo = <<>>
  /\ root <= Len(Roots)
  /\ root' = root + 1
  /\ todo' = IF monitor # "poll" /\ Roots[root] \in watched THEN <<>>
             ELSE <<Item(Roots[root], TRUE)>>
  /\ UNCHANGED <<tree, monitor, follow, watched>>

Scanned == Head(todo).path

(* Mutants: that lstat failed is not looked at; the monitors are all alike.  *)
LookedAtAlways ==
  monitor = "inotify" => Head(todo).any \/ tree[Scanned] = Dir
LookedAtAlike ==
  /\ tree[Scanned] # Absent
  /\ Head(todo).any \/ tree[Scanned] = Dir

(* accept_non_dirs of the inotify monitor: children have to be directories, *)
(* and that is looked at before links are followed.                         *)
LookedAt ==
  /\ tree[Scanned] # Absent
  /\ monitor = "inotify" => Head(todo).any \/ tree[Scanned] = Dir

ToFollow == LookedAt /\ follow /\ IsLink(Scanned)

(* Mutant: the result of read_link_path is not looked at.                   *)
FollowLinkAnyway ==
  /\ todo # <<>>
  /\ ToFollow
  /\ LET to == IF tree[Scanned] = Broken THEN Scanned ELSE tree[Scanned] IN
       todo' = <<Item(to, Head(todo).any)>> \o Tail(todo)
  /\ UNCHANGED <<tree, monitor, follow, root, watched>>

FollowLink ==
  /\ todo # <<>>
  /\ ToFollow
  /\ todo' = IF tree[Scanned] = Broken THEN Tail(todo)
             ELSE <<Item(tree[Scanned], Head(todo).any)>> \o Tail(todo)
  /\ UNCHANGED <<tree, monitor, follow, root, watched>>

Accepted(p) == tree[p] = Dir \/ p \notin Rejected

(* Mutant: a path that is watched is added again.                           *)
ToAddAgain ==
  /\ LookedAt
  /\ ~(follow /\ IsLink(Scanned))
  /\ Accepted(Scanned)

(* The poll and the kqueue monitor add a path once; the inotify monitor     *)
(* adds it as often as it comes to it.                                      *)
ToAdd ==
  /\ LookedAt
  /\ ~(follow /\ IsLink(Scanned))
  /\ Accepted(Scanned)
  /\ monitor # "inotify" => Scanned \notin watched

(* add_watch or add_path, and the children in any order.                    *)
Add ==
  /\ todo # <<>>
  /\ ToAdd
  /\ watched' = watched \cup {Scanned}
  /\ IF Recursive /\ tree[Scanned] = Dir
     THEN \E cs \in SetToSeqs(Children(Scanned)) :
            todo' = [i \in DOMAIN cs |-> Item(cs[i], FALSE)] \o Tail(todo)
     ELSE todo' = Tail(todo)
  /\ UNCHANGED <<tree, monitor, follow, root>>

(* A link that is not followed cannot be opened where there is O_NOFOLLOW   *)
(* and no O_SYMLINK; inotify_add_watch follows it, if it can.               *)
AddFails ==
  /\ todo # <<>>
  /\ ToAdd
  /\ \/ monitor = "kqueue" /\ IsLink(Scanned)
     \/ monitor = "inotify" /\ tree[Scanned] = Broken
  /\ todo' = Tail(todo)
  /\ UNCHANGED <<tree, monitor, follow, root, watched>>

LeaveOut ==
  /\ todo # <<>>
  /\ ~ToFollow
  /\ ~ToAdd
  /\ todo' = Tail(todo)
  /\ UNCHANGED <<tree, monitor, follow, root, watched>>

Next == VisitRoot \/ FollowLink \/ Add \/ AddFails \/ LeaveOut

Spec == Init /\ [][Next]_vars

(* The thread of the monitor keeps running. *)
FairSpec == Spec /\ WF_vars(Next)

-----------------------------------------------------------------------------
Done == todo = <<>> /\ root > Len(Roots)

(* What a path stands for: itself, or what the link leads to.               *)
Meant(p) ==
  IF tree[p] = Absent THEN {}
  ELSE {q \in {IF follow /\ IsLink(p) THEN tree[p] ELSE p} :
          q \in Paths /\ Accepted(q)}

(* What a pass goes on to in a directory; the inotify monitor hears of what *)
(* is in it from the kernel, and leaves out files and, with them, links.    *)
Entered(p) == {c \in Children(p) : monitor = "inotify" => tree[c] = Dir}

Closed(S) ==
  /\ \A i \in DOMAIN Roots : Meant(Roots[i]) \subseteq S
  /\ \A p \in S : Recursive /\ tree[p] = Dir =>
       \A c \in Entered(p) : Meant(c) \subseteq S

(* The least set that has the roots and, recursively, what is in the        *)
(* directories of the set, through links.                                   *)
Wanted == {p \in Paths : \A S \in SUBSET Paths : Closed(S) => p \in S}

TypeOK ==
  /\ tree \in [Paths -> Nodes]
  /\ monitor \in {"inotify", "kqueue", "poll"}
  /\ follow \in BOOLEAN
  /\ root \in 1 .. Len(Roots) + 1
  /\ todo \in Seq([path : Paths, any : BOOLEAN])
  /\ watched \subseteq {p \in Paths : tree[p] # Absent}

(* A pass watches exactly what is below the roots, although links may lead  *)
(* up, sideways, to each other's targets or out of the roots, and a         *)
(* directory may be come to first through a link.  A link that is not       *)
(* followed counts as a file; whether the kqueue and the inotify monitor    *)
(* can watch one depends on the system.                                     *)
ScanExact ==
  Done /\ (monitor = "poll" \/ follow) => watched = Wanted

(* What is left of a pass.  The poll and the kqueue monitor have paths they *)
(* do not watch yet, roots, calls of scan, and the link they may be at; the *)
(* inotify monitor, which watches a path as often as it comes to it, has    *)
(* roots, the link a root may be, and what is below the calls to come.      *)
RootsLeft == Len(Roots) + 1 - root
AtLink == IF todo # <<>> /\ ToFollow THEN 1 ELSE 0
Beneath == {p \in Paths : \E i \in DOMAIN todo : IsPrefix(todo[i].path, p)}

Remaining ==
  IF monitor = "inotify" THEN <<0, RootsLeft, AtLink, Cardinality(Beneath)>>
  ELSE <<Cardinality(Paths \ watched), RootsLeft, Len(todo), AtLink>>

(* Tuples of four numbers, the first place that differs decides.            *)
Less(a, b) == \E i \in 1 .. 4 : a[i] < b[i] /\ \A j \in 1 .. i - 1 : a[j] = b[j]

(* Each call of scan and each root brings the pass closer to its end, over  *)
(* every tree, wherever its links lead: no link is followed twice for       *)
(* nothing, and no directory is read again through a link that leads up.    *)
PassAdvances == [][Less(Remaining', Remaining)]_vars

(* No pass goes round and round links that lead back up.                    *)
ScanEnds == <>Done
=============================================================================
