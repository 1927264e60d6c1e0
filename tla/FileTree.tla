------------------------------ MODULE FileTree ------------------------------
(***************************************************************************)
(* The file system the inotify and the kqueue monitor look at: a tree of    *)
(* files and directories, and what other processes may do to it.  None of   *)
(* it is code of the repository.                                            *)
(*                                                                          *)
(* An inode is in a seat <<directory, name>>, or nowhere.  A path is the    *)
(* sequence of names that leads to it from the directory Base.              *)
(***************************************************************************)
EXTENDS Naturals, FiniteSets, SequencesExt

CONSTANTS
  Inodes,      \* inodes, Base apart
  Dirs,        \* those of directories; the others are of files
  Base,        \* the directory all paths start from; it never moves
  Names,       \* names of directory entries
  Depth,       \* bound: length of a path
  MaxOps,      \* bound: changes made to the tree
  InitialSeats,\* the tree when the monitor is created
  Nowhere      \* the seat of an inode that is not in use, and its lookup

ASSUME TreeAssumption ==
  /\ Dirs \subseteq Inodes
  /\ Base \notin Inodes
  /\ Nowhere \notin Inodes \cup {Base} \cup ((Inodes \cup {Base}) \X Names)
  /\ IsFiniteSet(Names)
  /\ Depth \in Nat \ {0}
  /\ MaxOps \in Nat
  /\ InitialSeats \in [Inodes -> ((Dirs \cup {Base}) \X Names) \cup {Nowhere}]
  /\ \A n, m \in Inodes :
       InitialSeats[n] = InitialSeats[m] /\ InitialSeats[n] # Nowhere => n = m
  /\ \A n \in Dirs :
       InitialSeats[n] = Nowhere => \A m \in Inodes, x \in Names : InitialSeats[m] # <<n, x>>

VARIABLES
  seat,      \* where an inode is
  ops        \* changes made so far

treeVars == <<seat, ops>>

Paths == UNION {[1 .. n -> Names] : n \in 1 .. Depth}

IsDir(n) == n \in Dirs \cup {Base}

Entry(d, name) ==
  LET found == {n \in Inodes : seat[n] = <<d, name>>}
  IN IF found = {} THEN Nowhere ELSE CHOOSE n \in found : TRUE

(* The inode a path leads to. *)
Resolve(p) ==
  LET inode[n \in 0 .. Len(p)] ==
        IF n = 0 THEN Base
        ELSE IF inode[n - 1] = Nowhere THEN Nowhere
        ELSE Entry(inode[n - 1], p[n])
  IN inode[Len(p)]

Parent(p) == Resolve(Front(p))

(* The names in the directory a path leads to: readdir. *)
Children(p) ==
  {name \in Names : /\ Len(p) < Depth
                    /\ Resolve(p) # Nowhere
                    /\ Entry(Resolve(p), name) # Nowhere}

(* Whether an inode has no entries, as the kernel decides it. *)
Empty(n) == \A m \in Inodes, name \in Names : seat[m] # <<n, name>>

-----------------------------------------------------------------------------
TreeInit == seat = InitialSeats /\ ops = 0

(* Every change is counted. *)
Count == ops < MaxOps /\ ops' = ops + 1

(* A file or an empty directory is made. *)
MakeNode(p, n) ==
  /\ seat[n] = Nowhere
  /\ IsDir(Parent(p))
  /\ Resolve(p) = Nowhere
  /\ IsDir(n) => Len(p) < Depth
  /\ seat' = [seat EXCEPT ![n] = <<Parent(p), Last(p)>>]

WriteNode(p, n) ==
  /\ n = Resolve(p)
  /\ n \notin Dirs
  /\ IsDir(Parent(p))
  /\ UNCHANGED seat

(* A file or an empty directory is deleted. *)
DeleteNode(p, n) ==
  /\ n = Resolve(p)
  /\ IsDir(Parent(p))
  /\ Empty(n)
  /\ seat' = [seat EXCEPT ![n] = Nowhere]

(* A path may be moved to another when the whole subtree stays in bounds.   *)
MayMove(p, q) ==
  /\ p # q
  /\ ~IsPrefix(p, q)
  /\ \A s \in Paths : IsPrefix(p, s) /\ Resolve(s) # Nowhere =>
       Len(s) + Len(q) <= Depth + Len(p)

(* To a free path. *)
RenameNode(p, q, n) ==
  /\ n = Resolve(p)
  /\ Resolve(q) = Nowhere
  /\ IsDir(Parent(p)) /\ IsDir(Parent(q))
  /\ MayMove(p, q)
  /\ seat' = [seat EXCEPT ![n] = <<Parent(q), Last(q)>>]

(* Over a file or an empty directory, which is deleted. *)
ReplaceNode(p, q, n, m) ==
  /\ n = Resolve(p)
  /\ m = Resolve(q)
  /\ IsDir(n) = IsDir(m)
  /\ IsDir(Parent(p)) /\ IsDir(Parent(q))
  /\ Empty(m)
  /\ MayMove(p, q)
  /\ seat' = [seat EXCEPT ![n] = seat[m], ![m] = Nowhere]

TreeTypeOK ==
  /\ seat \in [Inodes -> ((Dirs \cup {Base}) \X Names) \cup {Nowhere}]
  /\ ops \in 0 .. MaxOps

(* A directory has at most one entry of a name. *)
SeatsDistinct ==
  \A n, m \in Inodes : seat[n] = seat[m] /\ seat[n] # Nowhere => n = m

(* A directory that is in no seat has no entries. *)
NoOrphans == \A n \in Dirs : seat[n] = Nowhere => Empty(n)
=============================================================================
