----------------------------- MODULE TimedFiles -----------------------------
(***************************************************************************)
(* The environment of the poll monitor: a tree of files and directories     *)
(* with the times lstat returns, in seconds, the processes that change it,  *)
(* and the clock.  None of it is code of the repository.                    *)
(***************************************************************************)
EXTENDS Naturals, FiniteSets, SequencesExt

CONSTANTS
  Names,         \* names of directory entries
  Depth,         \* bound: length of a path
  MaxTime,       \* bound: the last second; nothing changes in it
  MaxOps,        \* bound: changes made to the tree
  InitialNodes,  \* the tree at second 0
  Absent         \* what a path without a node leads to

Paths == UNION {[1 .. n -> Names] : n \in 1 .. Depth}

Node == [dir : BOOLEAN, mtime : Nat, ctime : Nat]

ASSUME FilesAssumption ==
  /\ IsFiniteSet(Names)
  /\ {Depth, MaxTime, MaxOps} \subseteq Nat
  /\ InitialNodes \in [Paths -> Node \cup {Absent}]
  /\ Absent \notin Node
  /\ \A p \in Paths :
       InitialNodes[p] # Absent /\ Len(p) > 1 =>
         InitialNodes[Front(p)] # Absent /\ InitialNodes[Front(p)].dir

VARIABLES
  node,   \* what each path leads to
  now,    \* the time of the clock
  ops     \* changes made so far

fileVars == <<node, now, ops>>

IsDir(p) == node[p] # Absent /\ node[p].dir

InDir(p) == Len(p) > 1 => IsDir(Front(p))

(* The names in a directory: readdir. *)
Children(p) ==
  {name \in Names : IsDir(p) /\ Len(p) < Depth /\ node[Append(p, name)] # Absent}

(* The directories of the paths in changed get new times. *)
Touched(nodes, changed) ==
  [d \in Paths |->
    IF nodes[d] # Absent /\ \E p \in changed : Len(p) > 1 /\ Front(p) = d
    THEN [nodes[d] EXCEPT !.mtime = now, !.ctime = now]
    ELSE nodes[d]]

-----------------------------------------------------------------------------
FilesInit == node = InitialNodes /\ now = 0 /\ ops = 0

Count ==
  /\ now < MaxTime
  /\ ops < MaxOps
  /\ ops' = ops + 1
  /\ UNCHANGED now

Tick ==
  /\ now < MaxTime
  /\ now' = now + 1
  /\ UNCHANGED <<node, ops>>

Make(p) ==
  /\ Count
  /\ node[p] = Absent
  /\ InDir(p)
  /\ \E d \in BOOLEAN :
       /\ d => Len(p) < Depth
       /\ node' = Touched([node EXCEPT ![p] = [dir |-> d, mtime |-> now, ctime |-> now]],
                          {p})

Write(p) ==
  /\ Count
  /\ node[p] # Absent
  /\ ~node[p].dir
  /\ node' = [node EXCEPT ![p].mtime = now, ![p].ctime = now]

SetAttributes(p) ==
  /\ Count
  /\ node[p] # Absent
  /\ node' = [node EXCEPT ![p].ctime = now]

Delete(p) ==
  /\ Count
  /\ node[p] # Absent
  /\ Children(p) = {}
  /\ node' = Touched([node EXCEPT ![p] = Absent], {p})

(* The subtree at p is moved to q, to a free path or over a file; the times *)
(* of its nodes stay, but for the ctime of the node that was renamed.       *)
Moved(p, q) ==
  [s \in Paths |->
    IF IsPrefix(q, s)
    THEN LET old == p \o SubSeq(s, Len(q) + 1, Len(s)) IN
         IF old \notin Paths THEN Absent
         ELSE IF old = p THEN [node[p] EXCEPT !.ctime = now]
         ELSE node[old]
    ELSE IF IsPrefix(p, s) THEN Absent
    ELSE node[s]]

Move(p, q) ==
  /\ Count
  /\ node[p] # Absent
  /\ ~IsPrefix(p, q) /\ ~IsPrefix(q, p)
  /\ InDir(q)
  /\ node[q] # Absent => ~node[p].dir /\ ~node[q].dir
  /\ \A s \in Paths : IsPrefix(p, s) /\ node[s] # Absent => Len(s) + Len(q) <= Depth + Len(p)
  /\ node' = Touched(Moved(p, q), {p, q})

ChangePath(p) == Make(p) \/ Write(p) \/ SetAttributes(p) \/ Delete(p)

FilesTypeOK ==
  /\ node \in [Paths -> Node \cup {Absent}]
  /\ now \in 0 .. MaxTime
  /\ ops \in 0 .. MaxOps
=============================================================================
