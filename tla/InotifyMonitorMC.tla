-------------------------- MODULE InotifyMonitorMC --------------------------
(***************************************************************************)
(* Instances of InotifyMonitor for TLC: trees of at most four inodes.       *)
(***************************************************************************)
EXTENDS InotifyMonitor

CONSTANTS
  base,          \* the working directory
  d1, d2,        \* directories
  f1, f2         \* files

SomeNames == {"a", "b"}

A == <<"a">>
B == <<"b">>

NoPath == <<"">>

AllNowhere == [n \in Inodes |-> Nowhere]

(* a is a directory that has a file b. *)
DirTree ==
  [n \in Inodes |-> CASE n = d1 -> <<base, "a">>
                      [] n = f1 -> <<d1, "b">>
                      [] OTHER  -> Nowhere]

(* a and b are files. *)
TwoFiles ==
  [n \in Inodes |-> CASE n = f1 -> <<base, "a">>
                      [] n = f2 -> <<base, "b">>
                      [] OTHER  -> Nowhere]

RootA == <<A>>
RootsAB == <<A, B>>
NothingRejected == {}
=============================================================================
