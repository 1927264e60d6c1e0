--------------------------- MODULE KqueueMonitorMC ---------------------------
(***************************************************************************)
(* The instance of KqueueMonitor for TLC: a directory, and files in and     *)
(* beside it.                                                               *)
(***************************************************************************)
EXTENDS KqueueMonitor

CONSTANTS
  base,          \* the working directory
  d1,            \* a directory
  f1, f2         \* files

SomeNames == {"a", "b"}

A == <<"a">>

NoPath == <<"">>

(* a is a directory that has a file b. *)
DirTree ==
  [n \in Inodes |-> CASE n = d1 -> <<base, "a">>
                      [] n = f1 -> <<d1, "b">>
                      [] OTHER  -> Nowhere]

RootA == <<A>>
RejectA == {A}
=============================================================================
