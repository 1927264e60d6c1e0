--------------------------- MODULE PollMonitorMC ---------------------------
(***************************************************************************)
(* Instances of PollMonitor for TLC.                                        *)
(***************************************************************************)
EXTENDS PollMonitor

SomeNames == {"a", "b"}

A == <<"a">>
AB == <<"a", "b">>

(* a is a directory that has a file b. *)
DirTree ==
  [p \in Paths |-> CASE p = A  -> [dir |-> TRUE, mtime |-> 0, ctime |-> 0]
                     [] p = AB -> [dir |-> FALSE, mtime |-> 0, ctime |-> 0]
                     [] OTHER  -> Absent]

(* A directory and what is in it: the scan meets a/b twice. *)
Overlapping == <<A, AB>>

(* A file that is filtered out. *)
RejectedFile == {<<"a", "a">>}
=============================================================================
