----------------------------- MODULE WatchTable -----------------------------
(***************************************************************************)
(* What the tables of a monitor are for: each path is watched through one   *)
(* descriptor, and a descriptor watches one path.  A watch is added for a   *)
(* path that has none under a descriptor that is free, and dropped as a     *)
(* whole; it is never given to another path or another descriptor.          *)
(***************************************************************************)
CONSTANTS Paths, Fds

VARIABLE watches   \* pairs of a path and its descriptor

Init == watches = {}

Watch(p, fd) ==
  /\ \A w \in watches : w[1] # p /\ w[2] # fd
  /\ watches' = watches \cup {<<p, fd>>}

Unwatch(p, fd) == watches' = watches \ {<<p, fd>>}

Next ==
  \/ \E p \in Paths, fd \in Fds : Watch(p, fd)
  \/ \E w \in watches : Unwatch(w[1], w[2])

Spec == Init /\ [][Next]_watches
=============================================================================
