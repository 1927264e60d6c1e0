---------------------------- MODULE SessionApiMC ----------------------------
(***************************************************************************)
(* Instances of SessionApi for TLC.                                         *)
(***************************************************************************)
EXTENDS SessionApi, TLC

CONSTANTS
  t1, t2,      \* threads
  h1, h2,      \* handles
  p1, p2,      \* paths
  c1, c2,      \* callbacks
  include, exclude, bad

(* An inclusion of p1, an exclusion of both paths, and an expression that   *)
(* does not compile.                                                        *)
SomeMatches == {<<include, p1>>, <<exclude, p1>>, <<exclude, p2>>}

AllApi == Functions

(* What it takes to run one monitor, and all that makes it fail. *)
LockApi == {"init", "add_path", "set_callback", "start", "destroy"}

(* Clients that destroy a session once: when they call, the handle is that  *)
(* of a live session, and no other call is destroying it.                   *)
DestroysOnce ==
  \A f \in Frames :
    at[f] = "idle" /\ at'[f] = "enter" /\ fn'[f] = "destroy" =>
      /\ sessions[handle'[f]] # Null
      /\ ~\E g \in Frames : fn[g] = "destroy" /\ handle[g] = handle'[f]

CarefulSpec == Init /\ [][Next /\ DestroysOnce]_vars

ThreadSymmetry == Permutations(Threads)
=============================================================================
