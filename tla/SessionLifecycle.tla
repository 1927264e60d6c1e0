-------------------------- MODULE SessionLifecycle --------------------------
(***************************************************************************)
(* What the C API of libfswatch promises of its sessions (c/libfswatch.h):  *)
(* a handle names at most one session, whose monitor runs at most once at a *)
(* time; starting a running monitor does nothing, and a session is not      *)
(* destroyed while its monitor runs.                                        *)
(***************************************************************************)
CONSTANT Handles

VARIABLE state   \* of the session of each handle

Init == state = [h \in Handles |-> "none"]

Move(h, from, to) ==
  /\ state[h] = from
  /\ state' = [state EXCEPT ![h] = to]

Open(h)  == Move(h, "none", "idle")
Start(h) == Move(h, "idle", "running")
Stop(h)  == Move(h, "running", "idle")
Close(h) == Move(h, "idle", "none")

Next == \E h \in Handles : Open(h) \/ Start(h) \/ Stop(h) \/ Close(h)

Spec == Init /\ [][Next]_state
=============================================================================
