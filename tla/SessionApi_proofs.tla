-------------------------- MODULE SessionApi_proofs --------------------------
(***************************************************************************)
(* Proofs of the safety properties of SessionApi, for every number of       *)
(* threads, handles and nested calls.                                       *)
(***************************************************************************)
EXTENDS SessionApi, TLAPS

(* The thread of a frame. *)
LEMMA FrameThread == \A f \in Frames : f[1] \in Threads
  BY DEF Frames


LEMMA InitTyped == Init => TypeOK
  BY ApiAssumption DEF Init, TypeOK, Functions, Codes

LEMMA ReturnTyped ==
  ASSUME TypeOK, NEW f \in Frames, Return(f)
  PROVE  /\ fn' \in [Frames -> Functions \cup {"none"}]
         /\ handle' \in [Frames -> Handles \cup {Null}]
         /\ at' \in [Frames -> {"idle", "enter", "locked", "await_sm", "erase"}
                                 \cup HoldingMutex]
  BY DEF TypeOK, Return, Goto

LEMMA SetErrorTyped ==
  ASSUME TypeOK, NEW f \in Frames, NEW code \in Codes, SetError(f, code)
  PROVE  last_error' \in [Threads -> Codes]
  BY FrameThread DEF TypeOK, SetError

-----------------------------------------------------------------------------
(* The steps that change one session.                                       *)

(* The session of f becomes s. *)
Becomes(f, s) ==
  /\ handle[f] \in Handles
  /\ SessionOf(f) \in Session
  /\ s \in Session
  /\ sessions' = [sessions EXCEPT ![handle[f]] = s]

LEMMA BecomesTyped ==
  ASSUME TypeOK, NEW f \in Frames, NEW s, Becomes(f, s)
  PROVE  sessions' \in [Handles -> Session \cup {Null}]
  BY DEF TypeOK, Becomes

LEMMA KnownTyped ==
  ASSUME TypeOK, CallShape, NEW f \in Frames, at[f] # "idle", fn[f] # "init", Known(f)
  PROVE  handle[f] \in Handles /\ SessionOf(f) \in Session
  BY DEF TypeOK, CallShape, Known, SessionOf

(* The session a start or a destruction works on. *)
LEMMA PinnedTyped ==
  ASSUME TypeOK, CallShape, SessionPinned, NEW f \in Frames,
         at[f] \in HoldingMutex \cup {"await_sm"}
  PROVE  handle[f] \in Handles /\ SessionOf(f) \in Session
  BY DEF TypeOK, CallShape, SessionPinned, SessionOf

(* The filters of a session only grow, by one at the end. *)
FiltersGrow(o, s) ==
  \/ s.filters = o.filters
  \/ \E x \in Filters : s.filters = Append(o.filters, x)

(* What a start makes of the filters of the monitor. *)
FiltersGiven(o, s, n) ==
  /\ o.monitor # Null
  /\ s.monitor # Null
  /\ s.filters = o.filters
  /\ n \in 0 .. Len(o.filters)
  /\ s.monitor.filters = o.monitor.filters \o SubSeq(o.filters, 1, n)

(* A setter leaves the monitor and the running flag of the session alone. *)
LEMMA SetterEffect ==
  ASSUME TypeOK, CallShape, NEW f \in Frames, SetterStep(f)
  PROVE  /\ at[f] = "locked"
         /\ Leave(f, "OK")
         /\ \E s : /\ Becomes(f, s)
                  /\ s.running = SessionOf(f).running
                  /\ s.monitor = SessionOf(f).monitor
                  /\ FiltersGrow(SessionOf(f), s)
<1> DEFINE o == SessionOf(f)
           Kept(s) == /\ s \in Session
                      /\ s.running = o.running
                      /\ s.monitor = o.monitor
                      /\ FiltersGrow(o, s)
<1>0. PICK name \in Setters : \E s : Update(f, name, s)
  BY DEF SetterStep, AddPath, SetCallback, SetLatency, SetRecursive,
         SetFollowSymlinks, AddFilter, Setters
<1>1. PICK s : Update(f, name, s)
  BY <1>0
<1>2. /\ at[f] = "locked" /\ Leave(f, "OK") /\ Known(f)
      /\ fn[f] # "init"
  BY <1>1 DEF Update, Locked, Setters
<1>3. handle[f] \in Handles /\ o \in Session
  BY <1>2, KnownTyped
<1>4. \E t : Kept(t) /\ sessions' = [sessions EXCEPT ![handle[f]] = t]
  <2>1. CASE AddPath(f)
    <3>1. PICK p \in Paths : sessions' = [sessions EXCEPT ![handle[f]] =
                                           [o EXCEPT !.paths = o.paths \cup {p}]]
      BY <2>1 DEF AddPath, Update
    <3>2. Kept([o EXCEPT !.paths = o.paths \cup {p}])
      BY <1>3 DEF Session, FiltersGrow
    <3> QED BY <3>1, <3>2
  <2>2. CASE SetCallback(f)
    <3>1. PICK c \in Callbacks :
            sessions' = [sessions EXCEPT ![handle[f]] = [o EXCEPT !.callback = c]]
      BY <2>2 DEF SetCallback, Update
    <3>2. Kept([o EXCEPT !.callback = c])
      BY <1>3 DEF Session, FiltersGrow
    <3> QED BY <3>1, <3>2
  <2>3. CASE SetLatency(f)
    <3>1. PICK l \in Latencies :
            sessions' = [sessions EXCEPT ![handle[f]] = [o EXCEPT !.latency = l]]
      BY <2>3 DEF SetLatency, Update
    <3>2. Kept([o EXCEPT !.latency = l])
      BY <1>3, ApiAssumption DEF Session, FiltersGrow
    <3> QED BY <3>1, <3>2
  <2>4. CASE SetRecursive(f)
    <3>1. PICK b \in BOOLEAN :
            sessions' = [sessions EXCEPT ![handle[f]] = [o EXCEPT !.recursive = b]]
      BY <2>4 DEF SetRecursive, Update
    <3>2. Kept([o EXCEPT !.recursive = b])
      BY <1>3 DEF Session, FiltersGrow
    <3> QED BY <3>1, <3>2
  <2>5. CASE SetFollowSymlinks(f)
    <3>1. PICK b \in BOOLEAN :
            sessions' = [sessions EXCEPT ![handle[f]] = [o EXCEPT !.follow_symlinks = b]]
      BY <2>5 DEF SetFollowSymlinks, Update
    <3>2. Kept([o EXCEPT !.follow_symlinks = b])
      BY <1>3 DEF Session, FiltersGrow
    <3> QED BY <3>1, <3>2
  <2>6. CASE AddFilter(f)
    <3>1. PICK x \in Filters :
            sessions' = [sessions EXCEPT ![handle[f]] =
                           [o EXCEPT !.filters = Append(o.filters, x)]]
      BY <2>6 DEF AddFilter, Update
    <3>2. o.filters \in Seq(Filters)
      BY <1>3 DEF Session
    <3>3. Append(o.filters, x) \in Seq(Filters)
      BY <3>2
    <3>4. Kept([o EXCEPT !.filters = Append(o.filters, x)])
      BY <1>3, <3>3 DEF Session, FiltersGrow
    <3> QED BY <3>1, <3>4
  <2> QED
    BY <2>1, <2>2, <2>3, <2>4, <2>5, <2>6 DEF SetterStep
<1> QED
  BY <1>2, <1>3, <1>4 DEF Becomes

(* create_monitor changes nothing but the monitor, which has no filters yet. *)
LEMMA CreateEffect ==
  ASSUME TypeOK, CallShape, SessionPinned, NEW f \in Frames, CreateMonitor(f)
  PROVE  \E s : /\ Becomes(f, s)
               /\ s.running = SessionOf(f).running
               /\ s.filters = SessionOf(f).filters
               /\ \/ s.monitor = SessionOf(f).monitor
                  \/ s.monitor.filters = <<>>
<1> DEFINE o == SessionOf(f)
           m == [paths |-> o.paths, callback |-> o.callback,
                 filters |-> <<>>, latency |-> DefaultLatency,
                 recursive |-> FALSE, follow_symlinks |-> FALSE]
<1>1. handle[f] \in Handles /\ o \in Session
  BY PinnedTyped DEF CreateMonitor, HoldingMutex
<1>2. CASE sessions' = sessions
  <2>1. sessions' = [sessions EXCEPT ![handle[f]] = o]
    BY <1>1, <1>2 DEF TypeOK, SessionOf
  <2> QED BY <1>1, <2>1 DEF Becomes
<1>3. CASE /\ CreateError(o) = "OK"
           /\ sessions' = [sessions EXCEPT ![handle[f]].monitor = m]
  <2>1. o.callback \in Callbacks
    BY <1>1, <1>3 DEF CreateError, Session
  <2>2. m \in Monitor
    BY <1>1, <2>1 DEF Session, Monitor, DefaultLatency
  <2>3. sessions' = [sessions EXCEPT ![handle[f]] = [o EXCEPT !.monitor = m]]
    BY <1>3 DEF SessionOf
  <2>4. /\ [o EXCEPT !.monitor = m] \in Session
        /\ [o EXCEPT !.monitor = m].running = o.running
        /\ [o EXCEPT !.monitor = m].filters = o.filters
        /\ [o EXCEPT !.monitor = m].monitor.filters = <<>>
    BY <1>1, <2>2 DEF Session
  <2> QED BY <1>1, <2>3, <2>4 DEF Becomes
<1> QED
  BY <1>2, <1>3 DEF CreateMonitor

LEMMA PrefixTyped ==
  ASSUME NEW s \in Seq(Filters), NEW m \in Seq(Filters), NEW n \in 0 .. Len(s)
  PROVE  m \o SubSeq(s, 1, n) \in Seq(Filters)
<1>1. SubSeq(s, 1, n) \in Seq(Filters)
  OBVIOUS
<1> QED
  BY <1>1

(* A bad filter leaves the monitor with the filters before it. *)
LEMMA ConfigureFailsEffect ==
  ASSUME TypeOK, CallShape, SessionPinned, NEW f \in Frames, ConfigureFails(f)
  PROVE  \E s : /\ Becomes(f, s)
               /\ s.running = SessionOf(f).running
               /\ \E n : FiltersGiven(SessionOf(f), s, n)
<1> DEFINE o == SessionOf(f)
<1>1. handle[f] \in Handles /\ o \in Session
  BY PinnedTyped DEF ConfigureFails, HoldingMutex
<1>2. o.monitor \in Monitor /\ o.filters \in Seq(Filters)
  BY <1>1 DEF ConfigureFails, Session
<1>3. PICK n \in 0 .. Len(o.filters) :
        sessions' = [sessions EXCEPT ![handle[f]].monitor.filters =
                       o.monitor.filters \o SubSeq(o.filters, 1, n)]
  BY DEF ConfigureFails
<1> DEFINE fs == o.monitor.filters \o SubSeq(o.filters, 1, n)
           m  == [o.monitor EXCEPT !.filters = fs]
<1>4. o.monitor.filters \in Seq(Filters)
  BY <1>2 DEF Monitor
<1>5. fs \in Seq(Filters)
  BY <1>2, <1>4, PrefixTyped
<1>6. m \in Monitor
  BY <1>2, <1>5 DEF Monitor
<1>7. /\ [o EXCEPT !.monitor = m] \in Session
      /\ [o EXCEPT !.monitor = m].running = o.running
      /\ [o EXCEPT !.monitor = m].filters = o.filters
      /\ [o EXCEPT !.monitor = m].monitor = m
      /\ m.filters = fs
  BY <1>1, <1>2, <1>6 DEF Session, Monitor
<1>8. sessions' = [sessions EXCEPT ![handle[f]] = [o EXCEPT !.monitor = m]]
  BY <1>3 DEF SessionOf
<1>9. m # Null /\ o.monitor # Null
  BY <1>2, <1>6, NullAssumption
<1>10. FiltersGiven(o, [o EXCEPT !.monitor = m], n)
  BY <1>7, <1>9 DEF FiltersGiven
<1>11. Becomes(f, [o EXCEPT !.monitor = m])
  BY <1>1, <1>7, <1>8 DEF Becomes
<1> QED
  BY <1>7, <1>10, <1>11

(* A monitor that is configured is started. *)
LEMMA ConfigureEffect ==
  ASSUME TypeOK, CallShape, SessionPinned, NEW f \in Frames, ConfigureMonitor(f)
  PROVE  \E s : /\ Becomes(f, s)
               /\ s.running = TRUE
               /\ FiltersGiven(SessionOf(f), s, Len(SessionOf(f).filters))
<1> DEFINE o == SessionOf(f)
           l == IF o.latency = 0 THEN o.monitor.latency ELSE o.latency
           m == [o.monitor EXCEPT !.filters = o.monitor.filters \o o.filters,
                                  !.follow_symlinks = o.follow_symlinks,
                                  !.latency = l,
                                  !.recursive = o.recursive]
           r == [o EXCEPT !.running = TRUE, !.monitor = m]
<1>1. handle[f] \in Handles /\ o \in Session
  BY PinnedTyped DEF ConfigureMonitor, HoldingMutex
<1>2. o.monitor \in Monitor
  BY <1>1 DEF ConfigureMonitor, Session
<1>3. o.monitor.filters \o o.filters \in Seq(Filters)
  BY <1>1, <1>2 DEF Session, Monitor
<1>4. m \in Monitor
  BY <1>1, <1>2, <1>3 DEF Session, Monitor
<1>5. r \in Session /\ r.running = TRUE
  BY <1>1, <1>4 DEF Session
<1>6. sessions' = [sessions EXCEPT ![handle[f]] = r]
  BY <1>1 DEF ConfigureMonitor, Session
<1>7. Becomes(f, r)
  BY <1>1, <1>5, <1>6 DEF Becomes
<1>8. /\ o.filters \in Seq(Filters)
      /\ Len(o.filters) \in Nat
      /\ SubSeq(o.filters, 1, Len(o.filters)) = o.filters
  BY <1>1 DEF Session
<1>9. /\ r.filters = o.filters
      /\ r.monitor.filters = o.monitor.filters \o o.filters
      /\ r.monitor # Null
      /\ o.monitor # Null
  BY <1>1, <1>2, <1>4, NullAssumption DEF Session, Monitor
<1> HIDE DEF o, r
<1>10. r.monitor.filters = o.monitor.filters \o SubSeq(o.filters, 1, Len(o.filters))
  BY <1>8, <1>9, Zenon
<1>11. Len(o.filters) \in 0 .. Len(o.filters)
  BY <1>8
<1>12. FiltersGiven(o, r, Len(o.filters))
  BY <1>9, <1>10, <1>11, Zenon DEF FiltersGiven
<1> QED
  BY <1>5, <1>7, <1>12 DEF o

LEMMA StopEffect ==
  ASSUME TypeOK, CallShape, SessionPinned, NEW f \in Frames, MonitorStops(f)
  PROVE  \E s : /\ Becomes(f, s)
               /\ s.running = FALSE
               /\ s.filters = SessionOf(f).filters
               /\ s.monitor = SessionOf(f).monitor
<1> DEFINE o == SessionOf(f)
<1>1. handle[f] \in Handles /\ o \in Session
  BY PinnedTyped DEF MonitorStops, HoldingMutex
<1>2. /\ [o EXCEPT !.running = FALSE] \in Session
      /\ [o EXCEPT !.running = FALSE].running = FALSE
      /\ [o EXCEPT !.running = FALSE].filters = o.filters
      /\ [o EXCEPT !.running = FALSE].monitor = o.monitor
  BY <1>1 DEF Session
<1>3. sessions' = [sessions EXCEPT ![handle[f]] = [o EXCEPT !.running = FALSE]]
  BY DEF MonitorStops, SessionOf
<1> QED
  BY <1>1, <1>2, <1>3 DEF Becomes

(* A new session is not running. *)
LEMMA InitEffect ==
  ASSUME TypeOK, NEW f \in Frames, InitSession(f)
  PROVE  \E h \in Handles, s \in Session :
           /\ sessions[h] = Null
           /\ sessions' = [sessions EXCEPT ![h] = s]
           /\ s.running = FALSE
           /\ s.filters = <<>>
           /\ s.monitor = Null
           /\ mutexes' = mutexes \cup {h}
<1> DEFINE new(ty) == [type |-> ty, paths |-> {}, callback |-> Null, filters |-> <<>>,
                       latency |-> 0, recursive |-> FALSE, follow_symlinks |-> FALSE,
                       monitor |-> Null, running |-> FALSE]
<1>1. \A ty \in Types : /\ new(ty) \in Session
                         /\ new(ty).running = FALSE
                         /\ new(ty).filters = <<>>
                         /\ new(ty).monitor = Null
  BY DEF Session
<1> QED
  BY <1>1 DEF InitSession

-----------------------------------------------------------------------------
(* Type correctness.                                                        *)

(* No step breaks the types. *)
LEMMA TypeStep ==
  ASSUME TypeOK, CallShape, SessionPinned, [Next]_vars
  PROVE  TypeOK'
<1>1. CASE UNCHANGED vars
  BY <1>1 DEF TypeOK, vars
<1> SUFFICES ASSUME NEW f \in Frames,
                    ClientStep(f) \/ LockRegistry(f) \/ LibraryStep(f) \/ MonitorStops(f)
             PROVE  TypeOK'
  BY <1>1 DEF Next, Terminated
<1>2. ASSUME NEW name \in Api, NEW h \in Handles, Call(f, name, h) PROVE TypeOK'
  BY <1>2, ApiAssumption DEF Call, Goto, TypeOK
<1>3. CASE RejectArgument(f)
  BY <1>3, SetErrorTyped DEF RejectArgument, TypeOK, Codes
<1>4. CASE LockRegistry(f)
  BY <1>4 DEF LockRegistry, Goto, TypeOK
<1>5. CASE InitSession(f)
  <2>1. PICK h \in Handles, s \in Session :
          sessions' = [sessions EXCEPT ![h] = s] /\ mutexes' = mutexes \cup {h}
    BY <1>5, InitEffect
  <2>2. Return(f) /\ UNCHANGED <<sm, last_error, crashed>> /\ session_mutex' = Null
    BY <1>5 DEF InitSession
  <2> QED BY <2>1, <2>2, ReturnTyped DEF TypeOK
<1>6. CASE UnknownSession(f)
  BY <1>6, ReturnTyped, SetErrorTyped DEF UnknownSession, Leave, TypeOK, Codes
<1>7. CASE SetterStep(f)
  <2>1. Leave(f, "OK") /\ \E s : Becomes(f, s)
    BY <1>7, SetterEffect
  <2> QED
    BY <2>1, BecomesTyped, ReturnTyped, SetErrorTyped DEF Leave, TypeOK, Codes
<1>8. CASE StartRefused(f)
  BY <1>8, ReturnTyped, SetErrorTyped DEF StartRefused, Leave, TypeOK, Codes
<1>9. CASE StartWithoutMutex(f)
  BY <1>9, ReturnTyped DEF StartWithoutMutex, TypeOK
<1>10. CASE StartFindMutex(f)
  BY <1>10 DEF StartFindMutex, Goto, TypeOK
<1>11. CASE StartTakeMutex(f)
  BY <1>11 DEF StartTakeMutex, Goto, TypeOK, HoldingMutex
<1>12. CASE CreateMonitor(f)
  <2>1. sessions' \in [Handles -> Session \cup {Null}]
    BY <1>12, CreateEffect, BecomesTyped
  <2>2. CreateError(SessionOf(f)) \in Codes
    BY DEF CreateError, Codes
  <2>3. last_error' \in [Threads -> Codes]
    BY <1>12, <2>2, SetErrorTyped DEF CreateMonitor, TypeOK
  <2>4. crashed' \in BOOLEAN
    BY <1>12 DEF CreateMonitor, MayCrash, TypeOK
  <2> QED BY <1>12, <2>1, <2>3, <2>4 DEF CreateMonitor, Goto, TypeOK, HoldingMutex
<1>13. CASE ConfigureNothing(f)
  BY <1>13 DEF ConfigureNothing, TypeOK
<1>14. CASE ConfigureFails(f)
  <2>1. sessions' \in [Handles -> Session \cup {Null}]
    BY <1>14, ConfigureFailsEffect, BecomesTyped
  <2>2. crashed' \in BOOLEAN
    BY <1>14 DEF ConfigureFails, MayCrash, TypeOK
  <2> QED BY <1>14, <2>1, <2>2, ReturnTyped DEF ConfigureFails, TypeOK
<1>15. CASE ConfigureMonitor(f)
  <2>1. sessions' \in [Handles -> Session \cup {Null}]
    BY <1>15, ConfigureEffect, BecomesTyped
  <2>2. crashed' \in BOOLEAN
    BY <1>15 DEF ConfigureMonitor, MayCrash, TypeOK
  <2> QED BY <1>15, <2>1, <2>2 DEF ConfigureMonitor, Goto, TypeOK, HoldingMutex
<1>16. CASE MonitorStops(f)
  <2>1. sessions' \in [Handles -> Session \cup {Null}]
    BY <1>16, StopEffect, BecomesTyped
  <2> QED BY <1>16, <2>1 DEF MonitorStops, Goto, TypeOK, HoldingMutex
<1>17. CASE LeaveStart(f)
  <2>1. last_error' \in [Threads -> Codes]
    BY <1>17, SetErrorTyped DEF LeaveStart, TypeOK, Codes
  <2> QED BY <1>17, <2>1, ReturnTyped DEF LeaveStart, TypeOK
<1>18. CASE DestroyUnknown(f)
  BY <1>18 DEF DestroyUnknown, Goto, TypeOK
<1>19. CASE DestroyWithoutMutex(f)
  BY <1>19 DEF DestroyWithoutMutex, TypeOK
<1>20. CASE DestroyFindMutex(f)
  BY <1>20 DEF DestroyFindMutex, Goto, TypeOK
<1>21. CASE DestroyTakeMutex(f)
  BY <1>21 DEF DestroyTakeMutex, Goto, TypeOK, HoldingMutex
<1>22. CASE DestroySession(f)
  BY <1>22 DEF DestroySession, Goto, TypeOK
<1>23. CASE EraseMutex(f)
  <2>1. crashed' \in BOOLEAN
    BY <1>23 DEF EraseMutex, MayCrash, TypeOK
  <2> QED BY <1>23, <2>1, ReturnTyped, SetErrorTyped DEF EraseMutex, TypeOK, Codes
<1> QED
  BY <1>2, <1>3, <1>4, <1>5, <1>6, <1>7, <1>8, <1>9, <1>10, <1>11, <1>12,
     <1>13, <1>14, <1>15, <1>16, <1>17, <1>18, <1>19, <1>20, <1>21, <1>22, <1>23
  DEF ClientStep, LibraryStep, StartStep, DestroyStep

-----------------------------------------------------------------------------
(* The locks.  Every step moves one frame only; what it locks and unlocks   *)
(* agrees with where it goes.                                               *)

(* Steps that end a call under the registry lock. *)
LEMMA EndLocked ==
  ASSUME TypeOK, LockInv, NEW f \in Frames,
         at[f] = "locked", Return(f), session_mutex' = Null, sm' = sm
  PROVE  LockInv'
<1>1. CallShape'
  BY DEF TypeOK, LockInv, CallShape, Return, Goto, HoldingMutex
<1>2. RegistryOwner'
  BY NullAssumption DEF TypeOK, LockInv, RegistryOwner, Return, Goto
<1>3. MutexOwner'
  BY DEF TypeOK, LockInv, MutexOwner, Return, Goto, HoldingMutex
<1> QED
  BY <1>1, <1>2, <1>3 DEF LockInv

(* Steps that unlock the mutex of a session and end the call. *)
LEMMA EndHolding ==
  ASSUME TypeOK, LockInv, NEW f \in Frames,
         at[f] \in HoldingMutex \ {"destroy"}, Return(f),
         sm' = [sm EXCEPT ![handle[f]] = Null], session_mutex' = session_mutex
  PROVE  LockInv'
<1>1. CallShape'
  BY DEF TypeOK, LockInv, CallShape, Return, Goto, HoldingMutex
<1>2. RegistryOwner'
  BY DEF TypeOK, LockInv, RegistryOwner, Return, Goto, HoldingMutex
<1>3. MutexOwner'
  BY NullAssumption DEF TypeOK, LockInv, CallShape, MutexOwner, Return, Goto, HoldingMutex
<1> QED
  BY <1>1, <1>2, <1>3 DEF LockInv

(* Steps that hold the same locks before and after. *)
LEMMA SameLocks ==
  ASSUME TypeOK, LockInv, NEW f \in Frames, NEW label,
         fn' = fn, handle' = handle, session_mutex' = session_mutex, sm' = sm,
         Goto(f, label),
         \/ at[f] = "locked" /\ label = "await_sm" /\ fn[f] \in {"start", "destroy"}
         \/ /\ at[f] \in HoldingMutex \ {"destroy"}
            /\ label \in HoldingMutex \ {"destroy"}
  PROVE  LockInv'
<1>1. CallShape'
  BY DEF TypeOK, LockInv, CallShape, Goto, HoldingMutex
<1>2. RegistryOwner'
  BY DEF TypeOK, LockInv, RegistryOwner, Goto, HoldingMutex
<1>3. MutexOwner'
  BY DEF TypeOK, LockInv, MutexOwner, Goto, HoldingMutex
<1> QED
  BY <1>1, <1>2, <1>3 DEF LockInv

LEMMA LockStep ==
  ASSUME TypeOK, LockInv, [Next]_vars
  PROVE  LockInv'
<1>1. CASE UNCHANGED vars
  BY <1>1 DEF LockInv, CallShape, RegistryOwner, MutexOwner, vars
<1> SUFFICES ASSUME NEW f \in Frames,
                    ClientStep(f) \/ LockRegistry(f) \/ LibraryStep(f) \/ MonitorStops(f)
             PROVE  LockInv'
  BY <1>1 DEF Next, Terminated
<1>2. ASSUME NEW name \in Api, NEW h \in Handles, Call(f, name, h) PROVE LockInv'
  <2>1. CallShape'
    BY <1>2, ApiAssumption
    DEF Call, InClientCode, Goto, TypeOK, LockInv, CallShape, HoldingMutex, Functions, Setters
  <2>2. RegistryOwner'
    BY <1>2 DEF Call, InClientCode, Goto, TypeOK, LockInv, RegistryOwner
  <2>3. MutexOwner'
    BY <1>2 DEF Call, InClientCode, Goto, TypeOK, LockInv, MutexOwner, HoldingMutex
  <2> QED BY <2>1, <2>2, <2>3 DEF LockInv
<1>3. CASE RejectArgument(f)
  BY <1>3 DEF RejectArgument, LockInv, CallShape, RegistryOwner, MutexOwner
<1>4. CASE LockRegistry(f)
  <2>1. CallShape'
    BY <1>4 DEF LockRegistry, Goto, TypeOK, LockInv, CallShape, HoldingMutex
  <2>2. RegistryOwner'
    BY <1>4, NullAssumption DEF LockRegistry, Goto, TypeOK, LockInv, RegistryOwner
  <2>3. MutexOwner'
    BY <1>4 DEF LockRegistry, Goto, TypeOK, LockInv, MutexOwner, HoldingMutex
  <2> QED BY <2>1, <2>2, <2>3 DEF LockInv
<1>5. CASE InitSession(f)
  BY <1>5, EndLocked DEF InitSession, Locked
<1>6. CASE UnknownSession(f)
  BY <1>6, EndLocked DEF UnknownSession, Leave
<1>7. CASE SetterStep(f)
  <2>1. at[f] = "locked" /\ Leave(f, "OK")
    BY <1>7, SetterEffect DEF LockInv
  <2> QED BY <2>1, EndLocked DEF Leave
<1>8. CASE StartRefused(f)
  BY <1>8, EndLocked DEF StartRefused, Leave, Locked
<1>9. CASE StartWithoutMutex(f)
  BY <1>9, EndLocked DEF StartWithoutMutex, Locked
<1>10. CASE StartFindMutex(f)
  BY <1>10, SameLocks DEF StartFindMutex, Locked
<1>11. CASE StartTakeMutex(f)
  <2>1. CallShape'
    BY <1>11 DEF StartTakeMutex, Goto, TypeOK, LockInv, CallShape, HoldingMutex
  <2>2. RegistryOwner'
    BY <1>11, NullAssumption DEF StartTakeMutex, Goto, TypeOK, LockInv, RegistryOwner
  <2>3. MutexOwner'
    BY <1>11, NullAssumption
    DEF StartTakeMutex, Goto, TypeOK, LockInv, CallShape, MutexOwner, HoldingMutex
  <2> QED BY <2>1, <2>2, <2>3 DEF LockInv
<1>12. CASE CreateMonitor(f)
  BY <1>12, SameLocks DEF CreateMonitor, HoldingMutex
<1>13. CASE ConfigureNothing(f)
  BY <1>13 DEF ConfigureNothing, LockInv, CallShape, RegistryOwner, MutexOwner
<1>14. CASE ConfigureFails(f)
  BY <1>14, EndHolding DEF ConfigureFails, HoldingMutex
<1>15. CASE ConfigureMonitor(f)
  BY <1>15, SameLocks DEF ConfigureMonitor, HoldingMutex
<1>16. CASE MonitorStops(f)
  BY <1>16, SameLocks DEF MonitorStops, HoldingMutex
<1>17. CASE LeaveStart(f)
  BY <1>17, EndHolding DEF LeaveStart, HoldingMutex
<1>18. CASE DestroyUnknown(f)
  <2>1. CallShape'
    BY <1>18 DEF DestroyUnknown, Locked, Goto, TypeOK, LockInv, CallShape, HoldingMutex
  <2>2. RegistryOwner'
    BY <1>18, NullAssumption DEF DestroyUnknown, Locked, Goto, TypeOK, LockInv, RegistryOwner
  <2>3. MutexOwner'
    BY <1>18 DEF DestroyUnknown, Locked, Goto, TypeOK, LockInv, MutexOwner, HoldingMutex
  <2> QED BY <2>1, <2>2, <2>3 DEF LockInv
<1>19. CASE DestroyWithoutMutex(f)
  BY <1>19 DEF DestroyWithoutMutex, LockInv, CallShape, RegistryOwner, MutexOwner
<1>20. CASE DestroyFindMutex(f)
  BY <1>20, SameLocks DEF DestroyFindMutex, Locked
<1>21. CASE DestroyTakeMutex(f)
  <2>1. CallShape'
    BY <1>21 DEF DestroyTakeMutex, Goto, TypeOK, LockInv, CallShape, HoldingMutex
  <2>2. RegistryOwner'
    BY <1>21 DEF DestroyTakeMutex, Goto, TypeOK, LockInv, RegistryOwner
  <2>3. MutexOwner'
    BY <1>21, NullAssumption
    DEF DestroyTakeMutex, Goto, TypeOK, LockInv, CallShape, MutexOwner, HoldingMutex
  <2> QED BY <2>1, <2>2, <2>3 DEF LockInv
<1>22. CASE DestroySession(f)
  <2>1. CallShape'
    BY <1>22 DEF DestroySession, Goto, TypeOK, LockInv, CallShape, HoldingMutex
  <2>2. RegistryOwner'
    BY <1>22, NullAssumption DEF DestroySession, Goto, TypeOK, LockInv, RegistryOwner
  <2>3. MutexOwner'
    BY <1>22, NullAssumption
    DEF DestroySession, Goto, TypeOK, LockInv, CallShape, MutexOwner, HoldingMutex
  <2> QED BY <2>1, <2>2, <2>3 DEF LockInv
<1>23. CASE EraseMutex(f)
  <2>1. CallShape'
    BY <1>23 DEF EraseMutex, Return, Goto, TypeOK, LockInv, CallShape, HoldingMutex
  <2>2. RegistryOwner'
    BY <1>23 DEF EraseMutex, Return, Goto, TypeOK, LockInv, RegistryOwner
  <2>3. MutexOwner'
    BY <1>23 DEF EraseMutex, Return, Goto, TypeOK, LockInv, MutexOwner, HoldingMutex
  <2> QED BY <2>1, <2>2, <2>3 DEF LockInv
<1> QED
  BY <1>2, <1>3, <1>4, <1>5, <1>6, <1>7, <1>8, <1>9, <1>10, <1>11, <1>12,
     <1>13, <1>14, <1>15, <1>16, <1>17, <1>18, <1>19, <1>20, <1>21, <1>22, <1>23
  DEF ClientStep, LibraryStep, StartStep, DestroyStep

-----------------------------------------------------------------------------
(* What the locks protect.                                                  *)

(* A monitor belongs to one call at a time: each of two owners is sm[h].    *)
LEMMA LocksExclude == TypeOK /\ LockInv => MonitorExclusive
<1> SUFFICES ASSUME TypeOK, LockInv, NEW f \in Frames, NEW g \in Frames, f # g,
                    at[f] \in HoldingMutex, at[g] \in HoldingMutex
             PROVE  handle[f] # handle[g]
  BY DEF MonitorExclusive
<1>1. handle[f] \in Handles
  BY DEF LockInv, CallShape
<1> QED
  BY <1>1 DEF LockInv, MutexOwner

(* A call that destroys a session is the only one that has got hold of it:  *)
(* the others hold its mutex, or the registry lock while they wait.         *)
LEMMA DestroyerAlone ==
  ASSUME TypeOK, LockInv, NEW f \in Frames, at[f] = "destroy",
         NEW g \in Frames, g # f, at[g] \in HoldingMutex \cup {"await_sm"}
  PROVE  handle[g] # handle[f]
<1>1. CASE at[g] = "await_sm"
  BY <1>1 DEF LockInv, RegistryOwner
<1>2. CASE at[g] \in HoldingMutex
  BY <1>2, LocksExclude DEF MonitorExclusive, HoldingMutex
<1> QED
  BY <1>1, <1>2

(* A step that keeps every live session alive, and takes hold of none that  *)
(* is not, keeps sessions pinned.                                           *)
LEMMA PinnedBy ==
  ASSUME TypeOK, LockInv, SessionPinned, NEW f \in Frames,
         \A h \in Handles : sessions[h] # Null => sessions'[h] # Null,
         \A g \in Frames \ {f} : at'[g] = at[g] /\ handle'[g] = handle[g],
         \/ at'[f] \notin HoldingMutex \cup {"await_sm"}
         \/ handle'[f] = handle[f] /\ handle[f] \in Handles /\ Known(f)
  PROVE  SessionPinned'
  BY DEF LockInv, CallShape, SessionPinned, SessionOf, Known

LEMMA ReturnMoves ==
  ASSUME TypeOK, NEW f \in Frames, Return(f)
  PROVE  /\ \A g \in Frames \ {f} : at'[g] = at[g] /\ handle'[g] = handle[g]
         /\ at'[f] \notin HoldingMutex \cup {"await_sm"}
  BY DEF TypeOK, Return, Goto, HoldingMutex

LEMMA BecomesLive ==
  ASSUME TypeOK, NEW f \in Frames, NEW s, Becomes(f, s)
  PROVE  \A h \in Handles : sessions[h] # Null => sessions'[h] # Null
  BY NullAssumption DEF TypeOK, Becomes

LEMMA PinnedStep ==
  ASSUME TypeOK, LockInv, SessionPinned, [Next]_vars
  PROVE  SessionPinned'
<1>0. CallShape
  BY DEF LockInv
<1>1. CASE UNCHANGED vars
  BY <1>1 DEF SessionPinned, SessionOf, vars
<1> SUFFICES ASSUME NEW f \in Frames,
                    ClientStep(f) \/ LockRegistry(f) \/ LibraryStep(f) \/ MonitorStops(f)
             PROVE  SessionPinned'
  BY <1>1 DEF Next, Terminated
<1>2. ASSUME NEW name \in Api, NEW h \in Handles, Call(f, name, h) PROVE SessionPinned'
  BY <1>2 DEF Call, Goto, TypeOK, SessionPinned, SessionOf, HoldingMutex
<1>3. CASE RejectArgument(f)
  BY <1>3 DEF RejectArgument, SessionPinned, SessionOf
<1>4. CASE LockRegistry(f)
  BY <1>4 DEF LockRegistry, Goto, TypeOK, SessionPinned, SessionOf, HoldingMutex
<1>5. CASE InitSession(f)
  <2>1. PICK h \in Handles, s \in Session : sessions' = [sessions EXCEPT ![h] = s]
    BY <1>5, InitEffect
  <2>2. \A k \in Handles : sessions[k] # Null => sessions'[k] # Null
    BY <2>1, NullAssumption DEF TypeOK
  <2> QED BY <1>5, <2>2, ReturnMoves, PinnedBy DEF InitSession
<1>6. CASE UnknownSession(f)
  BY <1>6, ReturnMoves, PinnedBy DEF UnknownSession, Leave
<1>7. CASE SetterStep(f)
  <2>1. Leave(f, "OK") /\ \E s : Becomes(f, s)
    BY <1>0, <1>7, SetterEffect
  <2> QED BY <2>1, BecomesLive, ReturnMoves, PinnedBy DEF Leave
<1>8. CASE StartRefused(f)
  BY <1>8, ReturnMoves, PinnedBy DEF StartRefused, Leave
<1>9. CASE StartWithoutMutex(f)
  BY <1>9, ReturnMoves, PinnedBy DEF StartWithoutMutex
<1>10. CASE StartFindMutex(f)
  BY <1>0, <1>10 DEF StartFindMutex, Locked, Known, Goto, TypeOK, SessionPinned, SessionOf
<1>11. CASE StartTakeMutex(f)
  BY <1>11 DEF StartTakeMutex, Goto, TypeOK, SessionPinned, SessionOf
<1>12. CASE CreateMonitor(f)
  <2>1. \E s : Becomes(f, s)
    BY <1>0, <1>12, CreateEffect
  <2>2. \A h \in Handles : sessions[h] # Null => sessions'[h] # Null
    BY <2>1, BecomesLive
  <2>3. Known(f) /\ handle[f] \in Handles
    BY <1>0, <1>12, PinnedTyped, NullAssumption DEF CreateMonitor, HoldingMutex, Known
  <2> QED BY <1>12, <2>2, <2>3, PinnedBy DEF CreateMonitor, Goto, TypeOK
<1>13. CASE ConfigureNothing(f)
  BY <1>13 DEF ConfigureNothing, SessionPinned, SessionOf
<1>14. CASE ConfigureFails(f)
  <2>1. \E s : Becomes(f, s)
    BY <1>0, <1>14, ConfigureFailsEffect
  <2> QED BY <1>14, <2>1, BecomesLive, ReturnMoves, PinnedBy DEF ConfigureFails
<1>15. CASE ConfigureMonitor(f)
  <2>1. \E s : Becomes(f, s)
    BY <1>0, <1>15, ConfigureEffect
  <2>2. \A h \in Handles : sessions[h] # Null => sessions'[h] # Null
    BY <2>1, BecomesLive
  <2>3. Known(f) /\ handle[f] \in Handles
    BY <1>0, <1>15, PinnedTyped, NullAssumption DEF ConfigureMonitor, HoldingMutex, Known
  <2> QED BY <1>15, <2>2, <2>3, PinnedBy DEF ConfigureMonitor, Goto, TypeOK
<1>16. CASE MonitorStops(f)
  <2>1. \E s : Becomes(f, s)
    BY <1>0, <1>16, StopEffect
  <2>2. \A h \in Handles : sessions[h] # Null => sessions'[h] # Null
    BY <2>1, BecomesLive
  <2>3. Known(f) /\ handle[f] \in Handles
    BY <1>0, <1>16, PinnedTyped, NullAssumption DEF MonitorStops, HoldingMutex, Known
  <2> QED BY <1>16, <2>2, <2>3, PinnedBy DEF MonitorStops, Goto, TypeOK
<1>17. CASE LeaveStart(f)
  BY <1>17, ReturnMoves, PinnedBy DEF LeaveStart
<1>18. CASE DestroyUnknown(f)
  BY <1>18 DEF DestroyUnknown, Goto, TypeOK, SessionPinned, SessionOf, HoldingMutex
<1>19. CASE DestroyWithoutMutex(f)
  BY <1>19 DEF DestroyWithoutMutex, SessionPinned, SessionOf
<1>20. CASE DestroyFindMutex(f)
  BY <1>0, <1>20 DEF DestroyFindMutex, Locked, Known, Goto, TypeOK, SessionPinned, SessionOf
<1>21. CASE DestroyTakeMutex(f)
  BY <1>21 DEF DestroyTakeMutex, Goto, TypeOK, SessionPinned, SessionOf
<1>22. CASE DestroySession(f)
  <2> SUFFICES ASSUME NEW g \in Frames, at'[g] \in HoldingMutex \cup {"await_sm"}
               PROVE  sessions'[handle'[g]] # Null
    BY DEF SessionPinned, SessionOf
  <2>1. g # f /\ at[g] = at'[g] /\ handle'[g] = handle[g]
    BY <1>22 DEF DestroySession, Goto, TypeOK, HoldingMutex
  <2>2. handle[g] # handle[f]
    BY <1>22, <2>1, DestroyerAlone DEF DestroySession
  <2>3. sessions[handle[g]] # Null /\ handle[g] \in Handles
    BY <1>0, <2>1 DEF SessionPinned, SessionOf, CallShape
  <2> QED BY <1>22, <2>1, <2>2, <2>3 DEF DestroySession, TypeOK
<1>23. CASE EraseMutex(f)
  BY <1>23, ReturnMoves, PinnedBy DEF EraseMutex
<1> QED
  BY <1>2, <1>3, <1>4, <1>5, <1>6, <1>7, <1>8, <1>9, <1>10, <1>11, <1>12,
     <1>13, <1>14, <1>15, <1>16, <1>17, <1>18, <1>19, <1>20, <1>21, <1>22, <1>23
  DEF ClientStep, LibraryStep, StartStep, DestroyStep

-----------------------------------------------------------------------------
(* The running flag.                                                        *)

(* Steps that change neither the flags nor who runs. *)
FlagsKept ==
  \A h \in Handles : sessions'[h] # Null =>
    sessions[h] # Null /\ sessions'[h].running = sessions[h].running

RunnersKept ==
  \A g \in Frames :
    /\ at'[g] = "running" <=> at[g] = "running"
    /\ at[g] = "running" => handle'[g] = handle[g]

LEMMA RunningBy ==
  ASSUME TypeOK, RunningFlagExact, FlagsKept, RunnersKept
  PROVE  RunningFlagExact'
  BY DEF RunningFlagExact, FlagsKept, RunnersKept

LEMMA ReturnRunners ==
  ASSUME TypeOK, NEW f \in Frames, at[f] # "running", Return(f)
  PROVE  RunnersKept
  BY DEF TypeOK, Return, Goto, RunnersKept

LEMMA GotoRunners ==
  ASSUME TypeOK, NEW f \in Frames, at[f] # "running", NEW label, label # "running",
         Goto(f, label), handle' = handle
  PROVE  RunnersKept
  BY DEF TypeOK, Goto, RunnersKept

LEMMA BecomesFlags ==
  ASSUME TypeOK, NEW f \in Frames, NEW s, Becomes(f, s),
         s.running = SessionOf(f).running
  PROVE  FlagsKept
  BY NullAssumption DEF TypeOK, Becomes, SessionOf, FlagsKept

LEMMA SameFlags ==
  ASSUME sessions' = sessions
  PROVE  FlagsKept
  BY DEF FlagsKept

LEMMA RunningStep ==
  ASSUME TypeOK, LockInv, SessionPinned, RunningFlagExact, [Next]_vars
  PROVE  RunningFlagExact'
<1>0. CallShape
  BY DEF LockInv
<1>1. CASE UNCHANGED vars
  BY <1>1 DEF RunningFlagExact, vars
<1> SUFFICES ASSUME NEW f \in Frames,
                    ClientStep(f) \/ LockRegistry(f) \/ LibraryStep(f) \/ MonitorStops(f)
             PROVE  RunningFlagExact'
  BY <1>1 DEF Next, Terminated
<1>2. ASSUME NEW name \in Api, NEW h \in Handles, Call(f, name, h)
      PROVE  RunningFlagExact'
  <2>1. RunnersKept
    BY <1>2 DEF Call, InClientCode, Goto, TypeOK, RunnersKept
  <2> QED BY <1>2, <2>1, SameFlags, RunningBy DEF Call
<1>3. CASE RejectArgument(f)
  BY <1>3 DEF RejectArgument, RunningFlagExact
<1>4. CASE LockRegistry(f)
  BY <1>4, GotoRunners, SameFlags, RunningBy DEF LockRegistry
<1>5. CASE InitSession(f)
  <2>1. PICK h \in Handles, s \in Session :
          sessions[h] = Null /\ sessions' = [sessions EXCEPT ![h] = s] /\ s.running = FALSE
    BY <1>5, InitEffect
  <2>2. RunnersKept
    BY <1>5, ReturnRunners DEF InitSession, Locked
  <2>3. \A g \in Frames : at[g] = "running" => handle[g] # h
    BY <2>1 DEF SessionPinned, SessionOf, HoldingMutex
  <2> SUFFICES ASSUME NEW k \in Handles, sessions'[k] # Null
               PROVE  sessions'[k].running <=>
                        \E g \in Frames : handle'[g] = k /\ at'[g] = "running"
    BY DEF RunningFlagExact
  <2>4. CASE k = h
    BY <2>1, <2>2, <2>3, <2>4 DEF TypeOK, RunnersKept
  <2>5. CASE k # h
    <3>1. sessions'[k] = sessions[k]
      BY <2>1, <2>5 DEF TypeOK
    <3> QED BY <2>2, <3>1 DEF RunningFlagExact, RunnersKept
  <2> QED BY <2>4, <2>5
<1>6. CASE UnknownSession(f)
  BY <1>6, ReturnRunners, SameFlags, RunningBy DEF UnknownSession, Leave
<1>7. CASE SetterStep(f)
  <2>1. at[f] = "locked" /\ Leave(f, "OK")
    BY <1>0, <1>7, SetterEffect
  <2>2. \E s : Becomes(f, s) /\ s.running = SessionOf(f).running
    BY <1>0, <1>7, SetterEffect
  <2> QED BY <2>1, <2>2, BecomesFlags, ReturnRunners, RunningBy DEF Leave
<1>8. CASE StartRefused(f)
  BY <1>8, ReturnRunners, SameFlags, RunningBy DEF StartRefused, Leave, Locked
<1>9. CASE StartWithoutMutex(f)
  BY <1>9, ReturnRunners, SameFlags, RunningBy DEF StartWithoutMutex, Locked
<1>10. CASE StartFindMutex(f)
  BY <1>10, GotoRunners, SameFlags, RunningBy DEF StartFindMutex, Locked
<1>11. CASE StartTakeMutex(f)
  BY <1>11, GotoRunners, SameFlags, RunningBy DEF StartTakeMutex
<1>12. CASE CreateMonitor(f)
  <2>1. \E s : Becomes(f, s) /\ s.running = SessionOf(f).running
    BY <1>0, <1>12, CreateEffect
  <2> QED BY <1>12, <2>1, BecomesFlags, GotoRunners, RunningBy DEF CreateMonitor
<1>13. CASE ConfigureNothing(f)
  BY <1>13 DEF ConfigureNothing, RunningFlagExact
<1>14. CASE ConfigureFails(f)
  <2>1. \E s : Becomes(f, s) /\ s.running = SessionOf(f).running
    BY <1>0, <1>14, ConfigureFailsEffect
  <2> QED BY <1>14, <2>1, BecomesFlags, ReturnRunners, RunningBy DEF ConfigureFails
<1>15. CASE ConfigureMonitor(f)
  <2>1. PICK s : Becomes(f, s) /\ s.running = TRUE
    BY <1>0, <1>15, ConfigureEffect
  <2>2. /\ at' = [at EXCEPT ![f] = "running"]
        /\ handle' = handle
    BY <1>15 DEF ConfigureMonitor, Goto
  <2> QED BY <2>1, <2>2 DEF Becomes, TypeOK, RunningFlagExact
<1>16. CASE MonitorStops(f)
  <2>1. PICK s : Becomes(f, s) /\ s.running = FALSE
    BY <1>0, <1>16, StopEffect
  <2>2. /\ at[f] = "running"
        /\ at' = [at EXCEPT ![f] = "unwind"]
        /\ handle' = handle
    BY <1>16 DEF MonitorStops, Goto
  <2>3. \A g \in Frames : g # f /\ at[g] = "running" => handle[g] # handle[f]
    BY <2>2, LocksExclude DEF MonitorExclusive, HoldingMutex
  <2> QED BY <2>1, <2>2, <2>3 DEF Becomes, TypeOK, RunningFlagExact
<1>17. CASE LeaveStart(f)
  BY <1>17, ReturnRunners, SameFlags, RunningBy DEF LeaveStart
<1>18. CASE DestroyUnknown(f)
  BY <1>18, GotoRunners, SameFlags, RunningBy DEF DestroyUnknown, Locked
<1>19. CASE DestroyWithoutMutex(f)
  BY <1>19 DEF DestroyWithoutMutex, RunningFlagExact
<1>20. CASE DestroyFindMutex(f)
  BY <1>20, GotoRunners, SameFlags, RunningBy DEF DestroyFindMutex, Locked
<1>21. CASE DestroyTakeMutex(f)
  BY <1>21, GotoRunners, SameFlags, RunningBy DEF DestroyTakeMutex
<1>22. CASE DestroySession(f)
  <2>1. FlagsKept
    BY <1>22 DEF DestroySession, FlagsKept, TypeOK
  <2> QED BY <1>22, <2>1, GotoRunners, RunningBy DEF DestroySession
<1>23. CASE EraseMutex(f)
  BY <1>23, ReturnRunners, SameFlags, RunningBy DEF EraseMutex
<1> QED
  BY <1>2, <1>3, <1>4, <1>5, <1>6, <1>7, <1>8, <1>9, <1>10, <1>11, <1>12,
     <1>13, <1>14, <1>15, <1>16, <1>17, <1>18, <1>19, <1>20, <1>21, <1>22, <1>23
  DEF ClientStep, LibraryStep, StartStep, DestroyStep

-----------------------------------------------------------------------------
(* The theorems.                                                            *)

LEMMA InitInductive == Init => IInv
<1> SUFFICES ASSUME Init PROVE IInv
  OBVIOUS
<1>1. TypeOK
  BY InitTyped
<1>2. LockInv
  BY NullAssumption
  DEF Init, LockInv, CallShape, RegistryOwner, MutexOwner, HoldingMutex
<1>3. SessionPinned /\ RunningFlagExact
  BY DEF Init, SessionPinned, RunningFlagExact, HoldingMutex
<1> QED
  BY <1>1, <1>2, <1>3 DEF IInv

LEMMA NextInductive == IInv /\ [Next]_vars => IInv'
<1> SUFFICES ASSUME IInv, [Next]_vars PROVE IInv'
  OBVIOUS
<1>1. TypeOK /\ LockInv /\ SessionPinned /\ RunningFlagExact /\ CallShape
  BY DEF IInv, LockInv
<1> QED
  BY <1>1, TypeStep, LockStep, PinnedStep, RunningStep DEF IInv

(* The inductive invariant: who owns which lock, and what it protects. *)
THEOREM Inductive == Spec => []IInv
  BY InitInductive, NextInductive, PTL DEF Spec

(* Every reachable state of the registry is well typed: in particular a     *)
(* monitor, once created, always has a callback.                            *)
THEOREM TypeCorrect == Spec => []TypeOK
<1>1. IInv => TypeOK
  BY DEF IInv
<1> QED
  BY <1>1, Inductive, PTL

(* At most one call creates, configures, runs or deletes the monitor of a   *)
(* session, for any number of threads and any nesting of callbacks.         *)
THEOREM Exclusion == Spec => []MonitorExclusive
<1>1. IInv => MonitorExclusive
  BY LocksExclude DEF IInv
<1> QED
  BY <1>1, Inductive, PTL

(* The session pointer of a call never dangles. *)
THEOREM Pinned == Spec => []SessionPinned
<1>1. IInv => SessionPinned
  BY DEF IInv
<1> QED
  BY <1>1, Inductive, PTL

(* The running flag is set exactly while a call runs the monitor. *)
THEOREM RunningFlag == Spec => []RunningFlagExact
<1>1. IInv => RunningFlagExact
  BY DEF IInv
<1> QED
  BY <1>1, Inductive, PTL

-----------------------------------------------------------------------------
(* The registry implements the session life cycle.                          *)

(* Nothing runs a session whose mutex a call holds without running it. *)
LEMMA HolderSeesIdle ==
  ASSUME IInv, NEW f \in Frames, at[f] \in HoldingMutex \ {"running"}
  PROVE  /\ handle[f] \in Handles
         /\ SessionOf(f) \in Session
         /\ ~SessionOf(f).running
<1>1. handle[f] \in Handles /\ SessionOf(f) \in Session
  BY PinnedTyped DEF IInv, LockInv
<1>2. \A g \in Frames : at[g] = "running" => handle[g] # handle[f]
  BY LocksExclude DEF IInv, MonitorExclusive, HoldingMutex
<1> QED
  BY <1>1, <1>2, NullAssumption DEF IInv, RunningFlagExact, SessionOf, Session

LEMMA StateTyped == IInv => state \in [Handles -> {"none", "idle", "running"}]
  BY DEF IInv, TypeOK, state, Session

(* A session that becomes s moves its handle to the state of s. *)
LEMMA BecomesMoves ==
  ASSUME IInv, NEW f \in Frames, NEW s, Becomes(f, s)
  PROVE  /\ state[handle[f]] = IF SessionOf(f).running THEN "running" ELSE "idle"
         /\ state' = [state EXCEPT ![handle[f]] = IF s.running THEN "running" ELSE "idle"]
<1>1. /\ handle[f] \in Handles
      /\ SessionOf(f) # Null
      /\ s # Null
      /\ sessions' = [sessions EXCEPT ![handle[f]] = s]
      /\ sessions \in [Handles -> Session \cup {Null}]
  BY NullAssumption DEF Becomes, IInv, TypeOK
<1>2. state[handle[f]] = IF SessionOf(f).running THEN "running" ELSE "idle"
  BY <1>1 DEF state, SessionOf
<1>3. \A h \in Handles : state'[h] =
        [state EXCEPT ![handle[f]] = IF s.running THEN "running" ELSE "idle"][h]
  BY <1>1 DEF state
<1>4. /\ state' = [h \in Handles |-> state'[h]]
      /\ [state EXCEPT ![handle[f]] = IF s.running THEN "running" ELSE "idle"]
           = [h \in Handles |->
                [state EXCEPT ![handle[f]] = IF s.running THEN "running" ELSE "idle"][h]]
  BY DEF state
<1> QED
  BY <1>2, <1>3, <1>4

(* A session whose running flag stays leaves its handle where it is. *)
LEMMA BecomesStutters ==
  ASSUME IInv, NEW f \in Frames, NEW s, Becomes(f, s), s.running = SessionOf(f).running
  PROVE  state' = state
<1>1. state' = [state EXCEPT ![handle[f]] = state[handle[f]]]
  BY BecomesMoves
<1> QED
  BY <1>1, StateTyped

LEMMA LifecycleStep == IInv /\ [Next]_vars => [Lifecycle!Next]_state
<1> SUFFICES ASSUME IInv, [Next]_vars PROVE [Lifecycle!Next]_state
  OBVIOUS
<1>0. TypeOK /\ LockInv /\ SessionPinned /\ RunningFlagExact /\ CallShape
  BY DEF IInv, LockInv
<1>1. CASE sessions' = sessions
  BY <1>1 DEF state
<1> SUFFICES ASSUME NEW f \in Frames, ~crashed,
                    \/ InitSession(f) \/ SetterStep(f) \/ CreateMonitor(f)
                    \/ ConfigureFails(f) \/ ConfigureMonitor(f) \/ MonitorStops(f)
                    \/ DestroySession(f)
             PROVE  [Lifecycle!Next]_state
  BY <1>1
  DEF Next, Terminated, vars, ClientStep, Call, RejectArgument, LockRegistry,
      LibraryStep, UnknownSession, StartStep, StartRefused, StartWithoutMutex,
      StartFindMutex, StartTakeMutex, ConfigureNothing, LeaveStart, DestroyStep,
      DestroyUnknown, DestroyWithoutMutex, DestroyFindMutex, DestroyTakeMutex,
      EraseMutex
<1>2. CASE InitSession(f)
  <2>1. PICK h \in Handles, s \in Session :
          sessions[h] = Null /\ sessions' = [sessions EXCEPT ![h] = s] /\ s.running = FALSE
    BY <1>0, <1>2, InitEffect
  <2>2. state[h] = "none"
    BY <2>1 DEF state
  <2>3. \A k \in Handles : state'[k] = [state EXCEPT ![h] = "idle"][k]
    BY <1>0, <2>1, NullAssumption DEF state, TypeOK
  <2>4. /\ state' = [k \in Handles |-> state'[k]]
        /\ [state EXCEPT ![h] = "idle"]
             = [k \in Handles |-> [state EXCEPT ![h] = "idle"][k]]
    BY DEF state
  <2>5. Lifecycle!Open(h)
    BY <2>2, <2>3, <2>4 DEF Lifecycle!Open, Lifecycle!Move
  <2> QED BY <2>5 DEF Lifecycle!Next
<1>3. CASE SetterStep(f)
  BY <1>0, <1>3, SetterEffect, BecomesStutters
<1>4. CASE CreateMonitor(f)
  BY <1>0, <1>4, CreateEffect, BecomesStutters
<1>5. CASE ConfigureFails(f)
  BY <1>0, <1>5, ConfigureFailsEffect, BecomesStutters
<1>6. CASE ConfigureMonitor(f)
  <2>1. PICK s : Becomes(f, s) /\ s.running = TRUE
    BY <1>0, <1>6, ConfigureEffect
  <2>2. handle[f] \in Handles /\ ~SessionOf(f).running
    BY <1>6, HolderSeesIdle DEF ConfigureMonitor, HoldingMutex
  <2>3. Lifecycle!Start(handle[f])
    BY <2>1, <2>2, BecomesMoves DEF Lifecycle!Start, Lifecycle!Move
  <2> QED BY <2>2, <2>3 DEF Lifecycle!Next
<1>7. CASE MonitorStops(f)
  <2>1. PICK s : Becomes(f, s) /\ s.running = FALSE
    BY <1>0, <1>7, StopEffect
  <2>2. handle[f] \in Handles /\ SessionOf(f).running
    BY <1>0, <1>7, PinnedTyped, NullAssumption
    DEF MonitorStops, HoldingMutex, RunningFlagExact, SessionOf
  <2>3. Lifecycle!Stop(handle[f])
    BY <2>1, <2>2, BecomesMoves DEF Lifecycle!Stop, Lifecycle!Move
  <2> QED BY <2>2, <2>3 DEF Lifecycle!Next
<1>8. CASE DestroySession(f)
  <2>1. /\ handle[f] \in Handles
        /\ SessionOf(f) # Null
        /\ ~SessionOf(f).running
    BY <1>8, HolderSeesIdle, NullAssumption DEF DestroySession, HoldingMutex
  <2>2. sessions' = [sessions EXCEPT ![handle[f]] = Null]
    BY <1>8 DEF DestroySession
  <2>3. state[handle[f]] = "idle"
    BY <2>1 DEF state, SessionOf
  <2>4. \A k \in Handles : state'[k] = [state EXCEPT ![handle[f]] = "none"][k]
    BY <1>0, <2>1, <2>2 DEF state, TypeOK
  <2>5. /\ state' = [k \in Handles |-> state'[k]]
        /\ [state EXCEPT ![handle[f]] = "none"]
             = [k \in Handles |-> [state EXCEPT ![handle[f]] = "none"][k]]
    BY DEF state
  <2>6. Lifecycle!Close(handle[f])
    BY <2>3, <2>4, <2>5 DEF Lifecycle!Close, Lifecycle!Move
  <2> QED BY <2>1, <2>6 DEF Lifecycle!Next
<1> QED
  BY <1>2, <1>3, <1>4, <1>5, <1>6, <1>7, <1>8

LEMMA LifecycleInit == Init => Lifecycle!Init
  BY DEF Init, Lifecycle!Init, state

(* Every behaviour of the registry is a behaviour of the session life       *)
(* cycle: no monitor is started twice, and none is destroyed running.       *)
THEOREM Refinement == Spec => ImplementsLifecycle
<1>1. Spec => Lifecycle!Init /\ [][Lifecycle!Next]_state
  BY Inductive, LifecycleInit, LifecycleStep, PTL DEF Spec
<1> QED
  BY <1>1 DEF ImplementsLifecycle, Lifecycle!Spec
-----------------------------------------------------------------------------
(* Deadlocks.                                                               *)

(* A thread calls the API inside another call only from a callback.         *)
CallsNested ==
  \A t \in Threads : \A m, n \in 1 .. MaxDepth :
    m < n /\ at[<<t, n>>] # "idle" => at[<<t, m>>] = "running"

(* The frames a step may move: one that is called, one whose monitor stops  *)
(* and whose callbacks have returned, and one that is neither outside the   *)
(* library nor in a callback.                                               *)
MayMove(f) ==
  \/ at[f] = "idle" /\ InClientCode(f)
  \/ at[f] = "running" /\ NoNestedCall(f)
  \/ at[f] \notin {"idle", "running"}

LEMMA OneFrameMoves ==
  ASSUME TypeOK, [Next]_vars
  PROVE  at' = at \/ \E f \in Frames : \E label : Goto(f, label) /\ MayMove(f)
<1>1. CASE UNCHANGED vars
  BY <1>1 DEF vars
<1> SUFFICES ASSUME NEW f \in Frames,
                    ClientStep(f) \/ LockRegistry(f) \/ LibraryStep(f) \/ MonitorStops(f)
             PROVE  at' = at \/ \E label : Goto(f, label) /\ MayMove(f)
  BY <1>1 DEF Next, Terminated
<1>2. CASE ClientStep(f)
  BY <1>2 DEF ClientStep, Call, RejectArgument, InClientCode, MayMove
<1>3. CASE LockRegistry(f)
  BY <1>3 DEF LockRegistry, MayMove
<1>4. CASE InitSession(f) \/ UnknownSession(f)
  BY <1>4 DEF InitSession, UnknownSession, Locked, Leave, Return, MayMove
<1>5. CASE SetterStep(f)
  BY <1>5 DEF SetterStep, AddPath, SetCallback, SetLatency, SetRecursive, SetFollowSymlinks,
             AddFilter, Update, Locked, Leave, Return, MayMove
<1>6. CASE StartStep(f)
  BY <1>6 DEF StartStep, StartRefused, StartWithoutMutex, StartFindMutex, StartTakeMutex,
             CreateMonitor, ConfigureNothing, ConfigureFails, ConfigureMonitor, LeaveStart,
             Locked, Leave, Return, MayMove
<1>7. CASE DestroyStep(f)
  BY <1>7 DEF DestroyStep, DestroyUnknown, DestroyWithoutMutex, DestroyFindMutex,
             DestroyTakeMutex, DestroySession, EraseMutex, Locked, Return, MayMove
<1>8. CASE MonitorStops(f)
  BY <1>8 DEF MonitorStops, MayMove
<1> QED
  BY <1>2, <1>3, <1>4, <1>5, <1>6, <1>7, <1>8 DEF LibraryStep

LEMMA NestedStep ==
  ASSUME TypeOK, CallsNested, [Next]_vars
  PROVE  CallsNested'
<1>1. CASE at' = at
  BY <1>1 DEF CallsNested
<1> SUFFICES ASSUME NEW f \in Frames, NEW label, Goto(f, label), MayMove(f)
             PROVE  CallsNested'
  BY <1>1, OneFrameMoves
<1>2. PICK u \in Threads, k \in 1 .. MaxDepth : f = <<u, k>>
  BY DEF Frames
<1>3. MaxDepth \in Nat /\ k \in Nat
  BY ApiAssumption
<1>4. \A n \in 1 .. MaxDepth : k < n => at[<<u, n>>] = "idle"
  <2> SUFFICES ASSUME NEW n \in 1 .. MaxDepth, k < n, at[<<u, n>>] # "idle"
               PROVE  FALSE
    OBVIOUS
  <2>1. at[f] = "running"
    BY <1>2 DEF CallsNested
  <2>2. k + 1 \in 1 .. MaxDepth /\ at[<<u, k + 1>>] = "idle"
    BY <1>2, <1>3, <2>1 DEF MayMove, NoNestedCall
  <2>3. n # k + 1
    BY <2>2
  <2>4. k + 1 < n
    BY <1>3, <2>3
  <2> QED
    BY <2>2, <2>4 DEF CallsNested
<1>5. \A m \in 1 .. MaxDepth : m < k => at[<<u, m>>] = "running"
  <2> SUFFICES ASSUME NEW m \in 1 .. MaxDepth, m < k
               PROVE  at[<<u, m>>] = "running"
    OBVIOUS
  <2>1. CASE at[f] # "idle"
    BY <1>2, <2>1 DEF CallsNested
  <2>2. CASE at[f] = "idle"
    <3>1. k - 1 \in 1 .. MaxDepth /\ at[<<u, k - 1>>] = "running"
      BY <1>2, <1>3, <2>2 DEF MayMove, InClientCode
    <3>2. m = k - 1 \/ m < k - 1
      BY <1>3
    <3> QED
      BY <3>1, <3>2 DEF CallsNested
  <2> QED
    BY <2>1, <2>2
<1>6. \A g \in Frames : g # f => at'[g] = at[g]
  BY DEF Goto, TypeOK
<1>7. ASSUME NEW t \in Threads, NEW m \in 1 .. MaxDepth, NEW n \in 1 .. MaxDepth,
             m < n, at'[<<t, n>>] # "idle"
      PROVE  at'[<<t, m>>] = "running"
  <2>1. <<t, m>> \in Frames /\ <<t, n>> \in Frames /\ m # n
    BY <1>7 DEF Frames
  <2>2. CASE <<t, n>> = f
    BY <1>2, <1>5, <1>6, <1>7, <2>1, <2>2
  <2>3. CASE <<t, n>> # f
    <3>1. at[<<t, n>>] # "idle"
      BY <1>6, <1>7, <2>1, <2>3
    <3>2. <<t, m>> # f
      BY <1>2, <1>4, <1>7, <3>1
    <3> QED
      BY <1>6, <1>7, <2>1, <3>1, <3>2 DEF CallsNested
  <2> QED
    BY <2>2, <2>3
<1> QED
  BY <1>7 DEF CallsNested

(* A thread is in a nested call only while every call below it runs a       *)
(* monitor: no API call is interrupted by another anywhere else.            *)
THEOREM Nesting == Spec => []CallsNested
<1>1. Init => CallsNested
  BY DEF Init, CallsNested, Frames
<1>2. IInv /\ CallsNested /\ [Next]_vars => CallsNested'
  BY NestedStep DEF IInv
<1> QED
  BY <1>1, <1>2, Inductive, PTL DEF Spec

(* A frame that a thread has entered in a call is above a running monitor.  *)
LEMMA BlameStep == IInv /\ CallsNested => CallbackToBlame
<1> SUFFICES ASSUME IInv, CallsNested, NEW f \in Frames, at[f] = "await_sm",
                    sm[handle[f]] # Null
             PROVE  LET holder == sm[handle[f]] IN
                    /\ at[holder] \in {"create", "configure", "running", "unwind"}
                    /\ \/ holder[1] = f[1]
                       \/ \E n \in 1 .. MaxDepth : at[<<holder[1], n>>] = "enter"
                       => at[holder] = "running" /\ ~NoNestedCall(holder)
  BY DEF CallbackToBlame
<1> DEFINE k == sm[handle[f]]
<1>1. handle[f] \in Handles /\ k \in Frames /\ sm[handle[f]] = k
  BY DEF IInv, LockInv, CallShape, TypeOK
<1> HIDE DEF k
<1>2. at[k] \in HoldingMutex
  BY <1>1 DEF IInv, LockInv, MutexOwner
<1>3. at[k] # "destroy"
  <2>1. at[k] = "destroy" => session_mutex = k /\ session_mutex = f
    BY <1>1 DEF IInv, LockInv, RegistryOwner
  <2> QED
    BY <2>1
<1>4. PICK t \in Threads, n \in 1 .. MaxDepth : k = <<t, n>>
  BY <1>1 DEF Frames
<1>5. MaxDepth \in Nat /\ n \in Nat
  BY ApiAssumption
<1>6. ASSUME NEW m \in 1 .. MaxDepth, at[<<t, m>>] \in {"enter", "await_sm"}
      PROVE  at[k] = "running" /\ ~NoNestedCall(k)
  <2>1. m # n
    BY <1>2, <1>4, <1>6 DEF HoldingMutex
  <2>2. ~(m < n)
    <3>1. m < n => at[<<t, m>>] = "running"
      BY <1>2, <1>4 DEF CallsNested, HoldingMutex
    <3> QED
      BY <1>6, <3>1
  <2>3. n < m /\ n + 1 <= m /\ n + 1 \in 1 .. MaxDepth /\ n < MaxDepth
    BY <1>5, <2>1, <2>2
  <2>4. at[k] = "running"
    BY <1>4, <1>6, <2>3 DEF CallsNested
  <2>5. at[<<t, n + 1>>] # "idle"
    <3>1. CASE m = n + 1
      BY <1>6, <3>1
    <3>2. CASE n + 1 < m
      BY <1>6, <2>3, <3>2 DEF CallsNested
    <3> QED
      BY <2>3, <3>1, <3>2
  <2> QED
    BY <1>4, <2>3, <2>4, <2>5 DEF NoNestedCall
<1>7. k[1] = f[1] => \E m \in 1 .. MaxDepth : f = <<t, m>>
  BY <1>4 DEF Frames
<1>8. at[k] \in {"create", "configure", "running", "unwind"}
  BY <1>2, <1>3 DEF HoldingMutex
<1>9. k[1] = f[1] => at[k] = "running" /\ ~NoNestedCall(k)
  BY <1>6, <1>7
<1>10. (\E m \in 1 .. MaxDepth : at[<<k[1], m>>] = "enter")
         => at[k] = "running" /\ ~NoNestedCall(k)
  BY <1>4, <1>6
<1> QED
  BY <1>8, <1>9, <1>10 DEF k

(* The two levels of locks are waited for in a circle only when a callback  *)
(* calls the API, for any number of threads, sessions and nested calls.     *)
THEOREM Blame == Spec => []CallbackToBlame
  BY BlameStep, Inductive, Nesting, PTL

(* So no two calls wait for each other as long as no callback calls the     *)
(* API: what libfswatch.h promises of its thread safety holds there.        *)
THEOREM NoNestingNoDeadlock == MaxDepth = 1 => (Spec => []NoCircularWait)
<1> SUFFICES ASSUME MaxDepth = 1 PROVE Spec => []NoCircularWait
  OBVIOUS
<1>1. CallbackToBlame /\ TypeOK => NoCircularWait
  <2> SUFFICES ASSUME CallbackToBlame, TypeOK,
                      NEW f \in Frames, at[f] = "await_sm", sm[handle[f]] # Null,
                      handle[f] \in Handles
               PROVE  /\ sm[handle[f]][1] # f[1]
                      /\ \A n \in 1 .. MaxDepth : at[<<sm[handle[f]][1], n>>] # "enter"
    BY DEF NoCircularWait
  <2>1. sm[handle[f]] \in Frames
    BY DEF TypeOK
  <2>2. NoNestedCall(sm[handle[f]])
    BY <2>1 DEF Frames, NoNestedCall
  <2> QED
    BY <2>2 DEF CallbackToBlame
<1> QED
  BY <1>1, Blame, TypeCorrect, PTL
=============================================================================
