----------------------------- MODULE SessionApi -----------------------------
(***************************************************************************)
(* The C API of libfswatch (c/libfswatch.cpp): the registry of monitor      *)
(* sessions, its locks, and the threads that call the API.                  *)
(*                                                                          *)
(*   session_mutex    guards the registry; every API function locks it      *)
(*   session_mutexes  one mutex per session, held while a monitor is set up *)
(*                    and runs, and while the session is destroyed          *)
(*   running          flag of a session, set while its monitor runs         *)
(*                                                                          *)
(* A callback runs on the thread of fsw_start_monitor and may call the API  *)
(* itself.  A frame <<t, n>> is the n-th nested API call of thread t.       *)
(***************************************************************************)
EXTENDS PathFilter, FiniteSets

CONSTANTS
  Threads,     \* client threads
  MaxDepth,    \* bound: API calls nested through callbacks (1: none nested)
  Handles,     \* the values rand() may return
  Paths,       \* paths a client may add
  Callbacks,   \* callbacks a client may set
  BadFilters,  \* filters whose regular expression does not compile
  Latencies,   \* latencies a client may set; 0 means "not set" to the code
  Types,       \* monitor types a client may ask for
  Supported,   \* those built into the library
  Api,         \* the API functions the clients of this instance call
  MaxFilters,  \* bound: filters of a session, and of a monitor started again
  Null         \* absent session, monitor, callback or lock owner

Setters == {"add_path", "set_callback", "set_latency", "set_recursive",
            "set_follow_symlinks", "add_filter"}
Functions == Setters \cup {"init", "start", "destroy"}

ASSUME ApiAssumption ==
  /\ MaxDepth \in Nat \ {0}
  /\ MaxFilters \in Nat
  /\ BadFilters \subseteq Filters
  /\ Supported \subseteq Types
  /\ Latencies \subseteq Nat
  /\ Api \subseteq Functions

Frames == Threads \X (1 .. MaxDepth)

(* What monitor::create_monitor copies from the session and what the       *)
(* setters of a monitor change.  The callback is kept in the context.      *)
Monitor == [paths: SUBSET Paths, callback: Callbacks, filters: Seq(Filters),
            latency: Nat, recursive: BOOLEAN, follow_symlinks: BOOLEAN]

Session == [type: Types, paths: SUBSET Paths, callback: Callbacks \cup {Null},
            filters: Seq(Filters), latency: Nat, recursive: BOOLEAN,
            follow_symlinks: BOOLEAN, monitor: Monitor \cup {Null},
            running: BOOLEAN]

ASSUME NullAssumption ==
  /\ Null \notin Frames
  /\ Null \notin Handles
  /\ Null \notin Callbacks
  /\ Null \notin Monitor
  /\ Null \notin Session

VARIABLES
  sessions,       \* the sessions map: the session of a handle, or Null
  session_mutex,  \* the frame that owns the registry lock, or Null
  mutexes,        \* the keys of the session_mutexes map
  sm,             \* the frame that owns a session's mutex, or Null
  fn,             \* the API function a frame executes, or "none"
  handle,         \* the handle it was given
  at,             \* how far it got
  last_error,     \* the thread-local last error
  crashed         \* the process died dereferencing a null pointer

vars == <<sessions, session_mutex, mutexes, sm, fn, handle, at, last_error,
          crashed>>

Codes == {"OK", "SESSION_UNKNOWN", "MEMORY", "UNKNOWN_MONITOR_TYPE",
          "CALLBACK_NOT_SET", "PATHS_NOT_SET", "INVALID_ARGUMENT",
          "MONITOR_ALREADY_RUNNING"}

(* The default latency of a monitor, in seconds. *)
DefaultLatency == 1

-----------------------------------------------------------------------------
Init ==
  /\ sessions = [h \in Handles |-> Null]
  /\ session_mutex = Null
  /\ mutexes = {}
  /\ sm = [h \in Handles |-> Null]
  /\ fn = [f \in Frames |-> "none"]
  /\ handle = [f \in Frames |-> Null]
  /\ at = [f \in Frames |-> "idle"]
  /\ last_error = [t \in Threads |-> "OK"]
  /\ crashed = FALSE

Goto(f, label) == at' = [at EXCEPT ![f] = label]

SetError(f, code) == last_error' = [last_error EXCEPT ![f[1]] = code]

(* The call returns to the client. *)
Return(f) ==
  /\ Goto(f, "idle")
  /\ fn' = [fn EXCEPT ![f] = "none"]
  /\ handle' = [handle EXCEPT ![f] = Null]

(* Where a thread may make a call: outside the library, or in the callback  *)
(* of the monitor its enclosing call is running.                            *)
InClientCode(f) ==
  /\ at[f] = "idle"
  /\ f[2] > 1 => at[<<f[1], f[2] - 1>>] = "running"

(* The callbacks below this frame have returned. *)
NoNestedCall(f) == f[2] < MaxDepth => at[<<f[1], f[2] + 1>>] = "idle"

(* The labels between locking and unlocking the mutex of a session. *)
HoldingMutex == {"create", "configure", "running", "unwind", "destroy"}

Locked(f, name) == fn[f] = name /\ at[f] = "locked"
SessionOf(f) == sessions[handle[f]]
Known(f) == SessionOf(f) # Null

(* Bounds of the model, on the calls clients make: a call is not made when  *)
(* it could find no free handle, or MaxFilters filters or more.             *)
Pending(name) == Cardinality({f \in Frames : fn[f] = name})

FiltersOf(h) == IF sessions[h] = Null THEN 0 ELSE Len(sessions[h].filters)

MonitorFilters(h) ==
  IF sessions[h] = Null THEN 0
  ELSE IF sessions[h].monitor = Null THEN 0
  ELSE Len(sessions[h].monitor.filters)

WithinBounds(name, h) ==
  /\ name = "init" =>
       Cardinality({k \in Handles : sessions[k] # Null}) + Pending(name)
         < Cardinality(Handles)
  /\ name = "add_filter" => FiltersOf(h) + Pending(name) < MaxFilters
  /\ name = "start" => MonitorFilters(h) <= MaxFilters

-----------------------------------------------------------------------------
(* Entering the library: a client passes any handle, live, stale or never   *)
(* issued.                                                                  *)
Call(f, name, h) ==
  /\ InClientCode(f)
  /\ WithinBounds(name, h)
  /\ Goto(f, "enter")
  /\ fn' = [fn EXCEPT ![f] = name]
  /\ handle' = [handle EXCEPT ![f] = IF name = "init" THEN Null ELSE h]
  /\ UNCHANGED <<sessions, session_mutex, mutexes, sm, last_error, crashed>>

(* A null path or callback and a negative latency are refused before any    *)
(* lock is taken.                                                           *)
RejectArgument(f) ==
  /\ InClientCode(f)
  /\ Api \cap {"add_path", "set_callback", "set_latency"} # {}
  /\ SetError(f, "INVALID_ARGUMENT")
  /\ UNCHANGED <<sessions, session_mutex, mutexes, sm, fn, handle, at, crashed>>

LockRegistry(f) ==
  /\ at[f] = "enter"
  /\ session_mutex = Null
  /\ session_mutex' = f
  /\ Goto(f, "locked")
  /\ UNCHANGED <<sessions, mutexes, sm, fn, handle, last_error, crashed>>

(* The call ends under the registry lock with this error code. *)
Leave(f, code) ==
  /\ session_mutex' = Null
  /\ Return(f)
  /\ SetError(f, code)
  /\ UNCHANGED <<mutexes, sm, crashed>>

(* fsw_init_session.  A handle is only compared with the live ones: it may  *)
(* be one that was destroyed before.  Its return value is the handle, and   *)
(* it leaves the last error alone.                                          *)
InitSession(f) ==
  /\ Locked(f, "init")
  /\ \E h \in Handles, ty \in Types :
       /\ sessions[h] = Null
       /\ sessions' = [sessions EXCEPT ![h] =
            [type |-> ty, paths |-> {}, callback |-> Null, filters |-> <<>>,
             latency |-> 0, recursive |-> FALSE, follow_symlinks |-> FALSE,
             monitor |-> Null, running |-> FALSE]]
       /\ mutexes' = mutexes \cup {h}
  /\ session_mutex' = Null
  /\ Return(f)
  /\ UNCHANGED <<sm, last_error, crashed>>

(* get_session throws FSW_ERR_SESSION_UNKNOWN; destroy goes on, see below. *)
UnknownSession(f) ==
  /\ at[f] = "locked"
  /\ fn[f] \in Setters \cup {"start"}
  /\ ~Known(f)
  /\ Leave(f, "SESSION_UNKNOWN")
  /\ UNCHANGED sessions

(* The functions that change a session. *)
Update(f, name, session) ==
  /\ Locked(f, name)
  /\ Known(f)
  /\ sessions' = [sessions EXCEPT ![handle[f]] = session]
  /\ Leave(f, "OK")

AddPath(f) ==
  \E p \in Paths :
    Update(f, "add_path",
           [SessionOf(f) EXCEPT !.paths = SessionOf(f).paths \cup {p}])

SetCallback(f) ==
  \E c \in Callbacks :
    Update(f, "set_callback", [SessionOf(f) EXCEPT !.callback = c])

SetLatency(f) ==
  \E l \in Latencies :
    Update(f, "set_latency", [SessionOf(f) EXCEPT !.latency = l])

SetRecursive(f) ==
  \E b \in BOOLEAN :
    Update(f, "set_recursive", [SessionOf(f) EXCEPT !.recursive = b])

SetFollowSymlinks(f) ==
  \E b \in BOOLEAN :
    Update(f, "set_follow_symlinks", [SessionOf(f) EXCEPT !.follow_symlinks = b])

AddFilter(f) ==
  \E x \in Filters :
    Update(f, "add_filter",
           [SessionOf(f) EXCEPT !.filters = Append(SessionOf(f).filters, x)])

(* Every function that only updates its session. *)
SetterStep(f) ==
  \/ AddPath(f)
  \/ SetCallback(f)
  \/ SetLatency(f)
  \/ SetRecursive(f)
  \/ SetFollowSymlinks(f)
  \/ AddFilter(f)

-----------------------------------------------------------------------------
(* fsw_start_monitor *)

(* A monitor of this session is running already. *)
StartRefused(f) ==
  /\ Locked(f, "start")
  /\ Known(f)
  /\ SessionOf(f).running
  /\ Leave(f, "MONITOR_ALREADY_RUNNING")
  /\ UNCHANGED sessions

(* session_mutexes.at throws std::out_of_range, which the handler of        *)
(* fsw_start_monitor, catch (int), lets through to the client.              *)
StartWithoutMutex(f) ==
  /\ Locked(f, "start")
  /\ Known(f)
  /\ ~SessionOf(f).running
  /\ handle[f] \notin mutexes
  /\ session_mutex' = Null
  /\ Return(f)
  /\ UNCHANGED <<sessions, mutexes, sm, last_error, crashed>>

(* The mutex of the session is found; the registry stays locked.            *)
StartFindMutex(f) ==
  /\ Locked(f, "start")
  /\ Known(f)
  /\ ~SessionOf(f).running
  /\ handle[f] \in mutexes
  /\ Goto(f, "await_sm")
  /\ UNCHANGED <<sessions, session_mutex, mutexes, sm, fn, handle, last_error,
                 crashed>>

(* Mutant: the registry lock is thought to be enough. *)
StartTakeMutexHeld(f) ==
  /\ fn[f] = "start"
  /\ at[f] = "await_sm"
  /\ sm' = [sm EXCEPT ![handle[f]] = f]
  /\ session_mutex' = Null
  /\ Goto(f, "create")
  /\ UNCHANGED <<sessions, mutexes, fn, handle, last_error, crashed>>

(* It is locked, and only then is the registry unlocked. *)
StartTakeMutex(f) ==
  /\ fn[f] = "start"
  /\ at[f] = "await_sm"
  /\ sm[handle[f]] = Null
  /\ sm' = [sm EXCEPT ![handle[f]] = f]
  /\ session_mutex' = Null
  /\ Goto(f, "create")
  /\ UNCHANGED <<sessions, mutexes, fn, handle, last_error, crashed>>

(* A setter that holds the registry lock writes the very session this frame *)
(* reads without it: undefined behaviour, which may end the process.        *)
Raced(f) ==
  \E g \in Frames \ {f} :
    at[g] = "locked" /\ fn[g] \in Setters /\ handle[g] = handle[f]

(* create_monitor looks the session up again, now without the registry     *)
(* lock, while another call inserts a session or erases one.                *)
LookupRaced(f) ==
  \E g \in Frames \ {f} :
    (at[g] = "locked" /\ fn[g] = "init") \/ at[g] = "destroy"

(* session_mutexes.erase runs beside calls that use the map under the       *)
(* registry lock and beside other erasures, whatever their handle, or beside *)
(* a call that locks, holds or awaits the very mutex it deletes.            *)
EraseRaced(f) ==
  \E g \in Frames \ {f} :
    \/ at[g] = "locked" /\ fn[g] \in {"init", "start", "destroy"}
    \/ at[g] = "erase"
    \/ at[g] \in HoldingMutex \cup {"await_sm"} /\ handle[g] = handle[f]

MayCrash(raced) == crashed' \in IF raced THEN BOOLEAN ELSE {crashed}

(* Mutant: the callback is not checked. *)
CreateErrorNoCallback(s) ==
  IF s.paths = {} THEN "PATHS_NOT_SET"
  ELSE IF s.type \notin Supported THEN "UNKNOWN_MONITOR_TYPE"
  ELSE "OK"

(* What create_monitor reports when it does not create a monitor. *)
CreateError(s) ==
  IF s.callback = Null THEN "CALLBACK_NOT_SET"
  ELSE IF s.paths = {} THEN "PATHS_NOT_SET"
  ELSE IF s.type \notin Supported THEN "UNKNOWN_MONITOR_TYPE"
  ELSE "OK"

(* create_monitor, called when the session has no monitor.  It copies the   *)
(* paths and the callback; its result is ignored.                           *)
CreateMonitor(f) ==
  LET s == SessionOf(f) IN
  /\ at[f] = "create"
  /\ Goto(f, "configure")
  /\ \/ /\ s.monitor # Null
        /\ UNCHANGED <<sessions, last_error>>
        /\ MayCrash(Raced(f))
     \/ /\ s.monitor = Null
        /\ MayCrash(Raced(f) \/ LookupRaced(f))
        /\ SetError(f, CreateError(s))
        /\ sessions' =
             IF CreateError(s) # "OK" THEN sessions
             ELSE [sessions EXCEPT ![handle[f]].monitor =
                    [paths |-> s.paths, callback |-> s.callback,
                     filters |-> <<>>, latency |-> DefaultLatency,
                     recursive |-> FALSE, follow_symlinks |-> FALSE]]
  /\ UNCHANGED <<session_mutex, mutexes, sm, fn, handle>>

(* Nothing was created: session->monitor is dereferenced all the same. *)
ConfigureNothing(f) ==
  /\ at[f] = "configure"
  /\ SessionOf(f).monitor = Null
  /\ crashed' = TRUE
  /\ UNCHANGED <<sessions, session_mutex, mutexes, sm, fn, handle, at, last_error>>

(* The filters set_filters adds: all of them, or those before the first one *)
(* that does not compile.                                                   *)
Compiles(filters) == \A i \in DOMAIN filters : filters[i] \notin BadFilters

CompiledPrefix(filters, n) ==
  /\ n \in 0 .. Len(filters)
  /\ Compiles(SubSeq(filters, 1, n))
  /\ n < Len(filters) => filters[n + 1] \in BadFilters

(* add_filter throws libfsw_exception, which catch (int) lets through.  The *)
(* filters before the bad one stay in the monitor.                          *)
ConfigureFails(f) ==
  LET s == SessionOf(f) IN
  /\ at[f] = "configure"
  /\ s.monitor # Null
  /\ ~Compiles(s.filters)
  /\ \E n \in 0 .. Len(s.filters) :
       /\ CompiledPrefix(s.filters, n)
       /\ sessions' = [sessions EXCEPT ![handle[f]].monitor.filters =
                         s.monitor.filters \o SubSeq(s.filters, 1, n)]
  /\ sm' = [sm EXCEPT ![handle[f]] = Null]
  /\ Return(f)
  /\ MayCrash(Raced(f))
  /\ UNCHANGED <<session_mutex, mutexes, last_error>>

(* Mutant: a monitor that has filters is given no more. *)
ConfigureMonitorOnce(f) ==
  LET s == SessionOf(f) IN
  /\ at[f] = "configure"
  /\ s.monitor # Null
  /\ Compiles(s.filters)
  /\ sessions' = [sessions EXCEPT ![handle[f]] =
       [s EXCEPT !.running = TRUE,
                 !.monitor.filters = IF s.monitor.filters = <<>> THEN s.filters
                                     ELSE s.monitor.filters]]
  /\ Goto(f, "running")
  /\ MayCrash(Raced(f))
  /\ UNCHANGED <<session_mutex, mutexes, sm, fn, handle, last_error>>

(* The settings of the session are passed on: filters are added to those    *)
(* the monitor has from earlier starts, a latency of 0 is not.  Then the    *)
(* session is flagged and monitor::start is called.                         *)
ConfigureMonitor(f) ==
  LET s == SessionOf(f) IN
  /\ at[f] = "configure"
  /\ s.monitor # Null
  /\ Compiles(s.filters)
  /\ sessions' = [sessions EXCEPT ![handle[f]] =
       [s EXCEPT !.running = TRUE,
                 !.monitor.filters = s.monitor.filters \o s.filters,
                 !.monitor.follow_symlinks = s.follow_symlinks,
                 !.monitor.latency = IF s.latency = 0 THEN s.monitor.latency
                                                      ELSE s.latency,
                 !.monitor.recursive = s.recursive]]
  /\ Goto(f, "running")
  /\ MayCrash(Raced(f))
  /\ UNCHANGED <<session_mutex, mutexes, sm, fn, handle, last_error>>

(* Mutant: the flag is reset by hand, which an exception skips. *)
MonitorStopsThrowing(f) ==
  /\ at[f] = "running"
  /\ NoNestedCall(f)
  /\ \/ sessions' = [sessions EXCEPT ![handle[f]].running = FALSE]
     \/ UNCHANGED sessions
  /\ Goto(f, "unwind")
  /\ UNCHANGED <<session_mutex, mutexes, sm, fn, handle, last_error, crashed>>

(* monitor::start returns or throws; monitor_start_guard resets the flag. *)
MonitorStops(f) ==
  /\ at[f] = "running"
  /\ NoNestedCall(f)
  /\ sessions' = [sessions EXCEPT ![handle[f]].running = FALSE]
  /\ Goto(f, "unwind")
  /\ UNCHANGED <<session_mutex, mutexes, sm, fn, handle, last_error, crashed>>

(* Mutant: the mutex is not unlocked when start fails. *)
LeaveStartLocked(f) ==
  /\ at[f] = "unwind"
  /\ Return(f)
  /\ \/ SetError(f, "OK") /\ sm' = [sm EXCEPT ![handle[f]] = Null]
     \/ SetError(f, "MEMORY") /\ UNCHANGED sm
     \/ UNCHANGED <<last_error, sm>>
  /\ UNCHANGED <<sessions, session_mutex, mutexes, crashed>>

(* The mutex is unlocked.  The last error is the int the monitor threw      *)
(* (the callback proxy throws FSW_ERR_MEMORY), FSW_OK, or what it was when  *)
(* a libfsw_exception escapes.                                              *)
LeaveStart(f) ==
  /\ at[f] = "unwind"
  /\ sm' = [sm EXCEPT ![handle[f]] = Null]
  /\ Return(f)
  /\ \/ \E code \in {"OK", "MEMORY"} : SetError(f, code)
     \/ UNCHANGED last_error
  /\ UNCHANGED <<sessions, session_mutex, mutexes, crashed>>

-----------------------------------------------------------------------------
(* fsw_destroy_session *)

(* The error get_session throws is dropped, and the mutex erased as usual. *)
DestroyUnknown(f) ==
  /\ Locked(f, "destroy")
  /\ ~Known(f)
  /\ session_mutex' = Null
  /\ Goto(f, "erase")
  /\ UNCHANGED <<sessions, mutexes, sm, fn, handle, last_error, crashed>>

(* session_mutexes[handle] default-constructs an entry: a null pointer,     *)
(* which lock_guard dereferences.                                           *)
DestroyWithoutMutex(f) ==
  /\ Locked(f, "destroy")
  /\ Known(f)
  /\ handle[f] \notin mutexes
  /\ crashed' = TRUE
  /\ UNCHANGED <<sessions, session_mutex, mutexes, sm, fn, handle, at, last_error>>

DestroyFindMutex(f) ==
  /\ Locked(f, "destroy")
  /\ Known(f)
  /\ handle[f] \in mutexes
  /\ Goto(f, "await_sm")
  /\ UNCHANGED <<sessions, session_mutex, mutexes, sm, fn, handle, last_error,
                 crashed>>

(* Mutant: the registry lock is thought to be enough. *)
DestroyTakeMutexHeld(f) ==
  /\ fn[f] = "destroy"
  /\ at[f] = "await_sm"
  /\ sm' = [sm EXCEPT ![handle[f]] = f]
  /\ Goto(f, "destroy")
  /\ UNCHANGED <<sessions, session_mutex, mutexes, fn, handle, last_error, crashed>>

(* Here the registry stays locked: this waits until the monitor stops. *)
DestroyTakeMutex(f) ==
  /\ fn[f] = "destroy"
  /\ at[f] = "await_sm"
  /\ sm[handle[f]] = Null
  /\ sm' = [sm EXCEPT ![handle[f]] = f]
  /\ Goto(f, "destroy")
  /\ UNCHANGED <<sessions, session_mutex, mutexes, fn, handle, last_error, crashed>>

(* Monitor and session are deleted and both locks released. *)
DestroySession(f) ==
  /\ at[f] = "destroy"
  /\ sessions' = [sessions EXCEPT ![handle[f]] = Null]
  /\ sm' = [sm EXCEPT ![handle[f]] = Null]
  /\ session_mutex' = Null
  /\ Goto(f, "erase")
  /\ UNCHANGED <<mutexes, fn, handle, last_error, crashed>>

(* The mutex is deleted without any lock.  By now the handle may be in use  *)
(* again; the map is changed beside its other users.                        *)
EraseMutex(f) ==
  /\ at[f] = "erase"
  /\ mutexes' = mutexes \ {handle[f]}
  /\ Return(f)
  /\ SetError(f, "OK")
  /\ MayCrash(EraseRaced(f))
  /\ UNCHANGED <<sessions, session_mutex, sm>>

-----------------------------------------------------------------------------
StartStep(f) ==
  \/ StartRefused(f)
  \/ StartWithoutMutex(f)
  \/ StartFindMutex(f)
  \/ StartTakeMutex(f)
  \/ CreateMonitor(f)
  \/ ConfigureNothing(f)
  \/ ConfigureFails(f)
  \/ ConfigureMonitor(f)
  \/ LeaveStart(f)

DestroyStep(f) ==
  \/ DestroyUnknown(f)
  \/ DestroyWithoutMutex(f)
  \/ DestroyFindMutex(f)
  \/ DestroyTakeMutex(f)
  \/ DestroySession(f)
  \/ EraseMutex(f)

(* The steps a call takes by itself, once it holds the registry lock. *)
LibraryStep(f) ==
  \/ InitSession(f)
  \/ UnknownSession(f)
  \/ SetterStep(f)
  \/ StartStep(f)
  \/ DestroyStep(f)

ClientStep(f) ==
  \/ \E name \in Api, h \in Handles : Call(f, name, h)
  \/ RejectArgument(f)

Terminated == crashed /\ UNCHANGED vars

Next ==
  \/ /\ ~crashed
     /\ \E f \in Frames : \/ ClientStep(f)
                          \/ LockRegistry(f)
                          \/ LibraryStep(f)
                          \/ MonitorStops(f)
  \/ Terminated

Spec == Init /\ [][Next]_vars

(* The scheduler keeps running every thread, and a mutex that is released   *)
(* again and again is granted at last to a thread that waits for it.        *)
(* Clients need not call, and monitors need not stop.                       *)
Fairness ==
  \A f \in Frames : /\ SF_vars(~crashed /\ LockRegistry(f))
                     /\ WF_vars(~crashed /\ LibraryStep(f))

FairSpec == Spec /\ Fairness

-----------------------------------------------------------------------------
TypeOK ==
  /\ sessions \in [Handles -> Session \cup {Null}]
  /\ session_mutex \in Frames \cup {Null}
  /\ mutexes \subseteq Handles
  /\ sm \in [Handles -> Frames \cup {Null}]
  /\ fn \in [Frames -> Functions \cup {"none"}]
  /\ handle \in [Frames -> Handles \cup {Null}]
  /\ at \in [Frames -> {"idle", "enter", "locked", "await_sm", "erase"}
                         \cup HoldingMutex]
  /\ last_error \in [Threads -> Codes]
  /\ crashed \in BOOLEAN

(* A monitor is created, configured, run and deleted by one call at a time, *)
(* although only the mutex of its session says so once the registry is      *)
(* unlocked, and even after that mutex was deleted under it.                *)
MonitorExclusive ==
  \A f, g \in Frames :
    /\ f # g
    /\ at[f] \in HoldingMutex
    /\ at[g] \in HoldingMutex
    => handle[f] # handle[g]

(* The session pointer a call obtained under the registry lock, and uses    *)
(* after releasing it, is never dangling: no other call destroys the        *)
(* session in between, nor while this one waits for the session's mutex.    *)
SessionPinned ==
  \A f \in Frames :
    at[f] \in HoldingMutex \cup {"await_sm"} => SessionOf(f) # Null

(* The running flag tells the truth whatever way a start ends, so a         *)
(* session can be started again after its monitor failed.                   *)
RunningFlagExact ==
  \A h \in Handles :
    sessions[h] # Null =>
      (sessions[h].running <=> \E f \in Frames : handle[f] = h /\ at[f] = "running")

(* Every start adds the filters of the session to those the monitor kept    *)
(* from earlier starts, failed ones included; the monitor nevertheless      *)
(* accepts exactly the paths the filters of the session accept.             *)
FiltersEffective ==
  \A h \in Handles : \A p \in FilterPaths :
    /\ sessions[h] # Null
    /\ sessions'[h] # Null
    /\ ~sessions[h].running
    /\ sessions'[h].running
    => (AcceptPath(sessions'[h].monitor.filters, p)
          <=> AcceptPath(sessions'[h].filters, p))

FiltersEffectiveAlways == [][FiltersEffective]_vars

(* The registry is an implementation of the session life cycle. *)
state == [h \in Handles |-> IF sessions[h] = Null THEN "none"
                            ELSE IF sessions[h].running THEN "running"
                            ELSE "idle"]

Lifecycle == INSTANCE SessionLifecycle WITH state <- state

ImplementsLifecycle == Lifecycle!Spec

(* As long as callbacks make no API calls and every monitor stops some day, *)
(* no call is stuck in the two levels of locks, whatever else is called.    *)
CallsReturn ==
  (\A f \in Frames : []<>(at[f] # "running"))
    => \A f \in Frames : (at[f] = "enter") ~> (at[f] = "idle" \/ crashed)

(* The registry lock and the mutex of a session are waited for in a circle  *)
(* only by fault of a callback.  A call that waits for the mutex, with the  *)
(* registry locked, waits for a start; the thread of that start waits for   *)
(* the registry, or is the very thread that waits for the mutex, only when  *)
(* the monitor runs and its callback has called the API.                    *)
CallbackToBlame ==
  \A f \in Frames :
    LET holder == sm[handle[f]] IN
    at[f] = "await_sm" /\ holder # Null =>
      /\ at[holder] \in {"create", "configure", "running", "unwind"}
      /\ \/ holder[1] = f[1]
         \/ \E n \in 1 .. MaxDepth : at[<<holder[1], n>>] = "enter"
         => at[holder] = "running" /\ ~NoNestedCall(holder)

-----------------------------------------------------------------------------
(* The inductive invariant behind the safety properties, in named parts     *)
(* (SessionApi_proofs.tla).                                                 *)

(* What a frame executes and was given, by how far it got. *)
CallShape ==
  \A f \in Frames :
    /\ at[f] \in HoldingMutex \cup {"await_sm", "erase"} => handle[f] \in Handles
    /\ at[f] \notin {"idle"} /\ fn[f] # "init" => handle[f] \in Handles
    /\ at[f] \in {"create", "configure", "running", "unwind"} => fn[f] = "start"
    /\ at[f] \in {"destroy", "erase"} => fn[f] = "destroy"
    /\ at[f] = "idle" <=> fn[f] = "none"

(* Who owns the registry lock, and who the mutex of a session. *)
RegistryOwner ==
  \A f \in Frames :
    session_mutex = f <=> at[f] \in {"locked", "await_sm", "destroy"}

MutexOwner ==
  \A f \in Frames, h \in Handles :
    sm[h] = f <=> at[f] \in HoldingMutex /\ handle[f] = h

LockInv == CallShape /\ RegistryOwner /\ MutexOwner

IInv == TypeOK /\ LockInv /\ SessionPinned /\ RunningFlagExact

-----------------------------------------------------------------------------
(* What the documentation says and the code does not keep: see README.      *)

(* libfswatch.h: with thread-local storage "this API is thread safe": no    *)
(* two calls wait for each other.  The owner of a session mutex that a call *)
(* awaits, with the registry locked, does not itself wait for the registry  *)
(* in its callback, and is not the thread that awaits.                      *)
NoCircularWait ==
  \A f \in Frames : \A h \in Handles :
    at[f] = "await_sm" /\ handle[f] = h /\ sm[h] # Null =>
      /\ sm[h][1] # f[1]
      /\ \A n \in 1 .. MaxDepth : at[<<sm[h][1], n>>] # "enter"

(* fsw_init_session "Store the handle and a mutex to guard access to        *)
(* session instances": a live session keeps its mutex.                      *)
LiveSessionHasMutex ==
  \A h \in Handles : sessions[h] # Null => h \in mutexes
=============================================================================
