----------------------------- MODULE FswatchCli -----------------------------
(***************************************************************************)
(* The process of the command line tool (src/fswatch.cpp): main from the    *)
(* options to the running monitor, signal handlers that interrupt it and    *)
(* each other at any step, and exit with what atexit registered.            *)
(***************************************************************************)
EXTENDS Naturals, Sequences

CONSTANTS
  Registered,   \* monitors the factory knows by name
  Names,        \* what -m may be given
  MaxBatches    \* bound: batches of events

ASSUME CliAssumption == Registered \subseteq Names /\ MaxBatches \in Nat

FSW_EXIT_OK == 0
FSW_EXIT_UNK_OPT == 1
FSW_EXIT_LATENCY == 3
FSW_EXIT_ERROR == 5
FSW_EXIT_MONITOR_NAME == 8
FSW_EXIT_FORMAT == 9

ExitCodes == {FSW_EXIT_OK, FSW_EXIT_UNK_OPT, FSW_EXIT_LATENCY, FSW_EXIT_ERROR,
              FSW_EXIT_MONITOR_NAME, FSW_EXIT_FORMAT}

Signals == {"SIGTERM", "SIGABRT", "SIGINT"}
RegisterOrder == <<"SIGTERM", "SIGABRT", "SIGINT">>

(* What the arguments come to.  ends: the first option that ends the        *)
(* program while the options are read; name: the argument of -m, if any;    *)
(* decorated: -t or -x; rejected: set_latency or set_filters throws.        *)
Default == "default"
Options ==
  [ends : {"nothing", "help", "unknown", "latency"}, version : BOOLEAN,
   format : {"none", "valid", "invalid"}, decorated : BOOLEAN,
   oflag : BOOLEAN, one_event : BOOLEAN, paths : BOOLEAN,
   name : Names \cup {Default}, rejected : BOOLEAN]

(* One activity of the process: main or the handler of a signal, where it   *)
(* is, and the code it exits with.                                          *)
Activity(who, pc) == [who |-> who, pc |-> pc, code |-> FSW_EXIT_OK]

VARIABLES
  options,
  stack,           \* activities, each interrupted by the next
  handled,         \* signals with close_handler
  atexits,         \* whether exit has close_stream still to run
  active_monitor,  \* whether the pointer is set
  monitor,         \* the object: none, live, dying (in its destructor), dead
  status,          \* of the process: alive, exited, killed, undefined
  batches          \* batches of events written

vars == <<options, stack, handled, atexits, active_monitor, monitor, status, batches>>

Init ==
  /\ options \in Options
  /\ stack = <<Activity("main", "parse")>>
  /\ handled = {}
  /\ atexits = FALSE
  /\ active_monitor = FALSE
  /\ monitor = "none"
  /\ status = "alive"
  /\ batches = 0

Top == stack[Len(stack)]

At(pc) == status = "alive" /\ Top.pc = pc

Goto(pc) == stack' = [stack EXCEPT ![Len(stack)].pc = pc]

exit(code) ==
  stack' = [stack EXCEPT ![Len(stack)] = [@ EXCEPT !.pc = "exit", !.code = code]]

-----------------------------------------------------------------------------
(* parse_opts, and the checks main makes after it. *)
FormatClash(o) == o.format # "none" /\ (o.decorated \/ o.oflag \/ o.format = "invalid")

(* Mutant: the result of printf_event_validate_format is the exit code. *)
VerdictRaw(o) == IF FormatClash(o) THEN 255 ELSE FSW_EXIT_OK

Verdict(o) ==
  CASE o.ends = "help"    -> FSW_EXIT_OK
    [] o.ends = "unknown" -> FSW_EXIT_UNK_OPT
    [] o.ends = "latency" -> FSW_EXIT_LATENCY
    [] OTHER -> IF o.version THEN FSW_EXIT_OK
                ELSE IF FormatClash(o) THEN FSW_EXIT_FORMAT
                ELSE IF ~o.paths THEN FSW_EXIT_UNK_OPT
                ELSE FSW_EXIT_MONITOR_NAME

exists_type(name) == name \in Registered

Runs(o) ==
  /\ o.ends = "nothing"
  /\ ~o.version
  /\ ~FormatClash(o)
  /\ o.paths
  /\ o.name = Default \/ exists_type(o.name)

ParseOptions ==
  /\ At("parse")
  /\ IF Runs(options) THEN Goto("register") ELSE exit(Verdict(options))
  /\ UNCHANGED <<options, handled, atexits, active_monitor, monitor, status, batches>>

(* register_signal_handlers, one signal after the other. *)
RegisterSignalHandler ==
  /\ At("register")
  /\ \E i \in DOMAIN RegisterOrder :
       /\ handled = {RegisterOrder[k] : k \in 1 .. i - 1}
       /\ handled' = handled \cup {RegisterOrder[i]}
  /\ IF handled' = Signals THEN Goto("atexit") ELSE UNCHANGED stack
  /\ UNCHANGED <<options, atexits, active_monitor, monitor, status, batches>>

(* Mutant: atexit is not called. *)
RegisterNothing ==
  /\ At("atexit")
  /\ Goto("create")
  /\ UNCHANGED <<options, handled, atexits, active_monitor, monitor, status, batches>>

RegisterAtexit ==
  /\ At("atexit")
  /\ atexits' = TRUE
  /\ Goto("create")
  /\ UNCHANGED <<options, handled, active_monitor, monitor, status, batches>>

-----------------------------------------------------------------------------
(* start_monitor.  An exception leaves it and makes main return an error.   *)
CreateMonitor ==
  /\ At("create")
  /\ monitor' = "live"
  /\ Goto("assign")
  /\ UNCHANGED <<options, handled, atexits, active_monitor, status, batches>>

CreateThrows ==
  /\ At("create")
  /\ exit(FSW_EXIT_ERROR)
  /\ UNCHANGED <<options, handled, atexits, active_monitor, monitor, status, batches>>

AssignMonitor ==
  /\ At("assign")
  /\ active_monitor' = TRUE
  /\ Goto("configure")
  /\ UNCHANGED <<options, handled, atexits, monitor, status, batches>>

(* set_latency throws on a negative latency, set_filters on a bad regular   *)
(* expression.                                                              *)
ConfigureMonitor ==
  /\ At("configure")
  /\ IF options.rejected THEN exit(FSW_EXIT_ERROR) ELSE Goto("running")
  /\ UNCHANGED <<options, handled, atexits, active_monitor, monitor, status, batches>>

(* Mutant: the tool goes on after the first set of events. *)
process_events_on ==
  /\ At("running")
  /\ batches < MaxBatches
  /\ batches' = batches + 1
  /\ UNCHANGED <<options, stack, handled, atexits, active_monitor, monitor, status>>

(* The callback: with -o one line for the batch, without it one line for    *)
(* each event and then, with -1, exit.                                      *)
process_events ==
  /\ At("running")
  /\ batches < MaxBatches
  /\ batches' = batches + 1
  /\ IF ~options.oflag /\ options.one_event THEN exit(FSW_EXIT_OK) ELSE UNCHANGED stack
  /\ UNCHANGED <<options, handled, atexits, active_monitor, monitor, status>>

(* The monitor throws. *)
MonitorFails ==
  /\ At("running")
  /\ exit(FSW_EXIT_ERROR)
  /\ UNCHANGED <<options, handled, atexits, active_monitor, monitor, status, batches>>

-----------------------------------------------------------------------------
(* A signal comes.  It is blocked while its own handler runs, which never   *)
(* returns; the others interrupt.                                           *)
Signal(s) ==
  /\ status = "alive"
  /\ \A i \in DOMAIN stack : stack[i].who # s
  /\ IF s \in handled
     THEN stack' = Append(stack, Activity(s, "close")) /\ UNCHANGED status
     ELSE status' = "killed" /\ UNCHANGED stack
  /\ UNCHANGED <<options, handled, atexits, active_monitor, monitor, batches>>

(* close_stream, called by a handler before exit and by exit. *)
TestMonitor ==
  /\ At("close")
  /\ Goto(IF active_monitor THEN "delete" ELSE "exit")
  /\ UNCHANGED <<options, handled, atexits, active_monitor, monitor, status, batches>>

(* To delete an object again, or while it is being deleted, is undefined.   *)
DeleteMonitor ==
  /\ At("delete")
  /\ IF monitor = "live"
     THEN monitor' = "dying" /\ Goto("deleting") /\ UNCHANGED status
     ELSE status' = "undefined" /\ UNCHANGED <<monitor, stack>>
  /\ UNCHANGED <<options, handled, atexits, active_monitor, batches>>

MonitorDeleted ==
  /\ At("deleting")
  /\ monitor' = "dead"
  /\ Goto("clear")
  /\ UNCHANGED <<options, handled, atexits, active_monitor, status, batches>>

(* Mutant: the pointer is not reset. *)
KeepMonitor ==
  /\ At("clear")
  /\ Goto("exit")
  /\ UNCHANGED <<options, handled, atexits, active_monitor, monitor, status, batches>>

ClearMonitor ==
  /\ At("clear")
  /\ active_monitor' = FALSE
  /\ Goto("exit")
  /\ UNCHANGED <<options, handled, atexits, monitor, status, batches>>

(* Mutant: the handler returns to what it interrupted. *)
ReturnFromHandler ==
  /\ At("exit")
  /\ IF Len(stack) > 1
     THEN stack' = SubSeq(stack, 1, Len(stack) - 1) /\ UNCHANGED <<atexits, status>>
     ELSE IF atexits
          THEN atexits' = FALSE /\ Goto("close") /\ UNCHANGED status
          ELSE status' = "exited" /\ UNCHANGED <<atexits, stack>>
  /\ UNCHANGED <<options, handled, active_monitor, monitor, batches>>

(* exit takes a function off the list before it calls it, so that an exit   *)
(* from a handler goes on with the rest.                                    *)
RunExit ==
  /\ At("exit")
  /\ IF atexits
     THEN atexits' = FALSE /\ Goto("close") /\ UNCHANGED status
     ELSE status' = "exited" /\ UNCHANGED <<atexits, stack>>
  /\ UNCHANGED <<options, handled, active_monitor, monitor, batches>>

-----------------------------------------------------------------------------
ProcessStep ==
  \/ ParseOptions
  \/ RegisterSignalHandler
  \/ RegisterAtexit
  \/ CreateMonitor
  \/ CreateThrows
  \/ AssignMonitor
  \/ ConfigureMonitor
  \/ TestMonitor
  \/ DeleteMonitor
  \/ MonitorDeleted
  \/ ClearMonitor
  \/ RunExit

Next ==
  \/ ProcessStep
  \/ process_events
  \/ MonitorFails
  \/ \E s \in Signals : Signal(s)

Spec == Init /\ [][Next]_vars

(* The process runs; events and signals come or not.                        *)
FairSpec == Spec /\ WF_vars(ProcessStep)

-----------------------------------------------------------------------------
(* close_stream is interrupted between its test and its reset. *)
Interrupted == \E i \in 1 .. Len(stack) - 1 : stack[i].pc \in {"delete", "deleting", "clear"}

TypeOK ==
  /\ options \in Options
  /\ stack \in Seq([who : Signals \cup {"main"}, code : ExitCodes,
                    pc : {"parse", "register", "atexit", "create", "assign", "configure",
                          "running", "close", "delete", "deleting", "clear", "exit"}])
  /\ stack # <<>>
  /\ handled \subseteq Signals
  /\ atexits \in BOOLEAN
  /\ active_monitor \in BOOLEAN
  /\ monitor \in {"none", "live", "dying", "dead"}
  /\ status \in {"alive", "exited", "killed", "undefined"}
  /\ batches \in 0 .. MaxBatches

(* The monitor is deleted twice only when a signal interrupts close_stream  *)
(* itself: handlers and atexit may run it any number of times one after the *)
(* other, whatever they interrupt.                                          *)
DeletedOnce == status = "undefined" => Interrupted

(* However the process exits, by itself, by an exception, or by a signal    *)
(* that interrupts an exit, the monitor was deleted, unless a signal came   *)
(* between its creation and its assignment.                                 *)
CleanExit ==
  status = "exited" =>
    monitor \in {"none", "dead"} \/ \E i \in DOMAIN stack : stack[i].pc = "assign"

(* Once a signal is handled the process ends, whatever else comes.          *)
SignalEnds == (Len(stack) > 1) ~> (status # "alive")

(* The process is in a handler, or in exit and what exit calls; then every  *)
(* step of the activity at the top leaves it fewer to go.                   *)
StepsLeft == [close |-> 5, delete |-> 4, deleting |-> 3, clear |-> 2, exit |-> 1]

Ending == Len(stack) > 1 \/ Top.pc \in DOMAIN StepsLeft

Entered == {stack[i].who : i \in DOMAIN stack}

(* A signal is handled that was not before; or close_stream is taken off    *)
(* the list of exit; or the activity at the top goes on.                    *)
Nearer ==
  \/ Entered \subseteq Entered' /\ Entered # Entered'
  \/ Entered' = Entered /\ atexits /\ ~atexits'
  \/ /\ Entered' = Entered
     /\ atexits' = atexits
     /\ StepsLeft[Top'.pc] < StepsLeft[Top.pc]

(* A process that has begun to end does nothing else any more, whatever     *)
(* signals interrupt the handlers and exit: each step brings it nearer to   *)
(* its end in an order that cannot go down for ever, although exit runs     *)
(* close_stream, a handler in the middle of that runs it again, and calls   *)
(* exit itself.                                                             *)
EndAdvances ==
  [][Ending => /\ Top'.pc \in DOMAIN StepsLeft
               /\ status' # "alive" \/ Nearer]_vars

(* "-1: Exit fswatch after the first set of events is received", which the  *)
(* tool does unless -o is given, too.                                       *)
OneEventEnds ==
  (options.one_event /\ ~options.oflag /\ batches > 0) ~> (status # "alive")

(* man fswatch: "When it receives a SIGABRT, SIGINT or SIGTERM signal,      *)
(* fswatch closes the notification streams and exits gracefully returning 0 *)
(* to the calling process."                                                 *)
GracefulExit ==
  handled = Signals /\ Len(stack) > 1 =>
    status \in {"alive", "exited"} /\ Top.code = FSW_EXIT_OK
=============================================================================
