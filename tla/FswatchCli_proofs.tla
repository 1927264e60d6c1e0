-------------------------- MODULE FswatchCli_proofs --------------------------
(***************************************************************************)
(* Proof of how the command line tool ends, for every set of options, every *)
(* monitor and every signal, at whatever step it comes.                     *)
(*                                                                          *)
(* No activity returns to the one it interrupted: what is below the top of  *)
(* the stack stays as it was, and the top has seen no change but its own.   *)
(***************************************************************************)
EXTENDS FswatchCli, SequenceTheorems, TLAPS

Pcs == {"parse", "register", "atexit", "create", "assign", "configure",
        "running", "close", "delete", "deleting", "clear", "exit"}

Frame == [who : Signals \cup {"main"}, code : ExitCodes, pc : Pcs]

Somewhere(pc) == \E i \in DOMAIN stack : stack[i].pc = pc

(* What the activity at the top knows. *)
TopKnows ==
  /\ Top.pc \in {"parse", "register", "atexit", "create"} => monitor = "none"
  /\ Top.pc \in {"assign", "configure", "running"} => monitor = "live"
  /\ Top.pc \in {"create", "assign", "configure", "running"} => atexits
  /\ Top.pc = "delete" => active_monitor
  /\ Top.pc = "deleting" => monitor = "dying"
  /\ Top.pc = "clear" => monitor = "dead"
  /\ Top.pc = "exit" => /\ monitor # "dying"
                        /\ monitor = "live" => atexits \/ Somewhere("assign")

(* The pointer and the object differ only within an activity that is about  *)
(* to bring them together.                                                  *)
MonitorKnown ==
  /\ active_monitor => monitor # "none"
  /\ monitor = "live" /\ ~active_monitor => Somewhere("assign")
  /\ monitor = "dying" => active_monitor /\ Somewhere("deleting")
  /\ monitor = "dead" /\ active_monitor => Somewhere("clear")

IInv ==
  /\ TypeOK
  /\ TopKnows
  /\ MonitorKnown
  /\ DeletedOnce
  /\ CleanExit

-----------------------------------------------------------------------------
LEMMA StackTyped ==
  ASSUME TypeOK
  PROVE  /\ stack \in Seq(Frame) /\ Len(stack) \in Nat \ {0}
         /\ Len(stack) \in DOMAIN stack /\ DOMAIN stack = 1 .. Len(stack)
         /\ Top \in Frame
  <1>1. stack \in Seq(Frame) /\ stack # <<>>
    BY DEF TypeOK, Frame, Pcs
  <1>2. Len(stack) \in Nat \ {0} /\ DOMAIN stack = 1 .. Len(stack)
    BY <1>1, EmptySeq, LenProperties
  <1>3. Len(stack) \in 1 .. Len(stack)
    BY <1>2
  <1> QED
    BY <1>1, <1>2, <1>3, ElementOfSeq DEF Top

(* The top activity comes to pc, the others stay. *)
Comes(pc) ==
  /\ stack' \in Seq(Frame) /\ stack' # <<>>
  /\ Top'.pc = pc
  /\ Somewhere(pc)'
  /\ \A x \in Pcs : Somewhere(x) /\ Top.pc # x => Somewhere(x)'

LEMMA ReplaceTop ==
  ASSUME TypeOK, NEW frame \in Frame, stack' = [stack EXCEPT ![Len(stack)] = frame]
  PROVE  Comes(frame.pc)
  <1> DEFINE n == Len(stack)
  <1>1. /\ stack \in Seq(Frame) /\ n \in Nat \ {0} /\ n \in 1 .. n
        /\ DOMAIN stack = 1 .. n
    BY StackTyped
  <1>2. stack' \in Seq(Frame) /\ Len(stack') = n
    BY <1>1, ExceptSeq
  <1>3. DOMAIN stack' = 1 .. n /\ stack' # <<>>
    BY <1>1, <1>2, LenProperties, EmptySeq
  <1>4. stack'[n] = frame /\ \A i \in 1 .. n : i # n => stack'[i] = stack[i]
    BY <1>1
  <1>5. Top' = frame
    BY <1>2, <1>4 DEF Top
  <1>6. Somewhere(frame.pc)'
    BY <1>1, <1>3, <1>4 DEF Somewhere
  <1>7. ASSUME NEW x \in Pcs, Somewhere(x), Top.pc # x PROVE Somewhere(x)'
    <2>1. PICK i \in 1 .. n : stack[i].pc = x
      BY <1>1, <1>7 DEF Somewhere
    <2>2. i # n
      BY <1>7, <2>1 DEF Top
    <2> QED
      BY <1>3, <1>4, <2>1, <2>2 DEF Somewhere
  <1> QED
    BY <1>2, <1>3, <1>5, <1>6, <1>7 DEF Comes

LEMMA GotoEffect ==
  ASSUME TypeOK, NEW pc \in Pcs, Goto(pc)
  PROVE  Comes(pc)
  <1>1. Top \in Frame /\ Len(stack) \in DOMAIN stack
    BY StackTyped
  <1>2. [Top EXCEPT !.pc = pc] \in Frame /\ [Top EXCEPT !.pc = pc].pc = pc
    BY <1>1 DEF Frame
  <1>3. stack' = [stack EXCEPT ![Len(stack)] = [Top EXCEPT !.pc = pc]]
    BY DEF Goto, Top
  <1>4. Comes([Top EXCEPT !.pc = pc].pc)
    BY <1>2, <1>3, ReplaceTop
  <1> QED
    BY <1>2, <1>4

LEMMA ExitEffect ==
  ASSUME TypeOK, NEW code \in ExitCodes, exit(code)
  PROVE  Comes("exit")
  <1> DEFINE frame == [Top EXCEPT !.pc = "exit", !.code = code]
  <1>1. Top \in Frame
    BY StackTyped
  <1>2. frame \in Frame /\ frame.pc = "exit"
    BY <1>1 DEF Frame, Pcs
  <1>3. stack' = [stack EXCEPT ![Len(stack)] = frame]
    BY DEF exit, Top
  <1>4. Comes(frame.pc)
    BY <1>2, <1>3, ReplaceTop
  <1> QED
    BY <1>2, <1>4

LEMMA VerdictTyped == ASSUME NEW o PROVE Verdict(o) \in ExitCodes
  BY DEF Verdict, ExitCodes

(* The rest of the type invariant, for a step after which the stack is typed. *)
LEMMA StackTypes ==
  ASSUME stack' \in Seq(Frame), stack' # <<>>,
         options' \in Options, handled' \subseteq Signals,
         atexits' \in BOOLEAN, active_monitor' \in BOOLEAN,
         monitor' \in {"none", "live", "dying", "dead"},
         status' \in {"alive", "exited", "killed", "undefined"},
         batches' \in 0 .. MaxBatches
  PROVE  TypeOK'
  BY DEF TypeOK, Frame, Pcs

-----------------------------------------------------------------------------
LEMMA InitHolds == Init => IInv
  <1> SUFFICES ASSUME Init PROVE IInv
    OBVIOUS
  <1>1. Activity("main", "parse") \in Frame
    BY DEF Activity, Frame, Pcs, ExitCodes
  <1>2. stack = <<Activity("main", "parse")>>
    BY DEF Init
  <1>3. stack \in Seq(Frame) /\ stack # <<>>
    BY <1>1, <1>2
  <1>4. Top.pc = "parse"
    BY <1>2 DEF Top, Activity
  <1>5. TypeOK
    <2>1. 0 \in 0 .. MaxBatches
      BY CliAssumption
    <2>2. options \in Options /\ handled = {} /\ atexits = FALSE /\ active_monitor = FALSE
          /\ monitor = "none" /\ status = "alive" /\ batches = 0
      BY DEF Init
    <2> QED
      BY <1>3, <2>1, <2>2 DEF TypeOK, Frame, Pcs
  <1> QED
    BY <1>4, <1>5 DEF Init, IInv, TopKnows, MonitorKnown, DeletedOnce, CleanExit

(* The steps of main before the monitor runs.                               *)
LEMMA StartHolds ==
  ASSUME IInv, \/ ParseOptions \/ RegisterSignalHandler \/ RegisterAtexit
               \/ CreateMonitor \/ CreateThrows \/ AssignMonitor \/ ConfigureMonitor
  PROVE  IInv'
  <1>0. TypeOK
    BY DEF IInv
  <1>1. CASE ParseOptions
    <2>1. (Goto("register") \/ exit(Verdict(options)))
      BY <1>1 DEF ParseOptions
    <2>2. Comes("register") \/ Comes("exit")
      BY <1>0, <2>1, GotoEffect, ExitEffect, VerdictTyped DEF Pcs
    <2>3. TypeOK'
      BY <1>0, <1>1, <2>2, StackTypes DEF ParseOptions, Comes, TypeOK
    <2> QED
      BY <1>1, <2>2, <2>3
      DEF ParseOptions, At, IInv, TopKnows, MonitorKnown, DeletedOnce, CleanExit, Comes
  <1>2. CASE RegisterSignalHandler
    <2>1. Goto("atexit") \/ UNCHANGED stack
      BY <1>2 DEF RegisterSignalHandler
    <2>2. Comes("atexit") \/ UNCHANGED stack
      BY <1>0, <2>1, GotoEffect DEF Pcs
    <2>3. handled' \subseteq Signals
      BY <1>0, <1>2 DEF RegisterSignalHandler, RegisterOrder, Signals, TypeOK
    <2>4. TypeOK'
      BY <1>0, <1>2, <2>2, <2>3, StackTypes, StackTyped DEF RegisterSignalHandler, Comes, TypeOK
    <2> QED
      BY <1>2, <2>2, <2>4
      DEF RegisterSignalHandler, At, IInv, TopKnows, MonitorKnown, DeletedOnce, CleanExit,
          Comes, Top
  <1>3. CASE RegisterAtexit
    <2>1. Comes("create")
      BY <1>0, <1>3, GotoEffect DEF RegisterAtexit, Pcs
    <2>2. TypeOK'
      BY <1>0, <1>3, <2>1, StackTypes DEF RegisterAtexit, Comes, TypeOK
    <2> QED
      BY <1>3, <2>1, <2>2
      DEF RegisterAtexit, At, IInv, TopKnows, MonitorKnown, DeletedOnce, CleanExit, Comes
  <1>4. CASE CreateMonitor
    <2>1. Comes("assign")
      BY <1>0, <1>4, GotoEffect DEF CreateMonitor, Pcs
    <2>2. TypeOK'
      BY <1>0, <1>4, <2>1, StackTypes DEF CreateMonitor, Comes, TypeOK
    <2> QED
      BY <1>4, <2>1, <2>2
      DEF CreateMonitor, At, IInv, TopKnows, MonitorKnown, DeletedOnce, CleanExit, Comes
  <1>5. CASE CreateThrows
    <2>1. Comes("exit")
      BY <1>0, <1>5, ExitEffect DEF CreateThrows, ExitCodes
    <2>2. TypeOK'
      BY <1>0, <1>5, <2>1, StackTypes DEF CreateThrows, Comes, TypeOK
    <2> QED
      BY <1>5, <2>1, <2>2
      DEF CreateThrows, At, IInv, TopKnows, MonitorKnown, DeletedOnce, CleanExit, Comes
  <1>6. CASE AssignMonitor
    <2>1. Comes("configure")
      BY <1>0, <1>6, GotoEffect DEF AssignMonitor, Pcs
    <2>2. TypeOK'
      BY <1>0, <1>6, <2>1, StackTypes DEF AssignMonitor, Comes, TypeOK
    <2> QED
      BY <1>6, <2>1, <2>2
      DEF AssignMonitor, At, IInv, TopKnows, MonitorKnown, DeletedOnce, CleanExit, Comes
  <1>7. CASE ConfigureMonitor
    <2>1. Comes("exit") \/ Comes("running")
      BY <1>0, <1>7, GotoEffect, ExitEffect DEF ConfigureMonitor, Pcs, ExitCodes
    <2>2. TypeOK'
      BY <1>0, <1>7, <2>1, StackTypes DEF ConfigureMonitor, Comes, TypeOK
    <2> QED
      BY <1>7, <2>1, <2>2
      DEF ConfigureMonitor, At, IInv, TopKnows, MonitorKnown, DeletedOnce, CleanExit, Comes,
          Pcs
  <1> QED
    BY <1>1, <1>2, <1>3, <1>4, <1>5, <1>6, <1>7

(* The callback, and a monitor that fails.                                  *)
LEMMA RunHolds ==
  ASSUME IInv, process_events \/ MonitorFails
  PROVE  IInv'
  <1>0. TypeOK
    BY DEF IInv
  <1>1. CASE process_events
    <2>1. Comes("exit") \/ UNCHANGED stack
      BY <1>0, <1>1, ExitEffect DEF process_events, ExitCodes
    <2>2. batches' \in 0 .. MaxBatches
      BY <1>0, <1>1, CliAssumption DEF process_events, TypeOK
    <2>3. TypeOK'
      BY <1>0, <1>1, <2>1, <2>2, StackTypes, StackTyped DEF process_events, Comes, TypeOK
    <2> QED
      BY <1>1, <2>1, <2>3
      DEF process_events, At, IInv, TopKnows, MonitorKnown, DeletedOnce, CleanExit, Comes,
          Pcs, Top, Somewhere
  <1>2. CASE MonitorFails
    <2>1. Comes("exit")
      BY <1>0, <1>2, ExitEffect DEF MonitorFails, ExitCodes
    <2>2. TypeOK'
      BY <1>0, <1>2, <2>1, StackTypes DEF MonitorFails, Comes, TypeOK
    <2> QED
      BY <1>2, <2>1, <2>2
      DEF MonitorFails, At, IInv, TopKnows, MonitorKnown, DeletedOnce, CleanExit, Comes, Pcs
  <1> QED
    BY <1>1, <1>2

(* A signal puts its handler on top of everything.                          *)
LEMMA SignalHolds ==
  ASSUME IInv, NEW s \in Signals, Signal(s)
  PROVE  IInv'
  <1>0. TypeOK
    BY DEF IInv
  <1>1. CASE s \notin handled
    <2>1. /\ status = "alive" /\ status' = "killed"
          /\ UNCHANGED <<options, stack, handled, atexits, active_monitor, monitor, batches>>
      BY <1>1 DEF Signal
    <2> QED
      BY <2>1
      DEF IInv, TypeOK, TopKnows, MonitorKnown, DeletedOnce, CleanExit, Top, Somewhere
  <1>2. CASE s \in handled
    <2> DEFINE frame == Activity(s, "close")
               n == Len(stack)
    <2>1. frame \in Frame /\ frame.pc = "close"
      BY DEF Activity, Frame, Pcs, ExitCodes
    <2>2. stack \in Seq(Frame) /\ n \in Nat \ {0} /\ DOMAIN stack = 1 .. n
      BY <1>0, StackTyped
    <2>3. stack' = Append(stack, frame)
      BY <1>2 DEF Signal
    <2> HIDE DEF frame
    <2>4. /\ stack' \in Seq(Frame) /\ Len(stack') = n + 1
          /\ \A i \in 1 .. n : stack'[i] = stack[i]
          /\ stack'[n + 1] = frame
      BY <2>1, <2>2, <2>3, AppendProperties
    <2>5. stack' # <<>> /\ DOMAIN stack' = 1 .. n + 1
      BY <2>2, <2>4, LenProperties, EmptySeq
    <2>6. Top'.pc = "close"
      BY <2>1, <2>4 DEF Top
    <2>7. \A x \in Pcs : Somewhere(x) => Somewhere(x)'
      BY <2>2, <2>4, <2>5 DEF Somewhere
    <2>8. /\ status = "alive"
          /\ UNCHANGED <<options, status, handled, atexits, active_monitor, monitor, batches>>
      BY <1>2 DEF Signal
    <2>9. TypeOK'
      BY <1>0, <2>4, <2>5, <2>8, StackTypes DEF TypeOK
    <2> QED
      BY <2>6, <2>7, <2>8, <2>9
      DEF IInv, TopKnows, MonitorKnown, DeletedOnce, CleanExit, Pcs
  <1> QED
    BY <1>1, <1>2

(* An activity that is at pc and not at the top was interrupted there.      *)
LEMMA BelowTop ==
  ASSUME TypeOK, NEW pc \in {"delete", "deleting", "clear"}, Somewhere(pc), Top.pc # pc
  PROVE  Interrupted
  <1>1. PICK i \in 1 .. Len(stack) : stack[i].pc = pc
    BY StackTyped DEF Somewhere
  <1>2. i # Len(stack) /\ Len(stack) \in Nat
    BY <1>1, StackTyped DEF Top
  <1>3. i \in 1 .. Len(stack) - 1
    BY <1>2
  <1> QED
    BY <1>1, <1>3 DEF Interrupted

(* close_stream and exit.                                                   *)
LEMMA EndHolds ==
  ASSUME IInv, TestMonitor \/ DeleteMonitor \/ MonitorDeleted \/ ClearMonitor \/ RunExit
  PROVE  IInv'
  <1>0. TypeOK
    BY DEF IInv
  <1>1. CASE TestMonitor
    <2>1. /\ active_monitor => Comes("delete")
          /\ ~active_monitor => Comes("exit")
      BY <1>0, <1>1, GotoEffect DEF TestMonitor, Pcs
    <2>2. TypeOK'
      BY <1>0, <1>1, <2>1, StackTypes DEF TestMonitor, Comes, TypeOK
    <2>3. Top.pc = "close" /\ status = "alive"
      BY <1>1 DEF TestMonitor, At
    <2> QED
      BY <1>1, <2>1, <2>2, <2>3
      DEF TestMonitor, IInv, TopKnows, MonitorKnown, DeletedOnce, CleanExit, Comes, Pcs
  <1>2. CASE DeleteMonitor
    <2>1. Top.pc = "delete" /\ active_monitor /\ status = "alive"
      BY <1>2 DEF DeleteMonitor, At, IInv, TopKnows
    <2>2. CASE monitor = "live"
      <3>1. Comes("deleting")
        BY <1>0, <1>2, <2>2, GotoEffect DEF DeleteMonitor, Pcs
      <3>2. TypeOK'
        BY <1>0, <1>2, <2>2, <3>1, StackTypes DEF DeleteMonitor, Comes, TypeOK
      <3> QED
        BY <1>2, <2>1, <2>2, <3>1, <3>2
        DEF DeleteMonitor, IInv, TopKnows, MonitorKnown, DeletedOnce, CleanExit, Comes
    <2>3. CASE monitor # "live"
      <3>1. Somewhere("deleting") \/ Somewhere("clear")
        BY <1>0, <2>1, <2>3 DEF IInv, MonitorKnown, TypeOK
      <3>2. Interrupted
        BY <1>0, <2>1, <3>1, BelowTop
      <3>3. UNCHANGED <<options, stack, handled, atexits, active_monitor, monitor, batches>>
        BY <1>2, <2>3 DEF DeleteMonitor
      <3>4. status' = "undefined"
        BY <1>2, <2>3 DEF DeleteMonitor
      <3> QED
        BY <3>2, <3>3, <3>4
        DEF IInv, TypeOK, TopKnows, MonitorKnown, DeletedOnce, CleanExit, Top, Somewhere,
            Interrupted
    <2> QED
      BY <2>2, <2>3
  <1>3. CASE MonitorDeleted
    <2>1. Comes("clear")
      BY <1>0, <1>3, GotoEffect DEF MonitorDeleted, Pcs
    <2>2. TypeOK'
      BY <1>0, <1>3, <2>1, StackTypes DEF MonitorDeleted, Comes, TypeOK
    <2> QED
      BY <1>3, <2>1, <2>2
      DEF MonitorDeleted, At, IInv, TopKnows, MonitorKnown, DeletedOnce, CleanExit, Comes
  <1>4. CASE ClearMonitor
    <2>1. Comes("exit")
      BY <1>0, <1>4, GotoEffect DEF ClearMonitor, Pcs
    <2>2. TypeOK'
      BY <1>0, <1>4, <2>1, StackTypes DEF ClearMonitor, Comes, TypeOK
    <2> QED
      BY <1>4, <2>1, <2>2
      DEF ClearMonitor, At, IInv, TopKnows, MonitorKnown, DeletedOnce, CleanExit, Comes
  <1>5. CASE RunExit
    <2>1. Top.pc = "exit" /\ status = "alive"
      BY <1>5 DEF RunExit, At
    <2>2. CASE atexits
      <3>1. Comes("close")
        BY <1>0, <1>5, <2>2, GotoEffect DEF RunExit, Pcs
      <3>2. TypeOK'
        BY <1>0, <1>5, <2>2, <3>1, StackTypes DEF RunExit, Comes, TypeOK
      <3> QED
        BY <1>5, <2>1, <2>2, <3>1, <3>2
        DEF RunExit, IInv, TopKnows, MonitorKnown, DeletedOnce, CleanExit, Comes, Pcs
    <2>3. CASE ~atexits
      <3>1. /\ status' = "exited"
            /\ UNCHANGED <<options, stack, handled, atexits, active_monitor, monitor, batches>>
        BY <1>5, <2>3 DEF RunExit
      <3>2. monitor \in {"none", "dead"} \/ Somewhere("assign")
        BY <1>0, <2>1, <2>3 DEF IInv, TopKnows, TypeOK
      <3> QED
        BY <3>1, <3>2
        DEF IInv, TypeOK, TopKnows, MonitorKnown, DeletedOnce, CleanExit, Top, Somewhere
    <2> QED
      BY <2>2, <2>3
  <1> QED
    BY <1>1, <1>2, <1>3, <1>4, <1>5

LEMMA NextHolds == IInv /\ [Next]_vars => IInv'
  <1> SUFFICES ASSUME IInv, [Next]_vars PROVE IInv'
    OBVIOUS
  <1>1. CASE ProcessStep
    BY <1>1, StartHolds, EndHolds DEF ProcessStep
  <1>2. CASE process_events \/ MonitorFails
    BY <1>2, RunHolds
  <1>3. CASE \E s \in Signals : Signal(s)
    BY <1>3, SignalHolds
  <1>4. CASE UNCHANGED vars
    BY <1>4
    DEF vars, IInv, TypeOK, TopKnows, MonitorKnown, DeletedOnce, CleanExit, Top, Somewhere,
        Interrupted
  <1> QED
    BY <1>1, <1>2, <1>3, <1>4 DEF Next

(* Wherever signals interrupt main, close_stream, exit and each other, the  *)
(* pointer and the object it points to differ only as MonitorKnown says.    *)
THEOREM CliInvariant == Spec => []IInv
  <1> QED
    BY InitHolds, NextHolds, PTL DEF Spec

(* Types.                                                                   *)
THEOREM CliTypeOK == Spec => []TypeOK
  <1>1. IInv => TypeOK
    BY DEF IInv
  <1> QED
    BY <1>1, CliInvariant, PTL

(* The monitor is deleted a second time only if a signal interrupted        *)
(* close_stream between its test and its reset of the pointer.              *)
THEOREM CliDeletedOnce == Spec => []DeletedOnce
  <1>1. IInv => DeletedOnce
    BY DEF IInv
  <1> QED
    BY <1>1, CliInvariant, PTL

(* A process that exits has deleted its monitor, except for a signal that   *)
(* came between the creation and the assignment.                            *)
THEOREM CliCleanExit == Spec => []CleanExit
  <1>1. IInv => CleanExit
    BY DEF IInv
  <1> QED
    BY <1>1, CliInvariant, PTL

-----------------------------------------------------------------------------
(* Why the process ends: only close_stream and exit are ever at the top of  *)
(* another activity, and no step of theirs goes back.                       *)
EndPcs == {"close", "delete", "deleting", "clear", "exit"}

HandlersEnd == Len(stack) > 1 => Top.pc \in EndPcs

LEMMA StepsLeftValues ==
  /\ DOMAIN StepsLeft = EndPcs
  /\ StepsLeft["close"] = 5 /\ StepsLeft["delete"] = 4 /\ StepsLeft["deleting"] = 3
  /\ StepsLeft["clear"] = 2 /\ StepsLeft["exit"] = 1
  BY DEF StepsLeft, EndPcs

(* Goto moves the activity at the top and leaves all that were entered.     *)
LEMMA GotoStays ==
  ASSUME TypeOK, NEW pc \in Pcs, Goto(pc)
  PROVE  /\ Top'.pc = pc
         /\ Len(stack') = Len(stack)
         /\ Entered' = Entered
  <1> DEFINE n == Len(stack)
  <1>1. /\ stack \in Seq(Frame) /\ n \in Nat \ {0} /\ n \in 1 .. n
        /\ DOMAIN stack = 1 .. n /\ stack[n] \in Frame
    BY StackTyped DEF Top
  <1>2. stack' = [stack EXCEPT ![n] = [stack[n] EXCEPT !.pc = pc]]
    BY DEF Goto
  <1>3. [stack[n] EXCEPT !.pc = pc] \in Frame
    BY <1>1 DEF Frame
  <1>4. stack' \in Seq(Frame) /\ Len(stack') = n
    BY <1>1, <1>2, <1>3, ExceptSeq
  <1>5. DOMAIN stack' = 1 .. n
    BY <1>1, <1>2
  <1>6. \A i \in 1 .. n : stack'[i].who = stack[i].who
    BY <1>1, <1>2 DEF Frame
  <1>7. Entered' = Entered
    BY <1>1, <1>5, <1>6 DEF Entered
  <1>8. Top'.pc = pc
    BY <1>4, GotoEffect DEF Comes
  <1> QED
    BY <1>4, <1>7, <1>8

(* A signal that is handled is entered for the first time.                  *)
LEMMA SignalEnters ==
  ASSUME TypeOK, NEW s \in Signals, Signal(s), s \in handled
  PROVE  /\ Top'.pc = "close"
         /\ Entered \subseteq Entered' /\ Entered # Entered'
  <1> DEFINE n == Len(stack)
             frame == Activity(s, "close")
  <1>1. stack \in Seq(Frame) /\ n \in Nat \ {0} /\ DOMAIN stack = 1 .. n
    BY StackTyped
  <1>2. frame \in Frame /\ frame.pc = "close" /\ frame.who = s
    BY DEF Activity, Frame, Pcs, ExitCodes
  <1>3. stack' = Append(stack, frame) /\ \A i \in 1 .. n : stack[i].who # s
    BY <1>1 DEF Signal
  <1> HIDE DEF frame
  <1>4. /\ stack' \in Seq(Frame) /\ Len(stack') = n + 1
        /\ \A i \in 1 .. n : stack'[i] = stack[i]
        /\ stack'[n + 1] = frame
    BY <1>1, <1>2, <1>3, AppendProperties
  <1>5. DOMAIN stack' = 1 .. n + 1
    BY <1>1, <1>4, LenProperties
  <1>6. s \notin Entered
    BY <1>1, <1>3 DEF Entered
  <1>7. s \in Entered'
    BY <1>1, <1>2, <1>4, <1>5 DEF Entered
  <1>8. Entered \subseteq Entered'
    BY <1>1, <1>4, <1>5 DEF Entered
  <1> QED
    BY <1>2, <1>4, <1>6, <1>7, <1>8 DEF Top

(* Every step of close_stream and of exit comes nearer to the end.          *)
LEMMA EndStep ==
  ASSUME IInv, TestMonitor \/ DeleteMonitor \/ MonitorDeleted \/ ClearMonitor \/ RunExit
  PROVE  Top'.pc \in EndPcs /\ (status' # "alive" \/ Nearer)
  <1>0. TypeOK
    BY DEF IInv
  <1>1. ASSUME NEW pc \in Pcs, pc \in EndPcs, Goto(pc), UNCHANGED atexits,
               Top.pc \in EndPcs, StepsLeft[pc] < StepsLeft[Top.pc]
        PROVE  Top'.pc \in EndPcs /\ Nearer
    BY <1>0, <1>1, GotoStays DEF Nearer
  <1>2. CASE TestMonitor
    <2>1. Top.pc = "close" /\ UNCHANGED atexits /\ (Goto("delete") \/ Goto("exit"))
      BY <1>2 DEF TestMonitor, At
    <2> QED
      BY <1>1, <2>1, StepsLeftValues DEF Pcs, EndPcs
  <1>3. CASE DeleteMonitor
    <2>1. Top.pc = "delete" /\ UNCHANGED atexits
      BY <1>3 DEF DeleteMonitor, At
    <2>2. Goto("deleting") \/ (status' = "undefined" /\ UNCHANGED stack)
      BY <1>3 DEF DeleteMonitor
    <2> QED
      BY <1>1, <2>1, <2>2, StepsLeftValues DEF Pcs, EndPcs, Top
  <1>4. CASE MonitorDeleted
    <2>1. Top.pc = "deleting" /\ UNCHANGED atexits /\ Goto("clear")
      BY <1>4 DEF MonitorDeleted, At
    <2> QED
      BY <1>1, <2>1, StepsLeftValues DEF Pcs, EndPcs
  <1>5. CASE ClearMonitor
    <2>1. Top.pc = "clear" /\ UNCHANGED atexits /\ Goto("exit")
      BY <1>5 DEF ClearMonitor, At
    <2> QED
      BY <1>1, <2>1, StepsLeftValues DEF Pcs, EndPcs
  <1>6. CASE RunExit
    <2>1. Top.pc = "exit"
      BY <1>6 DEF RunExit, At
    <2>2. CASE atexits
      <3>1. ~atexits' /\ Goto("close")
        BY <1>6, <2>2 DEF RunExit
      <3>2. Top'.pc = "close" /\ Entered' = Entered
        BY <1>0, <3>1, GotoStays DEF Pcs
      <3> QED
        BY <2>2, <3>1, <3>2 DEF Nearer, EndPcs
    <2>3. CASE ~atexits
      <3>1. status' = "exited" /\ UNCHANGED stack
        BY <1>6, <2>3 DEF RunExit
      <3> QED
        BY <2>1, <3>1 DEF Top, EndPcs
    <2> QED
      BY <2>2, <2>3
  <1> QED
    BY <1>2, <1>3, <1>4, <1>5, <1>6

LEMMA HandlersEndKept == IInv /\ HandlersEnd /\ [Next]_vars => HandlersEnd'
  <1> SUFFICES ASSUME IInv, HandlersEnd, [Next]_vars PROVE HandlersEnd'
    OBVIOUS
  <1>0. TypeOK
    BY DEF IInv
  <1>1. CASE TestMonitor \/ DeleteMonitor \/ MonitorDeleted \/ ClearMonitor \/ RunExit
    BY <1>1, EndStep DEF HandlersEnd
  <1>2. CASE \/ ParseOptions \/ RegisterSignalHandler \/ RegisterAtexit \/ CreateMonitor
             \/ CreateThrows \/ AssignMonitor \/ ConfigureMonitor
             \/ process_events \/ MonitorFails
    <2>1. Top.pc \notin EndPcs
      BY <1>2
      DEF ParseOptions, RegisterSignalHandler, RegisterAtexit, CreateMonitor, CreateThrows,
          AssignMonitor, ConfigureMonitor, process_events, MonitorFails, At, EndPcs
    <2>2. ~(Len(stack) > 1)
      BY <2>1 DEF HandlersEnd
    <2>3. UNCHANGED stack \/ \E frame : stack' = [stack EXCEPT ![Len(stack)] = frame]
      BY <1>2
      DEF ParseOptions, RegisterSignalHandler, RegisterAtexit, CreateMonitor, CreateThrows,
          AssignMonitor, ConfigureMonitor, process_events, MonitorFails, Goto, exit
    <2>4. Len(stack') = Len(stack)
      BY <1>0, <2>3, StackTyped
    <2> QED
      BY <2>2, <2>4 DEF HandlersEnd
  <1>3. ASSUME NEW s \in Signals, Signal(s) PROVE HandlersEnd'
    <2>1. CASE s \in handled
      BY <1>0, <1>3, <2>1, SignalEnters DEF HandlersEnd, EndPcs
    <2>2. CASE s \notin handled
      BY <1>3, <2>2 DEF Signal, HandlersEnd, Top
    <2> QED
      BY <2>1, <2>2
  <1>4. CASE UNCHANGED vars
    BY <1>4 DEF vars, HandlersEnd, Top
  <1> QED
    BY <1>1, <1>2, <1>3, <1>4 DEF Next, ProcessStep

LEMMA EndAdvancesStep ==
  ASSUME IInv, HandlersEnd, [Next]_vars, Ending, vars' # vars
  PROVE  Top'.pc \in DOMAIN StepsLeft /\ (status' # "alive" \/ Nearer)
  <1>0. TypeOK
    BY DEF IInv
  <1>1. Top.pc \in EndPcs
    BY StepsLeftValues DEF Ending, HandlersEnd
  <1>2. CASE TestMonitor \/ DeleteMonitor \/ MonitorDeleted \/ ClearMonitor \/ RunExit
    BY <1>2, EndStep, StepsLeftValues
  <1>3. ASSUME NEW s \in Signals, Signal(s)
        PROVE  Top'.pc \in DOMAIN StepsLeft /\ (status' # "alive" \/ Nearer)
    <2>1. CASE s \in handled
      BY <1>0, <1>3, <2>1, SignalEnters, StepsLeftValues DEF Nearer, EndPcs
    <2>2. CASE s \notin handled
      BY <1>1, <1>3, <2>2, StepsLeftValues DEF Signal, Top
    <2> QED
      BY <2>1, <2>2
  <1>4. CASE \/ ParseOptions \/ RegisterSignalHandler \/ RegisterAtexit \/ CreateMonitor
             \/ CreateThrows \/ AssignMonitor \/ ConfigureMonitor
             \/ process_events \/ MonitorFails
    BY <1>1, <1>4
    DEF ParseOptions, RegisterSignalHandler, RegisterAtexit, CreateMonitor, CreateThrows,
        AssignMonitor, ConfigureMonitor, process_events, MonitorFails, At, EndPcs
  <1> QED
    BY <1>2, <1>3, <1>4 DEF Next, ProcessStep

(* Once a signal is handled, or the tool leaves by itself, no step goes     *)
(* back to the monitor or to anything that was interrupted, and each one    *)
(* comes nearer to the end: the safety part of SignalEnds.                  *)
THEOREM CliEndAdvances == Spec => EndAdvances
  <1>1. Init => HandlersEnd
    BY DEF Init, HandlersEnd, Activity
  <1>2. IInv /\ HandlersEnd /\ [Next]_vars
          => [Ending => /\ Top'.pc \in DOMAIN StepsLeft
                        /\ status' # "alive" \/ Nearer]_vars
    BY EndAdvancesStep
  <1> QED
    BY <1>1, <1>2, HandlersEndKept, CliInvariant, PTL DEF Spec, EndAdvances
=============================================================================
