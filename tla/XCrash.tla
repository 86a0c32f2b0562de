------------------------------- MODULE XCrash -------------------------------
(***************************************************************************)
(* The crash diagnostics of XLog (XLog/xlog.cpp), on Unix: handlers for    *)
(* the signals that end a program.  XSignal's handler only writes the      *)
(* signal into a pipe, and its thread, the reader, calls handleCrash: the  *)
(* crash log, the user's ICrashHandler, then the default action again, and *)
(* the signal once more.  Meanwhile a thread that faulted goes back to the *)
(* instruction and faults again; abort() does not come back; a signal that *)
(* was sent is forgotten by its receiver.                                  *)
(*                                                                         *)
(* The tables of XSignal are here only the set of signals whose object is  *)
(* in the map; module XSignal has the rest.                                *)
(***************************************************************************)
EXTENDS Naturals, Sequences

CONSTANTS
  Threads,      \* threads of the program, each of which meets one signal
  CrashSignals, \* in the order in which they are registered
  Faults,       \* those of an instruction: SIGSEGV, SIGFPE, SIGILL
  Aborts,       \* SIGABRT
  PipeSize,     \* signals the pipe has room for
  MaxSwitches   \* bound: calls of enableCrashDiagnostics

VARIABLES
  process,      \* "alive", or the signal that ended it
  action,       \* of each signal: "handler" or "default"
  registered,   \* signals whose object is in m_signalHandlerMap_
  pipe,
  reader,       \* the thread of SignalAsynchronously
  thread,       \* each thread: "runs", "done", its signal, or "aborts"
  m_crash_diagnostics_,
  switch,       \* enableCrashDiagnostics: signals left, and how far it is with the first
  switches,
  m_crash_handler_,   \* did the user set one?
  logged, told  \* signals whose crash information is out, and those ICrashHandler was told of

system == <<process, action>>
vars == <<system, registered, pipe, reader, thread, m_crash_diagnostics_, switch, switches,
  m_crash_handler_, logged, told>>

SignalSet == {CrashSignals[i] : i \in DOMAIN CrashSignals}
NoSwitch == [left |-> <<>>, pc |-> "idle"]
Waits == [pc |-> "wait", sig |-> "none"]

(* XLog::construct_ has registered all *)
Init ==
  /\ process = "alive" /\ action = [s \in SignalSet |-> "handler"] /\ registered = SignalSet
  /\ pipe = <<>> /\ reader = Waits /\ thread = [t \in Threads |-> "runs"]
  /\ m_crash_diagnostics_ = TRUE /\ switch = NoSwitch /\ switches = 0
  /\ m_crash_handler_ \in BOOLEAN /\ logged = {} /\ told = {}

(* what the system does with a signal: the handler writes, when there is room; or it is the end *)
Deliver(s) ==
  IF action[s] = "handler"
  THEN Len(pipe) < PipeSize /\ pipe' = Append(pipe, s) /\ UNCHANGED process
  ELSE process' = s /\ UNCHANGED pipe

-----------------------------------------------------------------------------
Meet(t, s) ==
  /\ process = "alive" /\ thread[t] = "runs" /\ thread' = [thread EXCEPT ![t] = s]
  /\ UNCHANGED <<system, registered, pipe, reader, m_crash_diagnostics_, switch, switches,
       m_crash_handler_, logged, told>>

After(s) == IF s \in Faults THEN s ELSE IF s \in Aborts THEN "aborts" ELSE "done"

Signal(t) ==
  /\ process = "alive" /\ thread[t] \in SignalSet /\ Deliver(thread[t])
  /\ thread' = [thread EXCEPT ![t] = After(thread[t])]
  /\ UNCHANGED <<action, registered, reader, m_crash_diagnostics_, switch, switches,
       m_crash_handler_, logged, told>>

(* abort() restores the default action and raises again when the handler returns *)
Abort(t) ==
  /\ process = "alive" /\ thread[t] = "aborts" /\ \E s \in Aborts : process' = s
  /\ UNCHANGED <<action, registered, pipe, reader, thread, m_crash_diagnostics_, switch, switches,
       m_crash_handler_, logged, told>>

-----------------------------------------------------------------------------
(* mutant: the default action comes back before there is a crash log *)
UnregisterFirst == <<"unregister", "log", "tell", "raise">>

(* handleCrash *)
HandleCrash == <<"log", "tell", "unregister", "raise">>

Following(step) ==
  CHOOSE next \in {"log", "tell", "unregister", "raise"} :
    \E i \in 1..3 : HandleCrash[i] = step /\ HandleCrash[i + 1] = next

At(step) == process = "alive" /\ reader.pc = step
Goes == reader' = [reader EXCEPT !.pc = Following(reader.pc)]

(* readAndCall *)
Read ==
  /\ At("wait") /\ pipe # <<>> /\ pipe' = Tail(pipe)
  /\ reader' = IF Head(pipe) \in registered THEN [pc |-> HandleCrash[1], sig |-> Head(pipe)] ELSE Waits
  /\ UNCHANGED <<system, registered, thread, m_crash_diagnostics_, switch, switches,
       m_crash_handler_, logged, told>>

(* to standard error in any case, before that to a file of its own if one can be opened *)
WriteCrashLog ==
  /\ At("log") /\ Goes /\ logged' = logged \cup {reader.sig}
  /\ UNCHANGED <<system, registered, pipe, thread, m_crash_diagnostics_, switch, switches, m_crash_handler_, told>>

(* an exception of the user's handler is caught *)
OnCrash ==
  /\ At("tell") /\ Goes /\ told' = IF m_crash_handler_ THEN told \cup {reader.sig} ELSE told
  /\ UNCHANGED <<system, registered, pipe, thread, m_crash_diagnostics_, switch, switches, m_crash_handler_, logged>>

(* XSignal::SignalUnRegister, for a signal that is in the map *)
Unregistered(s) ==
  /\ registered' = registered \ {s}
  /\ action' = IF s \in registered THEN [action EXCEPT ![s] = "default"] ELSE action

Unregister ==
  /\ At("unregister") /\ Goes /\ Unregistered(reader.sig)
  /\ UNCHANGED <<process, pipe, thread, m_crash_diagnostics_, switch, switches, m_crash_handler_, logged, told>>

(* the default action, unless the signal was registered again *)
Raise ==
  /\ At("raise") /\ Deliver(reader.sig) /\ reader' = Waits
  /\ UNCHANGED <<action, registered, thread, m_crash_diagnostics_, switch, switches,
       m_crash_handler_, logged, told>>

-----------------------------------------------------------------------------
(* enableCrashDiagnostics: setupCrashHandlers or removeCrashHandlers, one signal after the other *)
EnableCrashDiagnostics(enable) ==
  /\ process = "alive" /\ switch = NoSwitch /\ switches < MaxSwitches /\ switches' = switches + 1
  /\ m_crash_diagnostics_' = enable
  /\ switch' = [left |-> CrashSignals, pc |-> IF enable THEN "install" ELSE "remove"]
  /\ UNCHANGED <<system, registered, pipe, reader, thread, m_crash_handler_, logged, told>>

NextSignal(pc) ==
  switch' = IF Len(switch.left) = 1 THEN NoSwitch ELSE [left |-> Tail(switch.left), pc |-> pc]

(* construct_ fails for a signal that is in the map *)
Install ==
  /\ process = "alive" /\ switch.pc = "install"
  /\ IF Head(switch.left) \in registered
     THEN NextSignal("install") /\ UNCHANGED action
     ELSE /\ action' = [action EXCEPT ![Head(switch.left)] = "handler"]
          /\ switch' = [switch EXCEPT !.pc = "add"]
  /\ UNCHANGED <<process, registered, pipe, reader, thread, m_crash_diagnostics_, switches,
       m_crash_handler_, logged, told>>

AddHandler ==
  /\ process = "alive" /\ switch.pc = "add" /\ NextSignal("install")
  /\ registered' = registered \cup {Head(switch.left)}
  /\ UNCHANGED <<system, pipe, reader, thread, m_crash_diagnostics_, switches, m_crash_handler_, logged, told>>

Remove ==
  /\ process = "alive" /\ switch.pc = "remove" /\ NextSignal("remove") /\ Unregistered(Head(switch.left))
  /\ UNCHANGED <<process, pipe, reader, thread, m_crash_diagnostics_, switches, m_crash_handler_, logged, told>>

HandlerStep == Read \/ WriteCrashLog \/ OnCrash \/ Unregister \/ Raise

Next ==
  \/ \E t \in Threads : Signal(t) \/ Abort(t) \/ \E s \in SignalSet : Meet(t, s)
  \/ HandlerStep
  \/ \E enable \in BOOLEAN : EnableCrashDiagnostics(enable)
  \/ Install \/ AddHandler \/ Remove

Spec == Init /\ [][Next]_vars

-----------------------------------------------------------------------------
(* A process that a signal ends while the crash diagnostics are on has written its crash
   information (to standard error in any case, to a file if one can be opened) and told the
   user's handler, although the signal comes again and again meanwhile, in several
   threads.  A process that calls abort() need not have: it does not wait for the reader. *)
DiesReported ==
  process # "alive" /\ process \notin Aborts /\ m_crash_diagnostics_ /\ switch = NoSwitch =>
    /\ process \in logged
    /\ m_crash_handler_ => process \in told
=============================================================================
