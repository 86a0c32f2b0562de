----------------------------- MODULE XPartsProofs -----------------------------
(***************************************************************************)
(* What the components of XParts promise, for every value of the constants *)
(* and any number of calls.                                                *)
(***************************************************************************)
EXTENDS XParts, Totals, SequenceTheorems, FiniteSetTheorems

-----------------------------------------------------------------------------
(* The crash diagnostics: XCrash, for all its constants *)
Signals == Crash!SignalSet
Listed == CrashSignals \in Seq(Signals) /\ CrashSignals # <<>>

CrashTypes ==
  /\ disposition \in [Signals -> {"handler", "default"}] /\ registered \subseteq Signals /\ crashPipe \in Seq(Signals)
  /\ crashReader = Crash!Waits \/ (crashReader \in [pc : {"log", "tell", "unregister", "raise"}, sig : Signals])
  /\ m_crash_diagnostics_ \in BOOLEAN
  /\ switch \in [left : Seq(Signals), pc : {"idle", "install", "add", "remove"}]

(* the crash information is written before the user's handler is told, and both before anything is undone *)
Handling ==
  /\ crashReader.pc \in {"tell", "unregister", "raise"} => crashReader.sig \in logged
  /\ crashReader.pc \in {"unregister", "raise"} /\ m_crash_handler_ => crashReader.sig \in told

(* enableCrashDiagnostics has a signal before it, and its first is installed when it is added *)
Left(s) == \E i \in 1..Len(switch.left) : switch.left[i] = s
Switching ==
  /\ switch.pc = "idle" <=> switch = Crash!NoSwitch
  /\ switch.pc # "idle" => switch.left # <<>>
  /\ switch.pc \in {"install", "add"} => m_crash_diagnostics_
  /\ switch.pc = "remove" => ~m_crash_diagnostics_
  /\ switch.pc = "add" => disposition[Head(switch.left)] = "handler" /\ Head(switch.left) \notin registered

Reported(s) == s \in logged /\ (m_crash_handler_ => s \in told)

(* while the diagnostics are on, a signal that would end the process was reported *)
SignalSafe(s) ==
  /\ s \in registered => disposition[s] = "handler"
  /\ m_crash_diagnostics_ /\ ~Left(s) => disposition[s] = "handler" \/ Reported(s)

AliveInv == CrashTypes /\ Handling /\ Switching /\ \A s \in Signals : SignalSafe(s)

CrashInv == (process = "alive" => AliveInv) /\ (process # "alive" => Crash!DiesReported)

-----------------------------------------------------------------------------
(* A signal arrives: the handler, or the end of a process that has reported it. *)
LEMMA Delivered ==
  ASSUME AliveInv, NEW s \in Signals, Crash!Deliver(s),
         UNCHANGED <<disposition, registered, m_crash_diagnostics_, switch, m_crash_handler_, logged, told>>,
         process = "alive", crashReader' = crashReader \/ crashReader' = Crash!Waits
  PROVE  CrashInv'
<1>1. crashPipe' \in Seq(Signals)
  <2>1. crashPipe \in Seq(Signals)
    BY DEF AliveInv, CrashTypes
  <2>2. crashPipe' = crashPipe \/ crashPipe' = Append(crashPipe, s)
    BY DEF Crash!Deliver
  <2> QED BY <2>1, <2>2
<1>2. CrashTypes'
  BY <1>1 DEF AliveInv, CrashTypes
<1>3. Handling'
  <2>1. Crash!Waits.pc = "wait"
    BY DEF Crash!Waits
  <2> QED BY <2>1 DEF AliveInv, Handling
<1>4. Switching' /\ \A r \in Signals : SignalSafe(r)'
  BY DEF AliveInv, Switching, SignalSafe, Left, Reported
<1>5. process' # process => Crash!DiesReported'
  <2> SUFFICES ASSUME process' # process, m_crash_diagnostics_, switch = Crash!NoSwitch
               PROVE  process' \in logged /\ (m_crash_handler_ => process' \in told)
    BY DEF Crash!DiesReported
  <2>1. process' = s /\ disposition[s] # "handler"
    BY DEF Crash!Deliver
  <2>2. ~Left(s)
    BY DEF Left, Crash!NoSwitch
  <2> QED BY <2>1, <2>2 DEF AliveInv, SignalSafe, Reported
<1> QED BY <1>2, <1>3, <1>4, <1>5 DEF AliveInv, CrashInv

(* Meeting a signal, and abort(), which ends the process unreported and is excepted. *)
LEMMA ThreadSteps ==
  ASSUME CrashInv, NEW t \in CrashThreads,
         Crash!Signal(t) \/ Crash!Abort(t) \/ \E s \in Signals : Crash!Meet(t, s)
  PROVE  CrashInv'
<1>0. process = "alive" /\ AliveInv
  BY DEF Crash!Signal, Crash!Abort, Crash!Meet, CrashInv
<1>1. CASE Crash!Signal(t)
  <2>1. PICK s \in Signals : s = thread[t] /\ Crash!Deliver(s)
    BY <1>1 DEF Crash!Signal, Signals
  <2>2. /\ UNCHANGED <<disposition, registered, m_crash_diagnostics_, switch, m_crash_handler_, logged, told>>
        /\ crashReader' = crashReader
    BY <1>1 DEF Crash!Signal
  <2> QED BY <1>0, <2>1, <2>2, Delivered
<1>2. CASE Crash!Abort(t)
  <2>1. /\ UNCHANGED <<disposition, registered, crashPipe, crashReader, m_crash_diagnostics_, switch, m_crash_handler_,
                       logged, told>>
        /\ process' \in Aborts
    BY <1>2 DEF Crash!Abort
  <2>2. AliveInv'
    BY <1>0, <2>1 DEF AliveInv, CrashTypes, Handling, Switching, SignalSafe, Left, Reported
  <2>3. Crash!DiesReported'
    BY <2>1 DEF Crash!DiesReported
  <2> QED BY <2>2, <2>3 DEF CrashInv
<1>3. CASE \E s \in Signals : Crash!Meet(t, s)
  <2>1. /\ UNCHANGED <<disposition, registered, crashPipe, crashReader, m_crash_diagnostics_, switch, m_crash_handler_,
                       logged, told>>
        /\ process' = process
    BY <1>3 DEF Crash!Meet, Crash!system
  <2>2. AliveInv'
    BY <1>0, <2>1 DEF AliveInv, CrashTypes, Handling, Switching, SignalSafe, Left, Reported
  <2> QED BY <1>0, <2>1, <2>2 DEF CrashInv
<1> QED BY <1>1, <1>2, <1>3

(* The steps of handleCrash come one after the other. *)
LEMMA Order ==
  /\ Crash!HandleCrash[1] = "log" /\ Crash!Following("log") = "tell"
  /\ Crash!Following("tell") = "unregister" /\ Crash!Following("unregister") = "raise"
<1>1. /\ Crash!HandleCrash[1] = "log" /\ Crash!HandleCrash[2] = "tell"
      /\ Crash!HandleCrash[3] = "unregister" /\ Crash!HandleCrash[4] = "raise"
  BY DEF Crash!HandleCrash
<1>2. \A i \in 1..3 : i = 1 \/ i = 2 \/ i = 3
  OBVIOUS
<1>3. \A step, next :
        (\E i \in 1..3 : Crash!HandleCrash[i] = step /\ Crash!HandleCrash[i + 1] = next) <=>
          \/ step = "log" /\ next = "tell"
          \/ step = "tell" /\ next = "unregister"
          \/ step = "unregister" /\ next = "raise"
  BY <1>1, <1>2
<1>4. Crash!Following("log") = "tell"
  BY <1>3 DEF Crash!Following
<1>5. Crash!Following("tell") = "unregister"
  BY <1>3 DEF Crash!Following
<1>6. Crash!Following("unregister") = "raise"
  BY <1>3 DEF Crash!Following
<1> QED BY <1>1, <1>4, <1>5, <1>6

(* The crashReader takes a signal, writes the crash information, tells the user's handler, restores the default
   disposition and raises the signal again. *)
LEMMA HandlerSteps ==
  ASSUME CrashInv, Crash!HandlerStep
  PROVE  CrashInv'
<1>0. process = "alive" /\ AliveInv
  BY DEF Crash!HandlerStep, Crash!Read, Crash!WriteCrashLog, Crash!OnCrash, Crash!Unregister, Crash!Raise,
         Crash!At, CrashInv
<1>inv. CrashTypes /\ Handling /\ Switching /\ \A s \in Signals : SignalSafe(s)
  BY <1>0 DEF AliveInv
<1>1. CASE Crash!Raise
  <2>1. crashReader.sig \in Signals /\ Crash!Deliver(crashReader.sig) /\ crashReader' = Crash!Waits
    BY <1>1, <1>inv DEF Crash!Raise, Crash!At, CrashTypes, Crash!Waits
  <2>2. UNCHANGED <<disposition, registered, m_crash_diagnostics_, switch, m_crash_handler_, logged, told>>
    BY <1>1 DEF Crash!Raise
  <2> QED BY <1>0, <2>1, <2>2, Delivered
<1>2. CASE Crash!Read
  <2>1. /\ crashPipe # <<>> /\ crashPipe' = Tail(crashPipe) /\ UNCHANGED process
        /\ UNCHANGED <<disposition, registered, m_crash_diagnostics_, switch, m_crash_handler_, logged, told>>
    BY <1>2 DEF Crash!Read, Crash!system
  <2>2. Head(crashPipe) \in Signals /\ crashPipe' \in Seq(Signals)
    BY <1>inv, <2>1 DEF CrashTypes
  <2>3. crashReader' = Crash!Waits \/ crashReader' = [pc |-> "log", sig |-> Head(crashPipe)]
    BY <1>2, Order DEF Crash!Read
  <2>4. CrashTypes' /\ Handling'
    BY <1>inv, <2>1, <2>2, <2>3 DEF CrashTypes, Handling, Crash!Waits
  <2>5. Switching' /\ \A s \in Signals : SignalSafe(s)'
    BY <1>inv, <2>1 DEF Switching, SignalSafe, Left, Reported
  <2> QED BY <1>0, <2>1, <2>4, <2>5 DEF CrashInv, AliveInv
<1>3. CASE Crash!WriteCrashLog
  <2>1. /\ crashReader.pc = "log" /\ logged' = logged \cup {crashReader.sig} /\ UNCHANGED process
        /\ crashReader' = [crashReader EXCEPT !.pc = "tell"]
        /\ UNCHANGED <<disposition, registered, crashPipe, m_crash_diagnostics_, switch, m_crash_handler_, told>>
    BY <1>3, Order DEF Crash!WriteCrashLog, Crash!At, Crash!Goes, Crash!system
  <2>2. crashReader.sig \in Signals /\ crashReader' = [pc |-> "tell", sig |-> crashReader.sig]
    BY <1>inv, <2>1 DEF CrashTypes, Crash!Waits
  <2>3. CrashTypes' /\ Handling'
    BY <1>inv, <2>1, <2>2 DEF CrashTypes, Handling
  <2>4. Switching' /\ \A s \in Signals : SignalSafe(s)'
    BY <1>inv, <2>1 DEF Switching, SignalSafe, Left, Reported
  <2> QED BY <1>0, <2>1, <2>3, <2>4 DEF CrashInv, AliveInv
<1>4. CASE Crash!OnCrash
  <2>1. /\ crashReader.pc = "tell" /\ told' = (IF m_crash_handler_ THEN told \cup {crashReader.sig} ELSE told)
        /\ crashReader' = [crashReader EXCEPT !.pc = "unregister"] /\ UNCHANGED process
        /\ UNCHANGED <<disposition, registered, crashPipe, m_crash_diagnostics_, switch, m_crash_handler_, logged>>
    BY <1>4, Order DEF Crash!OnCrash, Crash!At, Crash!Goes, Crash!system
  <2>2. crashReader.sig \in Signals /\ crashReader' = [pc |-> "unregister", sig |-> crashReader.sig]
    BY <1>inv, <2>1 DEF CrashTypes, Crash!Waits
  <2>3. CrashTypes' /\ Handling'
    BY <1>inv, <2>1, <2>2 DEF CrashTypes, Handling
  <2>4. Switching' /\ \A s \in Signals : SignalSafe(s)'
    BY <1>inv, <2>1 DEF Switching, SignalSafe, Left, Reported
  <2> QED BY <1>0, <2>1, <2>3, <2>4 DEF CrashInv, AliveInv
<1>5. CASE Crash!Unregister
  <2>1. /\ crashReader.pc = "unregister" /\ crashReader' = [crashReader EXCEPT !.pc = "raise"]
        /\ registered' = registered \ {crashReader.sig}
        /\ disposition' = (IF crashReader.sig \in registered THEN [disposition EXCEPT ![crashReader.sig] = "default"] ELSE disposition)
        /\ UNCHANGED <<process, crashPipe, m_crash_diagnostics_, switch, m_crash_handler_, logged, told>>
    BY <1>5, Order DEF Crash!Unregister, Crash!Unregistered, Crash!At, Crash!Goes
  <2>2. crashReader.sig \in Signals /\ crashReader' = [pc |-> "raise", sig |-> crashReader.sig] /\ Reported(crashReader.sig)
    BY <1>inv, <2>1 DEF CrashTypes, Crash!Waits, Handling, Reported
  <2>3. /\ disposition' \in [Signals -> {"handler", "default"}]
        /\ \A s \in Signals : s # crashReader.sig \/ s \notin registered => disposition'[s] = disposition[s]
    BY <1>inv, <2>1 DEF CrashTypes
  <2>4. CrashTypes' /\ Handling'
    BY <1>inv, <2>1, <2>2, <2>3 DEF CrashTypes, Handling
  <2>5. Switching'
    <3>1. ASSUME switch.pc = "add" PROVE disposition'[Head(switch.left)] = "handler"
      <4>1. /\ switch.left # <<>> /\ switch.left \in Seq(Signals)
            /\ disposition[Head(switch.left)] = "handler" /\ Head(switch.left) \notin registered
        BY <1>inv, <3>1 DEF Switching, CrashTypes
      <4>2. Head(switch.left) \in Signals
        BY <4>1
      <4> QED BY <4>1, <4>2, <2>3
    <3> QED BY <1>inv, <2>1, <3>1 DEF Switching
  <2>6. ASSUME NEW s \in Signals PROVE SignalSafe(s)'
    BY <1>inv, <2>1, <2>2, <2>3 DEF SignalSafe, Left, Reported
  <2> QED BY <1>0, <2>1, <2>4, <2>5, <2>6 DEF CrashInv, AliveInv
<1> QED BY <1>1, <1>2, <1>3, <1>4, <1>5 DEF Crash!HandlerStep

-----------------------------------------------------------------------------
(* enableCrashDiagnostics goes on to the next signal: only the first is no longer before it. *)
LEMMA GoesOn ==
  ASSUME switch \in [left : Seq(Signals), pc : {"idle", "install", "add", "remove"}], switch.left # <<>>,
         NEW pc \in {"install", "remove"}, Crash!NextSignal(pc)
  PROVE  /\ switch' \in [left : Seq(Signals), pc : {"idle", "install", "add", "remove"}]
         /\ switch'.pc = "idle" <=> switch' = Crash!NoSwitch
         /\ switch'.pc # "idle" => switch'.left # <<>> /\ switch'.pc = pc
         /\ \A s \in Signals : ~Left(s)' => ~Left(s) \/ s = Head(switch.left)
<1>1. switch.left \in Seq(Signals) /\ Len(switch.left) \in Nat \ {0}
  OBVIOUS
<1>2. CASE Len(switch.left) = 1
  <2>1. switch' = [left |-> <<>>, pc |-> "idle"]
    BY <1>2 DEF Crash!NextSignal, Crash!NoSwitch
  <2>2. ASSUME NEW s, Left(s) PROVE s = Head(switch.left)
    BY <1>1, <1>2, <2>2 DEF Left
  <2> QED BY <2>1, <2>2 DEF Crash!NoSwitch
<1>3. CASE Len(switch.left) # 1
  <2>1. switch' = [left |-> Tail(switch.left), pc |-> pc]
    BY <1>3 DEF Crash!NextSignal
  <2>2. Tail(switch.left) \in Seq(Signals) /\ Len(Tail(switch.left)) = Len(switch.left) - 1
    BY <1>1
  <2>3. Tail(switch.left) # <<>>
    <3>1. Len(Tail(switch.left)) # 0
      BY <1>1, <1>3, <2>2
    <3> QED BY <3>1
  <2>4. ASSUME NEW s, Left(s), s # Head(switch.left) PROVE Left(s)'
    <3>1. PICK i \in 1..Len(switch.left) : switch.left[i] = s
      BY <2>4 DEF Left
    <3>2. i # 1
      BY <3>1, <2>4, <1>1
    <3>3. i - 1 \in 1..Len(Tail(switch.left)) /\ Tail(switch.left)[i - 1] = s
      BY <3>1, <3>2, <1>1, <2>2
    <3> QED BY <2>1, <3>3 DEF Left
  <2> QED BY <2>1, <2>2, <2>3, <2>4 DEF Crash!NoSwitch
<1> QED BY <1>2, <1>3

(* Switching the diagnostics on makes the unregistered signals go to the handler again, off makes
   the registered ones the end of the process. *)
LEMMA SwitchSteps ==
  ASSUME Listed, CrashInv,
         (\E enable \in BOOLEAN : Crash!EnableCrashDiagnostics(enable)) \/ Crash!Install \/ Crash!AddHandler
           \/ Crash!Remove
  PROVE  CrashInv'
<1>0. process = "alive" /\ AliveInv
  BY DEF Crash!EnableCrashDiagnostics, Crash!Install, Crash!AddHandler, Crash!Remove, CrashInv
<1>inv. CrashTypes /\ Handling /\ Switching /\ \A s \in Signals : SignalSafe(s)
  BY <1>0 DEF AliveInv
<1>1. CASE \E enable \in BOOLEAN : Crash!EnableCrashDiagnostics(enable)
  <2>1. PICK enable \in BOOLEAN : Crash!EnableCrashDiagnostics(enable)
    BY <1>1
  <2>2. /\ m_crash_diagnostics_' = enable
        /\ switch' = [left |-> CrashSignals, pc |-> IF enable THEN "install" ELSE "remove"]
        /\ UNCHANGED <<process, disposition, registered, crashPipe, crashReader, m_crash_handler_, logged, told>>
    BY <2>1 DEF Crash!EnableCrashDiagnostics, Crash!system
  <2>3. CrashTypes' /\ Handling'
    BY <1>inv, <2>2 DEF CrashTypes, Handling, Listed
  <2>4. Switching'
    BY <2>2 DEF Switching, Listed, Crash!NoSwitch
  <2>5. ASSUME NEW s \in Signals PROVE Left(s)'
    <3>1. PICK i \in DOMAIN CrashSignals : CrashSignals[i] = s
      BY DEF Signals, Crash!SignalSet
    <3> QED BY <2>2, <3>1 DEF Left, Listed
  <2>6. ASSUME NEW s \in Signals PROVE SignalSafe(s)'
    BY <1>inv, <2>2, <2>5 DEF SignalSafe
  <2> QED BY <1>0, <2>2, <2>3, <2>4, <2>6 DEF CrashInv, AliveInv
<1>2. CASE Crash!Install \/ Crash!AddHandler \/ Crash!Remove
  <2> DEFINE first == Head(switch.left)
  <2>1. /\ switch.left # <<>> /\ switch.left \in Seq(Signals)
        /\ UNCHANGED <<process, crashPipe, crashReader, m_crash_diagnostics_, m_crash_handler_, logged, told>>
    BY <1>2, <1>inv DEF Crash!Install, Crash!AddHandler, Crash!Remove, Switching, CrashTypes, Crash!system
  <2>2. first \in Signals
    BY <2>1
  <2>3. Handling'
    BY <1>inv, <2>1 DEF Handling
  <2> HIDE DEF first
  <2>4. CASE Crash!Install /\ first \in registered
    <3>1. Crash!NextSignal("install") /\ disposition' = disposition /\ registered' = registered /\ switch.pc = "install"
      BY <2>4 DEF Crash!Install, first
    <3>2. CrashTypes' /\ Switching'
      BY <1>inv, <2>1, <3>1, GoesOn DEF CrashTypes, Switching
    <3>3. ASSUME NEW s \in Signals PROVE SignalSafe(s)'
      <4>1. ~Left(s)' => ~Left(s) \/ s = first
        BY <1>inv, <2>1, <3>1, GoesOn DEF CrashTypes, first
      <4> QED BY <1>inv, <2>1, <2>4, <3>1, <4>1 DEF SignalSafe, Reported
    <3> QED BY <1>0, <2>1, <2>3, <3>2, <3>3 DEF CrashInv, AliveInv
  <2>5. CASE Crash!Install /\ first \notin registered
    <3>1. /\ disposition' = [disposition EXCEPT ![first] = "handler"] /\ switch' = [switch EXCEPT !.pc = "add"]
          /\ registered' = registered /\ switch.pc = "install"
      BY <2>5 DEF Crash!Install, first
    <3>2. /\ disposition' \in [Signals -> {"handler", "default"}] /\ disposition'[first] = "handler"
          /\ \A s \in Signals : disposition'[s] = disposition[s] \/ disposition'[s] = "handler"
          /\ switch' = [left |-> switch.left, pc |-> "add"]
      BY <1>inv, <2>2, <3>1 DEF CrashTypes
    <3>3. CrashTypes'
      BY <1>inv, <2>1, <3>1, <3>2 DEF CrashTypes
    <3>4. Switching'
      BY <1>inv, <2>1, <2>5, <3>1, <3>2 DEF Switching, Crash!NoSwitch, first
    <3>5. ASSUME NEW s \in Signals PROVE SignalSafe(s)'
      <4>1. Left(s)' <=> Left(s)
        BY <3>2 DEF Left
      <4> QED BY <1>inv, <2>1, <3>1, <3>2, <4>1 DEF SignalSafe, Reported
    <3> QED BY <1>0, <2>1, <2>3, <3>3, <3>4, <3>5 DEF CrashInv, AliveInv
  <2>6. CASE Crash!AddHandler
    <3>1. /\ Crash!NextSignal("install") /\ disposition' = disposition /\ registered' = registered \cup {first}
          /\ switch.pc = "add"
      BY <2>6 DEF Crash!AddHandler, Crash!system, first
    <3>2. CrashTypes' /\ Switching'
      BY <1>inv, <2>1, <2>2, <3>1, GoesOn DEF CrashTypes, Switching
    <3>3. ASSUME NEW s \in Signals PROVE SignalSafe(s)'
      <4>1. ~Left(s)' => ~Left(s) \/ s = first
        BY <1>inv, <2>1, <3>1, GoesOn DEF CrashTypes, first
      <4>2. disposition[first] = "handler"
        BY <1>inv, <3>1 DEF Switching, first
      <4> QED BY <1>inv, <2>1, <3>1, <4>1, <4>2 DEF SignalSafe, Reported
    <3> QED BY <1>0, <2>1, <2>3, <3>2, <3>3 DEF CrashInv, AliveInv
  <2>7. CASE Crash!Remove
    <3>1. /\ Crash!NextSignal("remove") /\ registered' = registered \ {first} /\ switch.pc = "remove"
          /\ disposition' = (IF first \in registered THEN [disposition EXCEPT ![first] = "default"] ELSE disposition)
      BY <2>7 DEF Crash!Remove, Crash!Unregistered, first
    <3>2. /\ disposition' \in [Signals -> {"handler", "default"}]
          /\ \A s \in Signals : s # first => disposition'[s] = disposition[s]
      BY <1>inv, <3>1 DEF CrashTypes
    <3>3. CrashTypes' /\ Switching'
      BY <1>inv, <2>1, <3>1, <3>2, GoesOn DEF CrashTypes, Switching
    <3>4. ASSUME NEW s \in Signals PROVE SignalSafe(s)'
      BY <1>inv, <2>1, <3>1, <3>2 DEF SignalSafe, Switching
    <3> QED BY <1>0, <2>1, <2>3, <3>3, <3>4 DEF CrashInv, AliveInv
  <2> QED BY <1>2, <2>4, <2>5, <2>6, <2>7
<1> QED BY <1>1, <1>2

(* XLog::construct_ has registered all the signals. *)
LEMMA CrashInit ==
  ASSUME Listed, Crash!Init
  PROVE  CrashInv
<1>1. /\ process = "alive" /\ disposition = [s \in Signals |-> "handler"] /\ registered = Signals /\ crashPipe = <<>>
      /\ crashReader = Crash!Waits /\ m_crash_diagnostics_ = TRUE /\ switch = [left |-> <<>>, pc |-> "idle"]
  BY DEF Crash!Init, Signals, Crash!NoSwitch
<1>2. CrashTypes /\ Handling
  BY <1>1 DEF CrashTypes, Handling, Crash!Waits
<1>3. Switching
  BY <1>1 DEF Switching, Crash!NoSwitch
<1>4. \A s \in Signals : SignalSafe(s)
  BY <1>1 DEF SignalSafe
<1> QED BY <1>1, <1>2, <1>3, <1>4 DEF CrashInv, AliveInv

(* A process that a signal ends while the crash diagnostics are on has written its crash information
   and told the user's handler, whatever signals come meanwhile and however often the diagnostics are
   switched (handleCrash and enableCrashDiagnostics of XLog). *)
THEOREM CrashAlwaysReported ==
  ASSUME Listed
  PROVE  Crash!Spec => []Crash!DiesReported
<1>1. Crash!Init => CrashInv
  BY CrashInit
<1>2. CrashInv /\ [Crash!Next]_(Crash!vars) => CrashInv'
  <2> SUFFICES ASSUME CrashInv, [Crash!Next]_(Crash!vars) PROVE CrashInv'
    OBVIOUS
  <2>1. CASE Crash!Next
    <3>1. (\E t \in CrashThreads : Crash!Signal(t) \/ Crash!Abort(t) \/ \E s \in Signals : Crash!Meet(t, s))
            \/ Crash!HandlerStep
            \/ ((\E enable \in BOOLEAN : Crash!EnableCrashDiagnostics(enable)) \/ Crash!Install
                  \/ Crash!AddHandler \/ Crash!Remove)
      BY <2>1 DEF Crash!Next, Signals
    <3> QED BY <3>1, ThreadSteps, HandlerSteps, SwitchSteps
  <2>2. CASE UNCHANGED Crash!vars
    <3>1. UNCHANGED <<process, disposition, registered, crashPipe, crashReader, m_crash_diagnostics_, switch, m_crash_handler_,
                      logged, told>>
      BY <2>2 DEF Crash!vars, Crash!system
    <3> QED BY <3>1 DEF CrashInv, AliveInv, CrashTypes, Handling, Switching, SignalSafe, Left, Reported,
                        Crash!DiesReported
  <2> QED BY <2>1, <2>2
<1>3. CrashInv => Crash!DiesReported
  BY DEF CrashInv, Crash!DiesReported
<1> QED BY <1>1, <1>2, <1>3, PTL DEF Crash!Spec

-----------------------------------------------------------------------------
(* The log files: XLogFile, for any names, limits, retentions, days and messages *)
Counts == FileLimits \subseteq Nat /\ Retentions \subseteq Nat /\ Sizes \subseteq Nat

Names == [base : Bases \cup {"application"}, day : Nat, seq : Nat]
LogFiles == [messages : Seq(Nat), size : Nat, day : Nat]
Loggers ==
  [running : {TRUE}, base : Bases, limit : FileLimits, retention : Retentions, open : BOOLEAN,
   current : Names, size : Nat, good : BOOLEAN, missed : Nat]

FileTypes ==
  /\ today \in Nat \ {0} /\ message \in Nat
  /\ files \in [DOMAIN files -> LogFiles] /\ DOMAIN files \subseteq Names /\ IsFiniteSet(DOMAIN files)
  /\ \A n \in DOMAIN files : n.day <= files[n].day /\ files[n].day <= today
  /\ logger \in Loggers \cup {[running |-> FALSE]}

(* the files begun today are numbered without a gap *)
Numbered(base, k) ==
  k \in Nat /\ \A s \in Nat \ {0} : LogFile!Name(base, s) \in DOMAIN files <=> s <= k
TodayNumbered == \A base \in Bases : \E k : Numbered(base, k)

MessagesOld == \A n \in DOMAIN files : \A i \in DOMAIN files[n].messages : files[n].messages[i] <= message

(* the file in use is the last one, there or still to be made *)
IsLast(l) ==
  l.current # LogFile!Application =>
    /\ l.current.base = l.base /\ l.current.seq # 0 /\ l.current.day <= today
    /\ \A n \in LogFile!Matching(l.base) : n = l.current \/ LogFile!Before(n, l.current)
    /\ l.current \in DOMAIN files \/ l.current.day < today \/ Numbered(l.base, l.current.seq - 1)

(* the size that is counted for a file of that size *)
Counted(l, size) ==
  /\ size <= l.size + l.missed
  /\ l.good => size = l.size + l.missed

IsOpened(l) == l.open => l.current \in DOMAIN files /\ Counted(l, files[l.current].size)

(* InOrderOfNames, file by file *)
Ordered ==
  \A b \in Bases : \A n, m \in LogFile!Matching(b) : LogFile!Before(n, m) =>
    \A i \in DOMAIN files[n].messages, j \in DOMAIN files[m].messages :
      files[n].messages[i] < files[m].messages[j]

FileInv ==
  /\ FileTypes /\ TodayNumbered /\ MessagesOld /\ Ordered
  /\ logger \in Loggers => IsLast(logger) /\ IsOpened(logger)

-----------------------------------------------------------------------------
(* There are as many files at least as were begun today, so the next number is found. *)
LEMMA EnoughNumbers ==
  ASSUME FileTypes, NEW base \in Bases, NEW k, Numbered(base, k)
  PROVE  k <= Cardinality(DOMAIN files) /\ Cardinality(DOMAIN files) \in Nat
<1> DEFINE f == [s \in 1..k |-> LogFile!Name(base, s)]
<1>1. k \in Nat /\ IsFiniteSet(DOMAIN files)
  BY DEF Numbered, FileTypes
<1>2. f \in [1..k -> DOMAIN files]
  BY <1>1 DEF Numbered
<1>3. \A r, s \in 1..k : f[r] = f[s] => r = s
  BY DEF LogFile!Name
<1>4. f \in Injection(1..k, DOMAIN files)
  BY <1>2, <1>3 DEF Injection, IsInjective
<1>5. Cardinality(1..k) <= Cardinality(DOMAIN files)
  BY <1>1, <1>4, FS_Injection
<1>6. Cardinality(1..k) = k
  BY <1>1, FS_Interval
<1>7. Cardinality(DOMAIN files) \in Nat
  BY <1>1, FS_CardinalityType
<1> QED BY <1>5, <1>6, <1>7

(* generateLogFileName *)
LEMMA FreshIsNext ==
  ASSUME FileTypes, NEW base \in Bases, NEW k, Numbered(base, k)
  PROVE  LogFile!Fresh(base) = LogFile!Name(base, k + 1)
<1> DEFINE c == LogFile!Cardinality(DOMAIN files)
           S == {s \in 1..(c + 1) : LogFile!Name(base, s) \notin DOMAIN files}
<1>1. c = Cardinality(DOMAIN files)
  BY DEF LogFile!Cardinality, Cardinality
<1>2. k \in Nat /\ c \in Nat /\ k <= c
  BY <1>1, EnoughNumbers DEF Numbered
<1> HIDE DEF c
<1>3. k + 1 \in S /\ \A s \in S : k + 1 <= s
  BY <1>2 DEF Numbered
<1>4. LogFile!Min(S) = k + 1
  <2>1. \A x \in S : (\A y \in S : x <= y) => x = k + 1
    BY <1>2, <1>3
  <2> QED BY <1>3, <2>1 DEF LogFile!Min
<1> QED BY <1>4 DEF LogFile!Fresh, c

(* A name that is begun today comes after all there are. *)
LEMMA FreshIsLast ==
  ASSUME FileTypes, TodayNumbered, NEW base \in Bases, NEW l \in Loggers, l.base = base,
         l.current = LogFile!Fresh(base)
  PROVE  IsLast(l) /\ LogFile!Fresh(base) \in Names
<1>1. PICK k : Numbered(base, k)
  BY DEF TodayNumbered
<1>2. l.current = LogFile!Name(base, k + 1) /\ k \in Nat
  BY <1>1, FreshIsNext DEF Numbered
<1>3. l.current = [base |-> base, day |-> today, seq |-> k + 1] /\ today \in Nat
  BY <1>2 DEF LogFile!Name, FileTypes
<1>4. ASSUME NEW n \in LogFile!Matching(base) PROVE LogFile!Before(n, l.current)
  <2>1. n \in DOMAIN files /\ n \in Names /\ n.base = base /\ n.seq # 0
    BY DEF LogFile!Matching, FileTypes
  <2>2. n.day \in Nat /\ n.seq \in Nat \ {0} /\ n = [base |-> base, day |-> n.day, seq |-> n.seq]
    BY <2>1 DEF Names
  <2>3. n.day <= today
    <3>1. n.day <= files[n].day /\ files[n].day <= today /\ files[n].day \in Nat
      BY <2>1 DEF FileTypes, LogFiles
    <3> QED BY <2>2, <3>1, <1>3
  <2>4. n.day = today => n.seq <= k
    BY <1>1, <2>1, <2>2 DEF Numbered, LogFile!Name
  <2> QED BY <1>2, <1>3, <2>1, <2>2, <2>3, <2>4 DEF LogFile!Before
<1>5. k + 1 # 0 /\ (k + 1) - 1 = k
  BY <1>2
<1>6. l.current.base = base /\ l.current.day = today /\ l.current.seq = k + 1
  BY <1>3
<1>7. today <= today
  BY <1>3
<1>8. IsLast(l)
  BY <1>1, <1>4, <1>5, <1>6, <1>7 DEF IsLast
<1>9. [base |-> base, day |-> today, seq |-> k + 1] \in Names
  BY <1>2, <1>3 DEF Names
<1> QED BY <1>3, <1>8, <1>9

(* rotateLogFile leaves the logger with the last file, and closes it for the next. *)
LEMMA RotatedLast ==
  ASSUME FileInv, logger \in Loggers, NEW ok \in BOOLEAN
  PROVE  /\ LogFile!Rotated(ok) \in Loggers /\ IsLast(LogFile!Rotated(ok)) /\ IsOpened(LogFile!Rotated(ok))
<1> DEFINE l == LogFile!Rotated(ok)
<1>1. IsLast(logger) /\ IsOpened(logger) /\ FileTypes /\ TodayNumbered
  BY DEF FileInv
<1>2. CASE ~LogFile!Full
  BY <1>1, <1>2 DEF LogFile!Rotated
<1>3. CASE LogFile!Full /\ ok
  <2> DEFINE fresh == LogFile!Fresh(logger.base)
  <2>1. l = [logger EXCEPT !.open = FALSE, !.current = fresh, !.size = 0]
    BY <1>3 DEF LogFile!Rotated
  <2>2. logger.base \in Bases
    BY DEF Loggers
  <2>3. fresh \in Names
    <3>1. PICK k : Numbered(logger.base, k)
      BY <1>1, <2>2 DEF TodayNumbered
    <3>2. fresh = LogFile!Name(logger.base, k + 1) /\ k \in Nat /\ today \in Nat
      BY <1>1, <2>2, <3>1, FreshIsNext DEF Numbered, FileTypes
    <3> QED BY <2>2, <3>2 DEF LogFile!Name, Names
  <2> HIDE DEF fresh
  <2>4. l \in Loggers /\ l.base = logger.base /\ l.current = fresh /\ ~l.open
    <3>1. l = [running |-> logger.running, base |-> logger.base, limit |-> logger.limit,
               retention |-> logger.retention, open |-> FALSE, current |-> fresh, size |-> 0,
               good |-> logger.good, missed |-> logger.missed]
      BY <2>1 DEF Loggers
    <3>2. /\ logger.running \in {TRUE} /\ logger.base \in Bases /\ logger.limit \in FileLimits
          /\ logger.retention \in Retentions /\ logger.good \in BOOLEAN /\ logger.missed \in Nat
      BY DEF Loggers
    <3> HIDE DEF l
    <3> QED BY <2>3, <3>1, <3>2 DEF Loggers
  <2> HIDE DEF l
  <2>5. IsLast(l)
    BY <1>1, <2>2, <2>4, FreshIsLast DEF fresh
  <2> QED BY <2>4, <2>5 DEF IsOpened, l
<1>4. CASE LogFile!Full /\ ~ok
  <2>1. l = [logger EXCEPT !.open = FALSE]
    BY <1>4 DEF LogFile!Rotated
  <2>2. l \in Loggers /\ l.base = logger.base /\ l.current = logger.current /\ ~l.open
    BY <2>1 DEF Loggers
  <2> HIDE DEF l
  <2> QED BY <1>1, <2>2 DEF IsLast, IsOpened, l
<1> QED BY <1>2, <1>3, <1>4

-----------------------------------------------------------------------------
(* What is said of the files holds of those that cleanupOldLogFiles leaves. *)
LEMMA Removing ==
  ASSUME Counts, FileInv, NEW base \in Bases, NEW retention \in Retentions,
         NEW gone \in LogFile!Cleaned(base, retention), files' = [n \in DOMAIN files \ gone |-> files[n]],
         UNCHANGED <<today, message>>,
         NEW l \in Loggers, IsLast(l), ~l.open, logger' = l
  PROVE  FileInv'
<1>0. FileTypes /\ TodayNumbered /\ MessagesOld /\ Ordered
  BY DEF FileInv
<1>1. \A n \in gone : n \in DOMAIN files /\ n.day < today
  <2> SUFFICES ASSUME NEW n \in gone PROVE n \in DOMAIN files /\ n.day < today
    OBVIOUS
  <2>1. retention # 0 /\ n \in LogFile!Matching(base) /\ today - files[n].day >= retention
    BY DEF LogFile!Cleaned
  <2>2. n \in DOMAIN files
    BY <2>1 DEF LogFile!Matching
  <2>3. n.day <= files[n].day /\ n.day \in Nat /\ files[n].day \in Nat /\ today \in Nat /\ retention \in Nat
    BY <1>0, <2>2 DEF FileTypes, Names, LogFiles, Counts
  <2> QED BY <2>1, <2>2, <2>3
<1>2. DOMAIN files' = DOMAIN files \ gone /\ \A n \in DOMAIN files' : files'[n] = files[n]
  OBVIOUS
<1>3. IsFiniteSet(DOMAIN files')
  BY <1>0, <1>2, FS_Subset DEF FileTypes
<1>4. FileTypes'
  <2>1. files' \in [DOMAIN files' -> LogFiles]
    BY <1>0, <1>2 DEF FileTypes
  <2> QED BY <1>0, <1>2, <1>3, <2>1 DEF FileTypes
<1>5. \A b, k : Numbered(b, k) => Numbered(b, k)'
  <2> SUFFICES ASSUME NEW b, NEW k, Numbered(b, k), NEW s \in Nat \ {0}
               PROVE  LogFile!Name(b, s)' \in DOMAIN files' <=> s <= k
    BY DEF Numbered
  <2>1. LogFile!Name(b, s)' = LogFile!Name(b, s) /\ LogFile!Name(b, s).day = today
    BY DEF LogFile!Name
  <2>2. LogFile!Name(b, s) \notin gone
    BY <1>0, <1>1, <2>1 DEF FileTypes
  <2> QED BY <1>2, <2>1, <2>2 DEF Numbered
<1>6. TodayNumbered'
  BY <1>0, <1>5 DEF TodayNumbered
<1>7. MessagesOld'
  BY <1>0, <1>2 DEF MessagesOld
<1>8. \A b : LogFile!Matching(b)' \subseteq LogFile!Matching(b)
  BY <1>2 DEF LogFile!Matching
<1>9. Ordered'
  <2> SUFFICES ASSUME NEW b \in Bases, NEW n \in LogFile!Matching(b)', NEW m \in LogFile!Matching(b)',
                      LogFile!Before(n, m),
                      NEW i \in DOMAIN files'[n].messages, NEW j \in DOMAIN files'[m].messages
               PROVE  files'[n].messages[i] < files'[m].messages[j]
    BY DEF Ordered, LogFile!Before
  <2>1. n \in LogFile!Matching(b) /\ m \in LogFile!Matching(b) /\ n \in DOMAIN files' /\ m \in DOMAIN files'
    BY <1>8 DEF LogFile!Matching
  <2> QED BY <1>0, <1>2, <2>1 DEF Ordered
<1>10. IsLast(l)' /\ IsOpened(l)'
  <2>1. l.current \in DOMAIN files => l.current \in DOMAIN files' \/ l.current.day < today
    BY <1>1, <1>2
  <2> QED BY <1>5, <1>8, <2>1 DEF IsLast, IsOpened, LogFile!Before, LogFile!Application
<1>11. logger' \in Loggers /\ IsLast(logger)' /\ IsOpened(logger)'
  BY <1>10 DEF IsLast, IsOpened
<1> QED BY <1>4, <1>6, <1>7, <1>9, <1>11 DEF FileInv, FileTypes

(* initializeLogFile goes on with the last file of today, or with the next. *)
LEMMA Configuring ==
  ASSUME Counts, FileInv, NEW base \in Bases, NEW limit \in FileLimits, NEW retention \in Retentions,
         NEW found \in BOOLEAN, NEW ok \in BOOLEAN, LogFile!Configure(base, limit, retention, found, ok)
  PROVE  FileInv'
<1> DEFINE file == LogFile!Initialized(base, limit, found, ok)
           l == [running |-> TRUE, base |-> base, limit |-> limit, retention |-> retention, open |-> FALSE,
                 current |-> file.current, size |-> file.size, good |-> TRUE, missed |-> 0]
           room == {n \in LogFile!Latest(base) : found /\ (limit = 0 \/ files[n].size < limit)}
<1>0. FileTypes /\ TodayNumbered
  BY DEF FileInv
<1>1. file.current \in Names /\ file.size \in Nat /\ (l \in Loggers => IsLast(l))
  <2>1. CASE ~ok
    <3>1. file.current = LogFile!Application /\ file.size = 0
      BY <2>1 DEF LogFile!Initialized
    <3> QED BY <3>1 DEF LogFile!Application, Names, IsLast
  <2>2. CASE ok /\ room # {}
    <3>1. PICK n : n \in room /\ file = [current |-> n, size |-> files[n].size]
      BY <2>2 DEF LogFile!Initialized
    <3>2. /\ n \in LogFile!Matching(base) /\ n.day = today
          /\ \A m \in LogFile!Matching(base) : m.day = today => m.seq <= n.seq
      BY <3>1 DEF LogFile!Latest
    <3>3. n \in DOMAIN files /\ n \in Names /\ n.base = base /\ n.seq # 0 /\ files[n].size \in Nat
      BY <1>0, <3>2 DEF LogFile!Matching, FileTypes, LogFiles
    <3>4. ASSUME NEW m \in LogFile!Matching(base) PROVE m = n \/ LogFile!Before(m, n)
      <4>1. m \in DOMAIN files /\ m \in Names /\ m.base = base
        BY <1>0 DEF LogFile!Matching, FileTypes
      <4>2. m.day \in Nat /\ m.seq \in Nat /\ n.day \in Nat /\ n.seq \in Nat /\ today \in Nat
        BY <1>0, <3>3, <4>1 DEF Names, FileTypes
      <4>3. m.day <= today
        <5>1. m.day <= files[m].day /\ files[m].day <= today /\ files[m].day \in Nat
          BY <1>0, <4>1 DEF FileTypes, LogFiles
        <5> QED BY <4>2, <5>1
      <4>4. m.day = n.day /\ m.seq = n.seq => m = n
        BY <3>3, <4>1 DEF Names
      <4> QED BY <3>2, <3>3, <4>1, <4>2, <4>3, <4>4 DEF LogFile!Before
    <3>5. l.current = n /\ l.base = base
      BY <3>1
    <3>6. n.day <= today
      BY <1>0, <3>2 DEF FileTypes
    <3> QED BY <3>1, <3>2, <3>3, <3>4, <3>5, <3>6 DEF IsLast
  <2>3. CASE ok /\ room = {}
    <3>1. file.current = LogFile!Fresh(base) /\ file.size = 0
      BY <2>3 DEF LogFile!Initialized
    <3>2. PICK k : Numbered(base, k)
      BY <1>0 DEF TodayNumbered
    <3>3. file.current \in Names
      <4>1. file.current = LogFile!Name(base, k + 1) /\ k \in Nat /\ today \in Nat
        BY <1>0, <3>1, <3>2, FreshIsNext DEF Numbered, FileTypes
      <4> QED BY <4>1 DEF LogFile!Name, Names
    <3>4. l.base = base /\ l.current = file.current
      OBVIOUS
    <3> HIDE DEF l
    <3>5. l \in Loggers => IsLast(l)
      BY <1>0, <3>1, <3>4, FreshIsLast
    <3> QED BY <3>1, <3>3, <3>5
  <2> QED BY <2>1, <2>2, <2>3
<1>2. logger' = l
  BY DEF LogFile!Configure
<1> HIDE DEF file
<1>3. l \in Loggers /\ ~l.open
  BY <1>1 DEF Loggers
<1>4. /\ UNCHANGED <<today, message>>
      /\ \E gone \in LogFile!Cleaned(base, retention) : files' = [n \in DOMAIN files \ gone |-> files[n]]
  BY DEF LogFile!Configure
<1> HIDE DEF l
<1> QED BY <1>1, <1>2, <1>3, <1>4, Removing

-----------------------------------------------------------------------------
(* The day changes: nothing was begun on the next one. *)
LEMMA DayEnds ==
  ASSUME FileInv, LogFile!NextDay
  PROVE  FileInv'
<1>0. FileTypes /\ TodayNumbered /\ MessagesOld /\ Ordered
  BY DEF FileInv
<1>1. today' = today + 1 /\ UNCHANGED <<files, logger, message>> /\ today \in Nat \ {0}
  BY <1>0 DEF LogFile!NextDay, FileTypes
<1>2. \A n \in DOMAIN files : n.day \in Nat /\ n.day <= today
  <2> SUFFICES ASSUME NEW n \in DOMAIN files PROVE n.day \in Nat /\ n.day <= today
    OBVIOUS
  <2>1. n.day <= files[n].day /\ files[n].day <= today /\ n.day \in Nat /\ files[n].day \in Nat
    BY <1>0 DEF FileTypes, Names, LogFiles
  <2> QED BY <1>1, <2>1
<1>3. FileTypes'
  <2>1. \A n \in DOMAIN files : n.day <= files[n].day /\ files[n].day <= today + 1
    <3> SUFFICES ASSUME NEW n \in DOMAIN files PROVE n.day <= files[n].day /\ files[n].day <= today + 1
      OBVIOUS
    <3>1. n.day <= files[n].day /\ files[n].day <= today /\ files[n].day \in Nat
      BY <1>0 DEF FileTypes, LogFiles
    <3> QED BY <1>1, <3>1
  <2>2. today + 1 \in Nat \ {0}
    BY <1>1
  <2> QED BY <1>0, <1>1, <2>1, <2>2 DEF FileTypes
<1>4. TodayNumbered'
  <2> SUFFICES ASSUME NEW b \in Bases PROVE Numbered(b, 0)'
    BY DEF TodayNumbered
  <2>1. \A s : LogFile!Name(b, s)' \notin DOMAIN files
    <3>1. \A s : LogFile!Name(b, s)'.day = today + 1
      BY <1>1 DEF LogFile!Name
    <3> QED BY <1>1, <1>2, <3>1
  <2> QED BY <1>1, <2>1 DEF Numbered
<1>5. MessagesOld' /\ Ordered'
  BY <1>0, <1>1 DEF MessagesOld, Ordered, LogFile!Matching, LogFile!Before
<1>6. ASSUME logger' \in Loggers PROVE IsLast(logger)' /\ IsOpened(logger)'
  <2>1. IsLast(logger) /\ IsOpened(logger) /\ logger.current.day \in Nat
    BY <1>1, <1>6 DEF FileInv, Loggers, Names
  <2>2. logger.current.day <= today => logger.current.day < today + 1 /\ logger.current.day <= today + 1
    BY <1>1, <2>1
  <2> QED BY <1>1, <2>1, <2>2 DEF IsLast, IsOpened, LogFile!Matching, LogFile!Before, LogFile!Application
<1> QED BY <1>3, <1>4, <1>5, <1>6 DEF FileInv

(* A message is lost. *)
LEMMA Losing ==
  ASSUME FileInv, NEW ok \in BOOLEAN, LogFile!OpenFails(ok)
  PROVE  FileInv'
<1>0. FileTypes /\ TodayNumbered /\ MessagesOld /\ Ordered
  BY DEF FileInv
<1>1. /\ logger.running /\ logger' = LogFile!Rotated(ok) /\ message' = message + 1
      /\ UNCHANGED <<today, files>>
  BY DEF LogFile!OpenFails
<1>2. logger \in Loggers
  BY <1>0, <1>1 DEF FileTypes
<1>3. logger' \in Loggers /\ IsLast(logger') /\ IsOpened(logger')
  BY <1>1, <1>2, RotatedLast
<1>4. FileTypes'
  <2>1. message + 1 \in Nat
    BY <1>0 DEF FileTypes
  <2> QED BY <1>0, <1>1, <1>3, <2>1 DEF FileTypes
<1>5. MessagesOld'
  <2>1. \A n \in DOMAIN files : \A i \in DOMAIN files[n].messages : files[n].messages[i] <= message + 1
    <3> SUFFICES ASSUME NEW n \in DOMAIN files, NEW i \in DOMAIN files[n].messages
                 PROVE  files[n].messages[i] <= message + 1
      OBVIOUS
    <3>1. files[n].messages \in Seq(Nat) /\ files[n].messages[i] <= message /\ message \in Nat
      BY <1>0 DEF FileTypes, LogFiles, MessagesOld
    <3>2. files[n].messages[i] \in Nat
      BY <3>1
    <3> QED BY <3>1, <3>2
  <2> QED BY <1>1, <2>1 DEF MessagesOld
<1>6. TodayNumbered' /\ Ordered'
  BY <1>0, <1>1 DEF TodayNumbered, Numbered, LogFile!Name, Ordered, LogFile!Matching, LogFile!Before
<1>7. IsLast(logger)' /\ IsOpened(logger)'
  BY <1>1, <1>3 DEF IsLast, IsOpened, Numbered, LogFile!Name, LogFile!Matching, LogFile!Before,
                    LogFile!Application
<1> QED BY <1>4, <1>5, <1>6, <1>7 DEF FileInv

(* A message is written to the last file, where it comes after all others. *)
LEMMA Writing ==
  ASSUME Counts, FileInv, NEW ok \in BOOLEAN, NEW found \in BOOLEAN, NEW size \in Sizes,
         LogFile!Write(size, found, ok)
  PROVE  FileInv'
<1> DEFINE l == LogFile!Opened(LogFile!Rotated(ok), found)
           file == LogFile!Contents(l.current)
<1>0. FileTypes /\ TodayNumbered /\ MessagesOld /\ Ordered
  BY DEF FileInv
<1>1. PICK written \in LogFile!Written(l, size) :
        /\ logger' = [l EXCEPT !.size = @ + size, !.good = @ /\ written = size]
        /\ files' = [n \in DOMAIN files \cup {l.current} |->
                       IF n # l.current THEN files[n]
                       ELSE IF written = 0 THEN file
                       ELSE [messages |-> Append(file.messages, message'), size |-> file.size + written,
                             day |-> today]]
  BY DEF LogFile!Write
<1> DEFINE new == IF written = 0 THEN file
                  ELSE [messages |-> Append(file.messages, message'), size |-> file.size + written, day |-> today]
<1>2. logger.running /\ message' = message + 1 /\ UNCHANGED today
      /\ files' = [n \in DOMAIN files \cup {l.current} |-> IF n = l.current THEN new ELSE files[n]]
  <2>1. files' = [n \in DOMAIN files \cup {l.current} |-> IF n # l.current THEN files[n] ELSE new]
    BY <1>1
  <2> HIDE DEF new, l
  <2> QED BY <2>1 DEF LogFile!Write
<1>3. logger \in Loggers /\ file \in LogFiles
  BY <1>0, <1>2 DEF FileTypes, LogFile!Contents, LogFiles
<1>4. l \in Loggers /\ IsLast(l) /\ l.open /\ Counted(l, file.size)
  <2> DEFINE r == LogFile!Rotated(ok)
  <2>1. r \in Loggers /\ IsLast(r) /\ IsOpened(r)
    BY <1>3, RotatedLast
  <2> HIDE DEF r
  <2>2. CASE r.open
    <3>1. l = r
      BY <2>2 DEF LogFile!Opened, r
    <3> QED BY <2>1, <2>2, <3>1 DEF IsOpened, LogFile!Contents
  <2>3. CASE ~r.open
    <3> DEFINE z == LogFile!Contents(r.current).size
    <3>1. z \in Nat
      BY <1>0 DEF LogFile!Contents, FileTypes, LogFiles
    <3>2. l = [r EXCEPT !.open = TRUE, !.good = TRUE, !.size = IF found THEN z ELSE 0,
                        !.missed = IF found THEN 0 ELSE z]
      BY <2>3 DEF LogFile!Opened, r
    <3>3. PICK y \in Nat, m \in Nat : y = (IF found THEN z ELSE 0) /\ m = (IF found THEN 0 ELSE z) /\ z = y + m
      BY <3>1
    <3> HIDE DEF z
    <3>4. l = [running |-> r.running, base |-> r.base, limit |-> r.limit, retention |-> r.retention, open |-> TRUE,
               current |-> r.current, size |-> y, good |-> TRUE, missed |-> m]
      BY <2>1, <3>2, <3>3 DEF Loggers
    <3>5. /\ r.running \in {TRUE} /\ r.base \in Bases /\ r.limit \in FileLimits
          /\ r.retention \in Retentions /\ r.current \in Names
      BY <2>1 DEF Loggers
    <3> HIDE DEF l
    <3>6. /\ l \in Loggers /\ l.open /\ l.current = r.current /\ l.base = r.base
          /\ l.size = y /\ l.missed = m
      BY <3>4, <3>5 DEF Loggers
    <3>7. Counted(l, z)
      BY <3>1, <3>3, <3>6 DEF Counted
    <3> QED BY <2>1, <3>6, <3>7 DEF IsLast, z
  <2> QED BY <2>2, <2>3
<1> HIDE DEF l
<1>5. /\ message \in Nat /\ today \in Nat \ {0} /\ size \in Nat /\ l.current \in Names /\ l.base \in Bases
      /\ l.size \in Nat /\ l.missed \in Nat /\ l.good \in BOOLEAN /\ written \in 0..size
      /\ (written = size \/ written < size)
  BY <1>0, <1>4 DEF FileTypes, Counts, Loggers, LogFile!Written
<1>6. /\ new \in LogFiles /\ new.size = file.size + written /\ file.size \in Nat
      /\ new.day = today \/ new = file
      /\ \A i \in DOMAIN new.messages :
           new.messages[i] = message + 1 \/ (i \in DOMAIN file.messages /\ new.messages[i] = file.messages[i])
  <2> DEFINE s == file.messages
  <2>1. s \in Seq(Nat) /\ file.size \in Nat
    BY <1>3 DEF LogFiles
  <2>2. CASE written = 0
    BY <1>3, <2>1, <2>2
  <2>3. CASE written # 0
    <3> HIDE DEF file, s
    <3>1. /\ Append(s, message') \in Seq(Nat)
          /\ \A i \in DOMAIN Append(s, message') :
               Append(s, message')[i] = message + 1 \/ (i \in DOMAIN s /\ Append(s, message')[i] = s[i])
      BY <1>2, <1>5, <2>1
    <3>2. file.size + written \in Nat
      BY <1>5, <2>1
    <3> QED BY <1>5, <2>1, <2>3, <3>1, <3>2 DEF LogFiles, s
  <2> QED BY <2>2, <2>3
<1> HIDE DEF new
<1>7. /\ DOMAIN files' = DOMAIN files \cup {l.current} /\ files'[l.current] = new
      /\ \A n \in DOMAIN files : n # l.current => files'[n] = files[n]
  BY <1>2
<1>8. \A n \in DOMAIN files \cap {l.current} : file = files[n]
  BY DEF LogFile!Contents
<1>9. l.current \notin DOMAIN files => file.messages = <<>> /\ file.day = today
  BY DEF LogFile!Contents
<1> HIDE DEF file
<1>10. l.current.day <= today
  BY <1>4, <1>5 DEF IsLast, LogFile!Application
<1>11. /\ logger' \in Loggers /\ logger'.current = l.current /\ logger'.base = l.base /\ logger'.open
       /\ Counted(logger', new.size)
  <2>0. PICK y \in Nat : y = l.size + size
    BY <1>5
  <2>1. PICK g \in BOOLEAN : g = (l.good /\ written = size)
    OBVIOUS
  <2>2. logger' = [l EXCEPT !.size = y, !.good = g]
    BY <1>1, <1>4, <2>0, <2>1 DEF Loggers
  <2>3. /\ logger' \in Loggers /\ logger'.current = l.current /\ logger'.base = l.base /\ logger'.open
        /\ logger'.size = y /\ logger'.good = g /\ logger'.missed = l.missed
    BY <1>4, <2>2 DEF Loggers
  <2>4. new.size <= y + l.missed
    BY <1>4, <1>5, <1>6, <2>0 DEF Counted
  <2>5. g => new.size = y + l.missed
    <3>1. SUFFICES ASSUME l.good, written = size PROVE new.size = y + l.missed
      BY <2>1, Zenon
    <3>2. file.size = l.size + l.missed
      BY <1>4, <3>1 DEF Counted
    <3> QED BY <1>5, <1>6, <2>0, <3>1, <3>2
  <2> QED BY <2>3, <2>4, <2>5 DEF Counted
<1>12. FileTypes'
  <2>1. files' \in [DOMAIN files' -> LogFiles]
    <3>1. files' = [n \in DOMAIN files' |-> IF n = l.current THEN new ELSE files[n]]
      BY <1>2, <1>7
    <3>2. \A n \in DOMAIN files' : (IF n = l.current THEN new ELSE files[n]) \in LogFiles
      BY <1>0, <1>6, <1>7 DEF FileTypes
    <3> QED BY <3>1, <3>2
  <2>2. IsFiniteSet(DOMAIN files') /\ DOMAIN files' \subseteq Names
    BY <1>0, <1>5, <1>7, FS_AddElement DEF FileTypes
  <2>3. ASSUME NEW n \in DOMAIN files' PROVE n.day <= files'[n].day /\ files'[n].day <= today
    <3>1. CASE n = l.current
      <4>1. new = file => n.day <= file.day /\ file.day <= today
        BY <1>5, <1>8, <1>9, <1>10, <3>1, <1>0 DEF FileTypes
      <4>2. today <= today
        BY <1>5
      <4> QED BY <1>6, <1>7, <1>10, <3>1, <4>1, <4>2
    <3>2. CASE n # l.current
      BY <1>0, <1>7, <3>2 DEF FileTypes
    <3> QED BY <3>1, <3>2
  <2>4. message' \in Nat
    BY <1>2, <1>5
  <2> QED BY <1>2, <1>5, <1>11, <2>1, <2>2, <2>3, <2>4 DEF FileTypes
<1>13. ASSUME NEW n \in DOMAIN files', NEW i \in DOMAIN files'[n].messages
       PROVE  \/ n = l.current /\ files'[n].messages[i] = message + 1
              \/ n \in DOMAIN files /\ i \in DOMAIN files[n].messages /\ files'[n].messages[i] = files[n].messages[i]
  <2>1. CASE n = l.current
    <3>1. i \in DOMAIN file.messages => n \in DOMAIN files /\ file = files[n]
      BY <1>8, <1>9, <2>1
    <3> QED BY <1>6, <1>7, <2>1, <3>1
  <2>2. CASE n # l.current
    BY <1>7, <2>2
  <2> QED BY <2>1, <2>2
<1>14. \A n \in DOMAIN files : \A i \in DOMAIN files[n].messages :
         files[n].messages[i] \in Nat /\ files[n].messages[i] < message + 1
  <2> SUFFICES ASSUME NEW n \in DOMAIN files, NEW i \in DOMAIN files[n].messages
               PROVE  files[n].messages[i] \in Nat /\ files[n].messages[i] < message + 1
    OBVIOUS
  <2>1. files[n].messages \in Seq(Nat) /\ files[n].messages[i] <= message
    BY <1>0 DEF FileTypes, LogFiles, MessagesOld
  <2>2. files[n].messages[i] \in Nat
    BY <2>1
  <2> QED BY <1>5, <2>1, <2>2
<1>15. MessagesOld'
  <2> SUFFICES ASSUME NEW n \in DOMAIN files', NEW i \in DOMAIN files'[n].messages
               PROVE  files'[n].messages[i] <= message'
    BY DEF MessagesOld
  <2>1. CASE n = l.current /\ files'[n].messages[i] = message + 1
    BY <1>2, <1>5, <2>1
  <2>2. CASE n \in DOMAIN files /\ i \in DOMAIN files[n].messages /\ files'[n].messages[i] = files[n].messages[i]
    <3>1. files[n].messages[i] \in Nat /\ files[n].messages[i] <= message
      BY <1>0, <1>14, <2>2 DEF MessagesOld
    <3>2. message' = message + 1 /\ message \in Nat
      BY <1>2, <1>5
    <3> QED BY <2>2, <3>1, <3>2
  <2> QED BY <1>13, <2>1, <2>2
<1>16. \A b, n : n \in LogFile!Matching(b)' => n \in LogFile!Matching(b) \/ n = l.current
  BY <1>7 DEF LogFile!Matching
<1>17. ASSUME NEW b \in Bases, NEW n \in LogFile!Matching(b)', l.current \in LogFile!Matching(b)'
       PROVE  l.base = b /\ (n = l.current \/ LogFile!Before(n, l.current))
  <2>1. l.current # LogFile!Application /\ l.current.base = b
    BY <1>17 DEF LogFile!Matching, LogFile!Application
  <2> QED BY <1>4, <1>16, <2>1 DEF IsLast
<1>18. \A n, m \in Names : LogFile!Before(n, m) => ~LogFile!Before(m, n) /\ n # m
  BY DEF Names, LogFile!Before
<1>19. Ordered'
  <2> SUFFICES ASSUME NEW b \in Bases, NEW n \in LogFile!Matching(b)', NEW m \in LogFile!Matching(b)',
                      LogFile!Before(n, m),
                      NEW i \in DOMAIN files'[n].messages, NEW j \in DOMAIN files'[m].messages
               PROVE  files'[n].messages[i] < files'[m].messages[j]
    BY DEF Ordered, LogFile!Before
  <2>1. n \in DOMAIN files' /\ m \in DOMAIN files' /\ n \in Names /\ m \in Names
    BY <1>12 DEF LogFile!Matching, FileTypes
  <2>2. n # l.current
    BY <1>17, <1>18, <2>1
  <2>3. n \in LogFile!Matching(b) /\ n \in DOMAIN files /\ i \in DOMAIN files[n].messages
        /\ files'[n].messages[i] = files[n].messages[i]
    BY <1>13, <1>16, <2>1, <2>2
  <2>4. CASE m = l.current /\ files'[m].messages[j] = message + 1
    BY <1>14, <2>3, <2>4
  <2>5. CASE m \in DOMAIN files /\ j \in DOMAIN files[m].messages /\ files'[m].messages[j] = files[m].messages[j]
    <3>1. m \in LogFile!Matching(b)
      BY <2>5 DEF LogFile!Matching
    <3> QED BY <1>0, <2>3, <2>5, <3>1 DEF Ordered
  <2> QED BY <1>13, <2>1, <2>4, <2>5
<1>20. \A b, s : LogFile!Name(b, s)' = LogFile!Name(b, s) /\ LogFile!Name(b, s).day = today
                 /\ LogFile!Name(b, s).base = b /\ LogFile!Name(b, s).seq = s
  BY <1>2 DEF LogFile!Name
<1>21. TodayNumbered'
  <2> SUFFICES ASSUME NEW b \in Bases PROVE \E k : Numbered(b, k)'
    BY DEF TodayNumbered
  <2>1. PICK k : Numbered(b, k)
    BY <1>0 DEF TodayNumbered
  <2>2. CASE \A s \in Nat \ {0} : LogFile!Name(b, s) # l.current \/ l.current \in DOMAIN files
    BY <1>7, <1>20, <2>1, <2>2 DEF Numbered
  <2>3. ASSUME NEW s \in Nat \ {0}, LogFile!Name(b, s) = l.current, l.current \notin DOMAIN files
        PROVE  Numbered(b, s)'
    <3>1. l.current # LogFile!Application /\ l.current.base = b /\ l.current.day = today /\ l.current.seq = s
      BY <1>5, <1>20, <2>3 DEF LogFile!Application
    <3>2. l.base = b /\ Numbered(b, s - 1)
      BY <1>4, <1>5, <2>3, <3>1 DEF IsLast
    <3>3. ASSUME NEW r \in Nat \ {0} PROVE LogFile!Name(b, r) \in DOMAIN files' <=> r <= s
      <4>1. LogFile!Name(b, r) = l.current <=> r = s
        BY <1>20, <2>3
      <4> QED BY <1>7, <3>2, <4>1 DEF Numbered
    <3> QED BY <1>20, <3>3 DEF Numbered
  <2> QED BY <2>2, <2>3
<1>22. IsOpened(logger)'
  BY <1>7, <1>11 DEF IsOpened
<1>23. IsLast(logger)'
  <2>0. PICK b : b = l.base
    OBVIOUS
  <2>1. LogFile!Application' = LogFile!Application
    BY DEF LogFile!Application
  <2> SUFFICES ASSUME l.current # LogFile!Application
               PROVE  /\ l.current.base = l.base /\ l.current.seq # 0 /\ l.current.day <= today'
                      /\ \A n \in LogFile!Matching(b)' : n = l.current \/ LogFile!Before(n, l.current)
                      /\ l.current \in DOMAIN files'
    <3>1. LogFile!Matching(b)' = LogFile!Matching(logger.base)'
      BY <1>11, <2>0 DEF LogFile!Matching
    <3> QED BY <1>11, <2>1, <3>1 DEF IsLast, LogFile!Before
  <2>2. l.current.base = l.base /\ l.current.seq # 0 /\ l.current.day <= today'
    BY <1>2, <1>4, <1>10 DEF IsLast
  <2>3. ASSUME NEW n \in LogFile!Matching(b)' PROVE n = l.current \/ LogFile!Before(n, l.current)
    <3>1. n \in LogFile!Matching(l.base) \/ n = l.current
      BY <1>16, <2>0
    <3> QED BY <1>4, <3>1 DEF IsLast
  <2> QED BY <1>7, <2>2, <2>3
<1> QED BY <1>11, <1>12, <1>15, <1>19, <1>21, <1>22, <1>23 DEF FileInv

-----------------------------------------------------------------------------
(* What is said of the files is inductive. *)
LEMMA FileInvHolds ==
  ASSUME Counts
  PROVE  LogFile!Spec => []FileInv
<1>1. LogFile!Init => FileInv
  <2> SUFFICES ASSUME LogFile!Init PROVE FileInv
    OBVIOUS
  <2>1. today = 1 /\ files = <<>> /\ message = 0 /\ logger = [running |-> FALSE]
    BY DEF LogFile!Init
  <2>2. DOMAIN files = {} /\ files \in [{} -> LogFiles]
    BY <2>1
  <2>3. FileTypes /\ logger \notin Loggers
    <3>1. [running |-> FALSE] \notin Loggers
      BY DEF Loggers
    <3>2. IsFiniteSet(DOMAIN files)
      BY <2>2, FS_EmptySet
    <3>3. files \in [DOMAIN files -> LogFiles]
      BY <2>1, <2>2
    <3> QED BY <2>1, <2>2, <3>1, <3>2, <3>3 DEF FileTypes
  <2>4. \A b : Numbered(b, 0)
    BY <2>2 DEF Numbered
  <2> QED BY <2>2, <2>3, <2>4 DEF FileInv, TodayNumbered, MessagesOld, Ordered, LogFile!Matching
<1>2. FileInv /\ [LogFile!Next]_(LogFile!vars) => FileInv'
  <2> SUFFICES ASSUME FileInv, [LogFile!Next]_(LogFile!vars) PROVE FileInv'
    OBVIOUS
  <2>1. CASE LogFile!End \/ UNCHANGED LogFile!vars
    <3>1. UNCHANGED <<today, files, message>> /\ (logger' = logger \/ logger' = [running |-> FALSE])
      BY <2>1 DEF LogFile!End, LogFile!vars
    <3>2. [running |-> FALSE] \notin Loggers
      BY DEF Loggers
    <3>3. FileTypes' /\ TodayNumbered' /\ MessagesOld' /\ Ordered'
      BY <3>1 DEF FileInv, FileTypes, TodayNumbered, MessagesOld, Ordered, Numbered, LogFile!Name,
                  LogFile!Matching, LogFile!Before
    <3>4. logger' \in Loggers => IsLast(logger)' /\ IsOpened(logger)'
      BY <3>1, <3>2 DEF FileInv, IsLast, IsOpened, Numbered, LogFile!Name, LogFile!Matching, LogFile!Before,
                        LogFile!Application
    <3> QED BY <3>3, <3>4 DEF FileInv
  <2> QED BY <2>1, Configuring, DayEnds, Losing, Writing DEF LogFile!Next
<1> QED BY <1>1, <1>2, PTL DEF LogFile!Spec

(* Read in the order of their names, the log files give the messages that got into them in the order
   in which they were written, whatever starts, days, limits, removals and failures of the file
   system there were (initializeLogFile, rotateLogFile, writeToFile, cleanupOldLogFiles). *)
THEOREM FilesAlwaysInOrder ==
  ASSUME Counts
  PROVE  LogFile!Spec => []FilesInOrder
<1>1. FileInv => FilesInOrder
  <2> SUFFICES ASSUME FileInv,
                      NEW b \in Bases, NEW d \in Bases, NEW n \in LogFile!Matching(b), NEW m \in LogFile!Matching(d),
                      LogFile!Before(n, m),
                      NEW i \in DOMAIN files[n].messages, NEW j \in DOMAIN files[m].messages
               PROVE  files[n].messages[i] < files[m].messages[j]
    BY DEF FilesInOrder, LogFile!InOrderOfNames
  <2>1. m \in LogFile!Matching(b)
    BY DEF LogFile!Matching, LogFile!Before
  <2> QED BY <2>1 DEF FileInv, Ordered
<1> QED BY <1>1, FileInvHolds, PTL

(* The size that decides about the next file (shouldRotateFile) falls short of that of the file only
   by what a failed lookup missed when the file was opened, and exceeds it only after a failed write. *)
THEOREM SizeAlwaysFollows ==
  ASSUME Counts
  PROVE  LogFile!Spec => []SizeFollows
<1>1. FileInv => SizeFollows
  <2> SUFFICES ASSUME FileInv, logger.running, logger.open
               PROVE  Counted(logger, files[logger.current].size)
    BY DEF SizeFollows, LogFile!SizeFollows, Counted
  <2> QED BY DEF FileInv, FileTypes, IsOpened
<1> QED BY <1>1, FileInvHolds, PTL

-----------------------------------------------------------------------------
(* Signals of the system *)
Owned == 0 \notin SystemSignals /\ OwnerOf \in [SystemSignals -> Registrars]

Registrable == [sig : SystemSignals \cup {0}, user : BOOLEAN]
Registrations ==
  {System!Idle} \cup [pc : {"install", "remove"}, sig : SystemSignals]
    \cup [pc : {"callable", "add"}, object : Nat]

SignalTypes ==
  /\ action \in [SystemSignals -> {"default", "handler"}] /\ async \in BOOLEAN
  /\ handlers \in [SystemSignals -> Nat] /\ objects \in Seq(Registrable) /\ pipe \in Seq(SystemSignals)
  /\ client \in [Registrars -> Registrations]
  /\ reader \in [pc : {"none", "loop", "wait", "find", "call", "called", "ended"},
                 sig : SystemSignals \cup {0}, ptr : Nat]

(* an object is registered for one signal, and an orphan for none *)
Registry ==
  /\ \A r, s \in SystemSignals : handlers[r] = handlers[s] /\ handlers[r] # 0 => r = s
  /\ \A s \in SystemSignals : handlers[s] # 0 => /\ async /\ handlers[s] \in 1..Len(objects)
                                                 /\ handlers[s] \notin orphans
  /\ orphans \subseteq 1..Len(objects)

(* an object that its thread has not registered yet is nobody else's *)
Makes(c, o) == client[c].pc \in {"callable", "add"} /\ client[c].object = o
Makers ==
  /\ \A c \in Registrars : client[c].pc \in {"install", "remove"} => OwnerOf[client[c].sig] = c
  /\ \A c \in Registrars : \A o \in Nat : Makes(c, o) =>
    /\ o \in 1..Len(objects) /\ objects[o].sig \in SystemSignals /\ OwnerOf[objects[o].sig] = c
    /\ o \notin orphans /\ o # reader.ptr /\ \A s \in SystemSignals : handlers[s] # o

(* no object is forgotten while its user has it *)
Remembered(o) == o \in orphans \/ (\E s \in SystemSignals : handlers[s] = o) \/ (\E c \in Registrars : Makes(c, o))
UsersRemembered == \A o \in 1..Len(objects) : objects[o].user => Remembered(o)

(* what the thread calls is registered for what it has read, or was *)
InHands ==
  /\ reader.pc \in {"call", "called"} <=> reader.ptr # 0
  /\ reader.pc \in {"find", "call", "called"} => reader.sig \in SystemSignals
  /\ reader.ptr # 0 => reader.ptr \in orphans \/ handlers[reader.sig] = reader.ptr

(* the first object that is added starts the thread *)
Started == \A c \in Registrars : client[c].pc = "add" => async

(* what its thread is doing about a signal, and what stands meanwhile *)
Doing(s) ==
  LET d == client[OwnerOf[s]] IN
    IF d.pc \in {"install", "remove"} /\ d.sig = s THEN d.pc
    ELSE IF d.pc \in {"callable", "add"} /\ objects[d.object].sig = s THEN "making" ELSE "nothing"

SignalInv(s) ==
  /\ Doing(s) = "nothing" => /\ action[s] = "handler" <=> handlers[s] # 0
                             /\ handlers[s] # 0 => objects[handlers[s]].sig = s
  /\ Doing(s) = "install" => handlers[s] = 0
  /\ Doing(s) = "making" => handlers[s] = 0 /\ action[s] = "handler"
  /\ Doing(s) = "remove" => handlers[s] # 0 /\ action[s] = "default"

RunInv ==
  /\ SignalTypes /\ Registry /\ Makers /\ UsersRemembered /\ InHands /\ Started
  /\ \A s \in SystemSignals : SignalInv(s)

HandledInv == phase = "running" => RunInv

-----------------------------------------------------------------------------
(* A signal that a step is not about *)
Spared(s) ==
  /\ Doing(s)' = Doing(s) /\ action'[s] = action[s] /\ handlers'[s] = handlers[s]
  /\ handlers[s] # 0 => objects'[handlers[s]].sig = objects[handlers[s]].sig

LEMMA SparedKept ==
  ASSUME NEW s \in SystemSignals, SignalInv(s), Spared(s)
  PROVE  SignalInv(s)'
BY DEF SignalInv, Spared

(* one object is changed, or a member of it *)
With(o, new) == [objects EXCEPT ![o] = new]

LEMMA ObjectSet ==
  ASSUME SignalTypes, NEW o \in 1..Len(objects), NEW new \in Registrable
  PROVE  /\ With(o, new) \in Seq(Registrable) /\ Len(With(o, new)) = Len(objects) /\ With(o, new)[o] = new
         /\ \A q \in 1..Len(objects) : q # o => With(o, new)[q] = objects[q]
BY DEF SignalTypes, With

WithSig(o, v) == [objects EXCEPT ![o].sig = v]
WithUser(o, b) == [objects EXCEPT ![o].user = b]

LEMMA SigSet ==
  ASSUME SignalTypes, NEW o \in 1..Len(objects), NEW v \in SystemSignals \cup {0}
  PROVE  /\ WithSig(o, v) \in Seq(Registrable) /\ Len(WithSig(o, v)) = Len(objects)
         /\ WithSig(o, v)[o].sig = v /\ WithSig(o, v)[o].user = objects[o].user
         /\ \A q \in 1..Len(objects) : q # o => WithSig(o, v)[q] = objects[q]
<1>1. objects[o] \in Registrable
  BY DEF SignalTypes
<1>2. PICK new : new = [sig |-> v, user |-> objects[o].user]
  OBVIOUS
<1>3. new \in Registrable /\ [objects[o] EXCEPT !.sig = v] = new
  BY <1>1, <1>2 DEF Registrable
<1>4. WithSig(o, v) = With(o, new)
  BY <1>3 DEF With, WithSig
<1>5. /\ With(o, new) \in Seq(Registrable) /\ Len(With(o, new)) = Len(objects) /\ With(o, new)[o] = new
      /\ \A q \in 1..Len(objects) : q # o => With(o, new)[q] = objects[q]
  BY <1>3, ObjectSet
<1> QED BY <1>2, <1>4, <1>5

LEMMA UserSet ==
  ASSUME SignalTypes, NEW o \in 1..Len(objects), NEW b \in BOOLEAN
  PROVE  /\ WithUser(o, b) \in Seq(Registrable) /\ Len(WithUser(o, b)) = Len(objects)
         /\ WithUser(o, b)[o].user = b /\ WithUser(o, b)[o].sig = objects[o].sig
         /\ \A q \in 1..Len(objects) : q # o => WithUser(o, b)[q] = objects[q]
<1>1. objects[o] \in Registrable
  BY DEF SignalTypes
<1>2. PICK new : new = [sig |-> objects[o].sig, user |-> b]
  OBVIOUS
<1>3. new \in Registrable /\ [objects[o] EXCEPT !.user = b] = new
  BY <1>1, <1>2 DEF Registrable
<1>4. WithUser(o, b) = With(o, new)
  BY <1>3 DEF With, WithUser
<1>5. /\ With(o, new) \in Seq(Registrable) /\ Len(With(o, new)) = Len(objects) /\ With(o, new)[o] = new
      /\ \A q \in 1..Len(objects) : q # o => With(o, new)[q] = objects[q]
  BY <1>3, ObjectSet
<1> QED BY <1>2, <1>4, <1>5

(* a new one *)
LEMMA ObjectAdded ==
  ASSUME SignalTypes, NEW s \in SystemSignals, NEW objs, objs = Append(objects, [sig |-> s, user |-> TRUE])
  PROVE  /\ objs \in Seq(Registrable) /\ Len(objs) = Len(objects) + 1 /\ Len(objects) \in Nat
         /\ objs[Len(objects) + 1] = [sig |-> s, user |-> TRUE]
         /\ \A q \in 1..Len(objects) : objs[q] = objects[q]
<1>1. objects \in Seq(Registrable) /\ [sig |-> s, user |-> TRUE] \in Registrable
  BY DEF SignalTypes, Registrable
<1> QED BY <1>1

(* A client is doing one of five things. *)
LEMMA ClientStates ==
  ASSUME SignalTypes, NEW c \in Registrars
  PROVE  \/ client[c].pc = "idle"
         \/ client[c].pc \in {"install", "remove"} /\ client[c].sig \in SystemSignals
            /\ client[c] = [pc |-> client[c].pc, sig |-> client[c].sig]
         \/ client[c].pc \in {"callable", "add"} /\ client[c].object \in Nat
            /\ client[c] = [pc |-> client[c].pc, object |-> client[c].object]
<1>1. client[c] \in Registrations
  BY DEF SignalTypes
<1> QED BY <1>1 DEF Registrations, System!Idle

(* A step of a client leaves the other clients' signals as they are. *)
LEMMA OthersSpared ==
  ASSUME Owned, SignalTypes, Registry, Makers, NEW c \in Registrars, NEW s \in SystemSignals, OwnerOf[s] # c,
         \A d \in Registrars \ {c} : client'[d] = client[d],
         action'[s] = action[s], handlers'[s] = handlers[s],
         \A q \in 1..Len(objects) :
           (handlers[s] = q \/ \E d \in Registrars \ {c} : Makes(d, q)) => objects'[q].sig = objects[q].sig
  PROVE  Spared(s)
<1>1. OwnerOf[s] \in Registrars \ {c} /\ client'[OwnerOf[s]] = client[OwnerOf[s]]
  BY DEF Owned
<1>2. client[OwnerOf[s]].pc \in {"callable", "add"} =>
        objects'[client[OwnerOf[s]].object].sig = objects[client[OwnerOf[s]].object].sig
  <2> SUFFICES ASSUME client[OwnerOf[s]].pc \in {"callable", "add"}
               PROVE  objects'[client[OwnerOf[s]].object].sig = objects[client[OwnerOf[s]].object].sig
    OBVIOUS
  <2>1. PICK o \in Nat : o = client[OwnerOf[s]].object
    BY <1>1, ClientStates
  <2>2. Makes(OwnerOf[s], o)
    BY <2>1 DEF Makes
  <2>3. o \in 1..Len(objects)
    BY <1>1, <2>2 DEF Makers
  <2> QED BY <1>1, <2>1, <2>2, <2>3
<1>3. Doing(s)' = Doing(s)
  BY <1>1, <1>2 DEF Doing
<1>4. handlers[s] # 0 => objects'[handlers[s]].sig = objects[handlers[s]].sig
  BY DEF Registry
<1> QED BY <1>3, <1>4 DEF Spared

(* XSignal::Register makes an object, for a signal that has none. *)
LEMMA MakesObject ==
  ASSUME Owned, RunInv, NEW c \in Registrars, NEW sig \in SystemSignals, OwnerOf[sig] = c, handlers[sig] = 0,
         client[c].pc = "idle" \/ (client[c].pc = "install" /\ client[c].sig = sig),
         action' = [action EXCEPT ![sig] = "handler"],
         objects' = Append(objects, [sig |-> sig, user |-> TRUE]),
         client' = [client EXCEPT ![c] = [pc |-> "callable", object |-> Len(objects) + 1]],
         UNCHANGED <<async, handlers, orphans, pipe, reader>>
  PROVE  RunInv'
<1>0. SignalTypes /\ Registry /\ Makers /\ UsersRemembered /\ InHands /\ Started
  BY DEF RunInv
<1>1. PICK n \in Nat : n = Len(objects) + 1
  BY <1>0 DEF SignalTypes
<1>2. /\ objects' \in Seq(Registrable) /\ Len(objects') = n /\ Len(objects) = n - 1
      /\ objects'[n] = [sig |-> sig, user |-> TRUE] /\ \A q \in 1..(n - 1) : objects'[q] = objects[q]
  <2>1. PICK objs : objs = objects'
    OBVIOUS
  <2>2. objs = Append(objects, [sig |-> sig, user |-> TRUE])
    BY <2>1
  <2>3. /\ objs \in Seq(Registrable) /\ Len(objs) = Len(objects) + 1 /\ Len(objects) \in Nat
        /\ objs[Len(objects) + 1] = [sig |-> sig, user |-> TRUE]
        /\ \A q \in 1..Len(objects) : objs[q] = objects[q]
    BY <1>0, <2>2, ObjectAdded
  <2>4. Len(objects) = n - 1
    BY <1>1, <2>3
  <2> QED BY <1>1, <2>1, <2>3, <2>4
<1>3. /\ client'[c] = [pc |-> "callable", object |-> n] /\ \A d \in Registrars \ {c} : client'[d] = client[d]
      /\ action'[sig] = "handler" /\ \A s \in SystemSignals \ {sig} : action'[s] = action[s]
  BY <1>0, <1>1 DEF SignalTypes
<1>4. SignalTypes'
  BY <1>0, <1>1, <1>2, <1>3 DEF SignalTypes, Registrations
<1>5. Registry'
  BY <1>0, <1>1, <1>2 DEF Registry
<1>6. reader.ptr # n
  BY <1>0, <1>1, <1>2 DEF Registry, InHands
<1>7. Makers'
  <2>1. \A o \in Nat : Makes(c, o)' <=> o = n
    BY <1>3 DEF Makes
  <2>2. n \notin orphans /\ \A s \in SystemSignals : handlers[s] # n
    BY <1>1, <1>2, <1>0 DEF Registry
  <2>3. \A d \in Registrars \ {c} : \A o \in Nat : Makes(d, o)' <=> Makes(d, o)
    BY <1>3 DEF Makes
  <2>4. ASSUME NEW d \in Registrars, NEW o \in Nat, Makes(d, o)'
        PROVE  /\ o \in 1..Len(objects') /\ objects'[o].sig \in SystemSignals /\ OwnerOf[objects'[o].sig] = d
               /\ o \notin orphans' /\ o # reader'.ptr /\ \A s \in SystemSignals : handlers'[s] # o
    <3>1. CASE d = c
      BY <1>1, <1>2, <1>6, <2>1, <2>2, <2>4, <3>1
    <3>2. CASE d # c
      <4>1. Makes(d, o) /\ o \in 1..(n - 1)
        BY <1>0, <1>2, <2>3, <2>4, <3>2 DEF Makers
      <4>2. objects'[o] = objects[o] /\ o \in 1..n
        BY <1>2, <4>1
      <4>3. /\ objects[o].sig \in SystemSignals /\ OwnerOf[objects[o].sig] = d
            /\ o \notin orphans /\ o # reader.ptr /\ \A s \in SystemSignals : handlers[s] # o
        BY <1>0, <4>1 DEF Makers
      <4> QED BY <1>2, <4>2, <4>3
    <3> QED BY <3>1, <3>2
  <2>5. \A d \in Registrars : client'[d].pc \in {"install", "remove"} => OwnerOf[client'[d].sig] = d
    BY <1>0, <1>3 DEF Makers
  <2> QED BY <2>4, <2>5 DEF Makers
<1>8. UsersRemembered'
  <2>1. Remembered(n)'
    BY <1>3 DEF Remembered, Makes
  <2>2. ASSUME NEW o \in 1..(n - 1), objects[o].user PROVE Remembered(o)'
    <3>1. Remembered(o)
      BY <1>0, <1>2, <2>2 DEF UsersRemembered
    <3>2. \A d \in Registrars : Makes(d, o) => d # c
      BY DEF Makes
    <3>3. \A d \in Registrars : Makes(d, o) => Makes(d, o)'
      BY <1>3, <3>2 DEF Makes
    <3> QED BY <3>1, <3>3 DEF Remembered
  <2> QED BY <1>2, <2>1, <2>2 DEF UsersRemembered
<1>9. InHands'
  BY <1>0 DEF InHands
<1>10. ASSUME NEW s \in SystemSignals PROVE SignalInv(s)'
  <2>0. SignalInv(s)
    BY DEF RunInv
  <2>1. CASE s = sig
    <3>1. Doing(s)' = "making"
      BY <1>2, <1>3, <2>1 DEF Doing
    <3> QED BY <1>3, <2>1, <3>1 DEF SignalInv
  <2>2. CASE s # sig /\ OwnerOf[s] = c
    <3>1. Doing(s) = "nothing" /\ Doing(s)' = "nothing"
      BY <1>2, <1>3, <2>2 DEF Doing
    <3>2. handlers[s] # 0 => objects'[handlers[s]] = objects[handlers[s]]
      BY <1>0, <1>2 DEF Registry
    <3>3. Spared(s)
      BY <1>3, <2>2, <3>1, <3>2 DEF Spared
    <3> QED BY <2>0, <3>3, SparedKept
  <2>3. CASE OwnerOf[s] # c
    <3>1. s # sig
      BY <2>3
    <3>2. Spared(s)
      BY <1>0, <1>2, <1>3, <2>3, <3>1, OthersSpared
    <3> QED BY <2>0, <3>2, SparedKept
  <2> QED BY <2>1, <2>2, <2>3
<1>11. Started'
  BY <1>0, <1>3 DEF Started
<1> QED BY <1>4, <1>5, <1>7, <1>8, <1>9, <1>10, <1>11 DEF RunInv

(* It finds no object but the one it has made itself; now or before it looked. *)
LEMMA RegisterStep ==
  ASSUME Owned, RunInv, NEW c \in Registrars, NEW sig \in SystemSignals,
         System!Installed(c, sig) \/ System!Unlocked(c, sig) \/ System!Install(c)
  PROVE  RunInv'
<1>0. SignalTypes /\ Registry /\ Makers /\ UsersRemembered /\ InHands /\ Started
  BY DEF RunInv
<1>1. CASE System!Installed(c, sig)
  <2>1. /\ OwnerOf[sig] = c /\ handlers[sig] = 0 /\ client[c].pc = "idle"
        /\ action' = [action EXCEPT ![sig] = "handler"]
        /\ objects' = Append(objects, [sig |-> sig, user |-> TRUE])
        /\ client' = [client EXCEPT ![c] = [pc |-> "callable", object |-> Len(objects) + 1]]
        /\ UNCHANGED <<async, handlers, orphans, pipe, reader>>
    BY <1>1 DEF System!Installed, System!None, System!New, System!tables
  <2> QED BY <2>1, MakesObject
<1>2. CASE System!Install(c)
  <2>1. PICK s \in SystemSignals : s = client[c].sig /\ OwnerOf[s] = c /\ client[c].pc = "install"
    BY <1>0, <1>2, ClientStates DEF System!Install, Makers
  <2>2. handlers[s] = 0
    <3>1. Doing(s) = "install"
      BY <2>1 DEF Doing
    <3> QED BY <3>1 DEF RunInv, SignalInv
  <2>3. /\ action' = [action EXCEPT ![s] = "handler"]
        /\ objects' = Append(objects, [sig |-> s, user |-> TRUE])
        /\ client' = [client EXCEPT ![c] = [pc |-> "callable", object |-> Len(objects) + 1]]
        /\ UNCHANGED <<async, handlers, orphans, pipe, reader>>
    BY <1>2, <2>1 DEF System!Install, System!New, System!tables
  <2> QED BY <2>1, <2>2, <2>3, MakesObject
<1>3. CASE System!Unlocked(c, sig)
  <2>1. /\ client[c].pc = "idle" /\ OwnerOf[sig] = c /\ ~async
        /\ client' = [client EXCEPT ![c] = [pc |-> "install", sig |-> sig]]
        /\ UNCHANGED <<action, async, handlers, orphans, objects, pipe, reader>>
    BY <1>3 DEF System!Unlocked, System!tables
  <2>2. client'[c] = [pc |-> "install", sig |-> sig] /\ \A d \in Registrars \ {c} : client'[d] = client[d]
    BY <1>0, <2>1 DEF SignalTypes
  <2>3. \A d \in Registrars : \A o \in Nat : Makes(d, o)' <=> Makes(d, o)
    BY <2>1, <2>2 DEF Makes
  <2>4. SignalTypes'
    BY <1>0, <2>1 DEF SignalTypes, Registrations
  <2>5. Registry' /\ InHands'
    BY <1>0, <2>1 DEF Registry, InHands
  <2>6. Makers'
    BY <1>0, <2>1, <2>2, <2>3 DEF Makers
  <2>7. UsersRemembered'
    <3>1. ASSUME NEW o \in 1..Len(objects), Remembered(o) PROVE Remembered(o)'
      BY <2>1, <2>3, <3>1 DEF Remembered
    <3> QED BY <1>0, <2>1, <3>1 DEF UsersRemembered
  <2>8. ASSUME NEW s \in SystemSignals PROVE SignalInv(s)'
    <3>0. SignalInv(s) /\ handlers[s] = 0
      BY <1>0, <2>1 DEF RunInv, Registry
    <3>1. CASE s = sig
      <4>1. Doing(s)' = "install"
        BY <2>2, <2>1, <3>1 DEF Doing
      <4> QED BY <2>1, <3>0, <4>1 DEF SignalInv
    <3>2. CASE s # sig /\ OwnerOf[s] = c
      <4>1. Doing(s) = "nothing" /\ Doing(s)' = "nothing"
        BY <2>1, <2>2, <3>2 DEF Doing
      <4> QED BY <2>1, <3>0, <4>1, SparedKept DEF Spared
    <3>3. CASE OwnerOf[s] # c
      <4>1. Spared(s)
        BY <1>0, <2>1, <2>2, <3>3, OthersSpared
      <4> QED BY <3>0, <4>1, SparedKept
    <3> QED BY <3>1, <3>2, <3>3
  <2>9. Started'
    BY <1>0, <2>1, <2>2 DEF Started
  <2> QED BY <2>4, <2>5, <2>6, <2>7, <2>8, <2>9 DEF RunInv
<1> QED BY <1>1, <1>2, <1>3

(* The object fails to get its function and is destroyed, with the signal as it was. *)
LEMMA CallableFailsStep ==
  ASSUME Owned, RunInv, NEW c \in Registrars, System!CallableFails(c)
  PROVE  RunInv'
<1>0. SignalTypes /\ Registry /\ Makers /\ UsersRemembered /\ InHands /\ Started
  BY DEF RunInv
<1>1. PICK o \in Nat : o = client[c].object /\ Makes(c, o) /\ client[c].pc = "callable"
  BY <1>0, ClientStates DEF System!CallableFails, Makes
<1>2. PICK sig \in SystemSignals : sig = objects[o].sig
  BY <1>0, <1>1 DEF Makers
<1>3. /\ o \in 1..Len(objects) /\ OwnerOf[sig] = c /\ o \notin orphans /\ o # reader.ptr
      /\ \A s \in SystemSignals : handlers[s] # o
  BY <1>0, <1>1, <1>2 DEF Makers
<1>4. Doing(sig) = "making" /\ handlers[sig] = 0
  <2>1. Doing(sig) = "making"
    BY <1>1, <1>2, <1>3 DEF Doing
  <2> QED BY <2>1 DEF RunInv, SignalInv
<1>5. /\ action' = [s \in SystemSignals |-> IF s = sig THEN "default" ELSE action[s]]
      /\ objects' = [objects EXCEPT ![o] = [sig |-> 0, user |-> FALSE]]
      /\ client' = [client EXCEPT ![c] = System!Idle]
      /\ UNCHANGED <<async, handlers, orphans, pipe, reader>>
  <2>1. ~System!Kept(o, handlers, orphans, FALSE)
    BY <1>3 DEF System!Kept
  <2>2. action' = System!Reset(sig)
    BY <1>1, <1>2, <2>1 DEF System!CallableFails, System!Release
  <2> QED BY <1>1, <2>2 DEF System!CallableFails, System!Reset, System!None, System!tables
<1>6. /\ objects' \in Seq(Registrable) /\ Len(objects') = Len(objects) /\ objects'[o].user = FALSE
      /\ \A q \in 1..Len(objects) : q # o => objects'[q] = objects[q]
  <2>1. PICK new \in Registrable : new = [sig |-> 0, user |-> FALSE]
    BY DEF Registrable
  <2>2. objects' = With(o, new)
    BY <1>5, <2>1 DEF With
  <2>3. /\ objects' \in Seq(Registrable) /\ Len(objects') = Len(objects) /\ objects'[o] = new
        /\ \A q \in 1..Len(objects) : q # o => objects'[q] = objects[q]
    BY <1>0, <1>3, <2>2, ObjectSet
  <2> QED BY <2>1, <2>3
<1>7. client'[c].pc = "idle" /\ \A d \in Registrars \ {c} : client'[d] = client[d]
  BY <1>0, <1>5 DEF SignalTypes, System!Idle
<1>8. SignalTypes'
  BY <1>0, <1>5, <1>6 DEF SignalTypes, Registrations
<1>9. Registry' /\ InHands'
  BY <1>0, <1>5, <1>6 DEF Registry, InHands
<1>10. Makers'
  <2>1. ASSUME NEW d \in Registrars, NEW q \in Nat, Makes(d, q)'
        PROVE  /\ q \in 1..Len(objects') /\ objects'[q].sig \in SystemSignals /\ OwnerOf[objects'[q].sig] = d
               /\ q \notin orphans' /\ q # reader'.ptr /\ \A s \in SystemSignals : handlers'[s] # q
    <3>1. d # c /\ Makes(d, q)
      BY <1>7, <2>1 DEF Makes
    <3>2. /\ q \in 1..Len(objects) /\ objects[q].sig \in SystemSignals /\ OwnerOf[objects[q].sig] = d
          /\ q \notin orphans /\ q # reader.ptr /\ \A s \in SystemSignals : handlers[s] # q
      BY <1>0, <3>1 DEF Makers
    <3>3. q # o
      BY <1>2, <1>3, <3>1, <3>2
    <3> QED BY <1>5, <1>6, <3>2, <3>3
  <2>2. \A d \in Registrars : client'[d].pc \in {"install", "remove"} => OwnerOf[client'[d].sig] = d
    BY <1>0, <1>7 DEF Makers
  <2> QED BY <2>1, <2>2 DEF Makers
<1>11. UsersRemembered'
  <2>1. ASSUME NEW q \in 1..Len(objects), q # o, Remembered(q) PROVE Remembered(q)'
    <3>1. \A d \in Registrars : Makes(d, q) => d # c
      BY <1>1, <2>1 DEF Makes
    <3>2. \A d \in Registrars : Makes(d, q) => Makes(d, q)'
      BY <1>7, <3>1 DEF Makes
    <3> QED BY <1>5, <2>1, <3>2 DEF Remembered
  <2> QED BY <1>0, <1>6, <2>1 DEF UsersRemembered
<1>12. ASSUME NEW s \in SystemSignals PROVE SignalInv(s)'
  <2>0. SignalInv(s)
    BY DEF RunInv
  <2>1. CASE s = sig
    <3>1. Doing(s)' = "nothing" /\ action'[s] = "default" /\ handlers'[s] = 0
      BY <1>3, <1>4, <1>5, <1>7, <2>1 DEF Doing
    <3> QED BY <3>1 DEF SignalInv
  <2>2. CASE s # sig /\ OwnerOf[s] = c
    <3>1. Doing(s) = "nothing" /\ Doing(s)' = "nothing"
      BY <1>1, <1>2, <1>7, <2>2 DEF Doing
    <3>2. handlers[s] # 0 => objects'[handlers[s]] = objects[handlers[s]]
      BY <1>0, <1>3, <1>6 DEF Registry
    <3>3. Spared(s)
      BY <1>5, <2>2, <3>1, <3>2 DEF Spared
    <3> QED BY <2>0, <3>3, SparedKept
  <2>3. CASE OwnerOf[s] # c
    <3>1. s # sig
      BY <1>3, <2>3
    <3>2. ASSUME NEW q \in 1..Len(objects), handlers[s] = q \/ \E d \in Registrars \ {c} : Makes(d, q)
          PROVE  objects'[q].sig = objects[q].sig
      BY <1>0, <1>2, <1>3, <1>6, <3>2 DEF Makers
    <3>3. Spared(s)
      BY <1>0, <1>5, <1>7, <2>3, <3>1, <3>2, OthersSpared
    <3> QED BY <2>0, <3>3, SparedKept
  <2> QED BY <2>1, <2>2, <2>3
<1>13. Started'
  BY <1>0, <1>5, <1>7 DEF Started
<1> QED BY <1>8, <1>9, <1>10, <1>11, <1>12, <1>13 DEF RunInv

(* The object is about to be added, and the thread that reads the pipe runs. *)
LEMMA StartStep ==
  ASSUME Owned, RunInv, NEW c \in Registrars, System!Start(c)
  PROVE  RunInv'
<1>0. SignalTypes /\ Registry /\ Makers /\ UsersRemembered /\ InHands /\ Started
  BY DEF RunInv
<1>1. /\ client[c].pc = "callable" /\ async' = TRUE /\ client' = [client EXCEPT ![c].pc = "add"]
      /\ reader' = (IF async THEN reader ELSE System!Waiting("loop"))
      /\ UNCHANGED <<action, handlers, orphans, objects, pipe>>
  BY DEF System!Start, System!tables
<1>2. PICK o \in Nat : client[c] = [pc |-> "callable", object |-> o]
  BY <1>0, <1>1, ClientStates
<1>3. client'[c] = [pc |-> "add", object |-> o] /\ \A d \in Registrars \ {c} : client'[d] = client[d]
  BY <1>0, <1>1, <1>2 DEF SignalTypes
<1>4. \A d \in Registrars : \A q \in Nat : Makes(d, q)' <=> Makes(d, q)
  BY <1>2, <1>3 DEF Makes
<1>5. reader'.ptr = reader.ptr \/ reader' = [pc |-> "loop", sig |-> 0, ptr |-> 0]
  BY <1>1 DEF System!Waiting, System!None
<1>6. SignalTypes'
  <2>1. client' \in [Registrars -> Registrations]
    BY <1>0, <1>1, <1>2, <1>3 DEF SignalTypes, Registrations
  <2>2. reader' \in [pc : {"none", "loop", "wait", "find", "call", "called", "ended"},
                     sig : SystemSignals \cup {0}, ptr : Nat]
    BY <1>0, <1>1 DEF SignalTypes, System!Waiting, System!None
  <2> QED BY <1>0, <1>1, <2>1, <2>2 DEF SignalTypes
<1>7. Registry' /\ Started'
  BY <1>0, <1>1 DEF Registry, Started
<1>8. InHands'
  BY <1>0, <1>1 DEF InHands, System!Waiting, System!None
<1>9. Makers'
  <2>1. \A d \in Registrars : client'[d].pc \in {"install", "remove"} => OwnerOf[client'[d].sig] = d
    BY <1>0, <1>3 DEF Makers
  <2>2. ASSUME NEW d \in Registrars, NEW q \in Nat, Makes(d, q)'
        PROVE  /\ q \in 1..Len(objects') /\ objects'[q].sig \in SystemSignals /\ OwnerOf[objects'[q].sig] = d
               /\ q \notin orphans' /\ q # reader'.ptr /\ \A s \in SystemSignals : handlers'[s] # q
    <3>1. /\ q \in 1..Len(objects) /\ objects[q].sig \in SystemSignals /\ OwnerOf[objects[q].sig] = d
          /\ q \notin orphans /\ q # reader.ptr /\ \A s \in SystemSignals : handlers[s] # q
      BY <1>0, <1>4, <2>2 DEF Makers
    <3> QED BY <1>1, <1>5, <3>1
  <2> QED BY <2>1, <2>2 DEF Makers
<1>10. UsersRemembered'
  <2>1. ASSUME NEW q \in 1..Len(objects), Remembered(q) PROVE Remembered(q)'
    BY <1>1, <1>4, <2>1 DEF Remembered
  <2> QED BY <1>0, <1>1, <2>1 DEF UsersRemembered
<1>11. ASSUME NEW s \in SystemSignals PROVE SignalInv(s)'
  <2>1. Doing(s)' = Doing(s)
    <3>1. CASE OwnerOf[s] = c
      BY <1>1, <1>2, <1>3, <3>1 DEF Doing
    <3>2. CASE OwnerOf[s] # c
      <4>1. client'[OwnerOf[s]] = client[OwnerOf[s]]
        BY <1>3, <3>2 DEF Owned
      <4> QED BY <1>1, <4>1 DEF Doing
    <3> QED BY <3>1, <3>2
  <2> QED BY <1>1, <2>1, SparedKept DEF Spared, RunInv
<1> QED BY <1>6, <1>7, <1>8, <1>9, <1>10, <1>11 DEF RunInv

(* The object is added: nobody else has one for its signal. *)
LEMMA AddStep ==
  ASSUME Owned, RunInv, NEW c \in Registrars, System!AddHandler(c)
  PROVE  RunInv'
<1>0. SignalTypes /\ Registry /\ Makers /\ UsersRemembered /\ InHands /\ Started
  BY DEF RunInv
<1>1. PICK o \in Nat : o = client[c].object /\ Makes(c, o) /\ client[c].pc = "add"
  BY <1>0, ClientStates DEF System!AddHandler, Makes
<1>2. PICK sig \in SystemSignals : sig = objects[o].sig
  BY <1>0, <1>1 DEF Makers
<1>3. /\ o \in 1..Len(objects) /\ OwnerOf[sig] = c /\ o \notin orphans /\ o # reader.ptr
      /\ \A s \in SystemSignals : handlers[s] # o
  BY <1>0, <1>1, <1>2 DEF Makers
<1>4. Doing(sig) = "making" /\ handlers[sig] = 0 /\ action[sig] = "handler"
  <2>1. Doing(sig) = "making"
    BY <1>1, <1>2, <1>3 DEF Doing
  <2> QED BY <2>1 DEF RunInv, SignalInv
<1>5. /\ handlers' = [handlers EXCEPT ![sig] = o] /\ client' = [client EXCEPT ![c] = System!Idle] /\ async
      /\ UNCHANGED <<action, async, orphans, objects, pipe, reader>>
  <2>1. handlers' = [handlers EXCEPT ![sig] = IF @ = 0 THEN o ELSE @]
    BY <1>1, <1>2 DEF System!AddHandler, System!None
  <2>2. handlers' = [handlers EXCEPT ![sig] = o]
    BY <1>4, <2>1
  <2> QED BY <1>0, <1>1, <2>2 DEF System!AddHandler, Started
<1>6. handlers'[sig] = o /\ \A s \in SystemSignals \ {sig} : handlers'[s] = handlers[s]
  BY <1>0, <1>5 DEF SignalTypes
<1>7. client'[c].pc = "idle" /\ \A d \in Registrars \ {c} : client'[d] = client[d]
  BY <1>0, <1>5 DEF SignalTypes, System!Idle
<1>8. SignalTypes' /\ Started'
  BY <1>0, <1>5, <1>7 DEF SignalTypes, Registrations, Started
<1>9. Registry'
  <2>1. ASSUME NEW r \in SystemSignals, NEW s \in SystemSignals, handlers'[r] = handlers'[s], handlers'[r] # 0
        PROVE  r = s
    BY <1>0, <1>3, <1>6, <2>1 DEF Registry
  <2>2. ASSUME NEW s \in SystemSignals, handlers'[s] # 0
        PROVE  async' /\ handlers'[s] \in 1..Len(objects') /\ handlers'[s] \notin orphans'
    BY <1>0, <1>3, <1>5, <1>6, <2>2 DEF Registry
  <2> QED BY <1>0, <1>5, <2>1, <2>2 DEF Registry
<1>10. InHands'
  <2>1. reader.ptr # 0 /\ handlers[reader.sig] = reader.ptr => handlers'[reader.sig] = reader.ptr
    BY <1>0, <1>4, <1>6 DEF InHands
  <2> QED BY <1>0, <1>5, <2>1 DEF InHands
<1>11. Makers'
  <2>1. ASSUME NEW d \in Registrars, NEW q \in Nat, Makes(d, q)'
        PROVE  /\ q \in 1..Len(objects') /\ objects'[q].sig \in SystemSignals /\ OwnerOf[objects'[q].sig] = d
               /\ q \notin orphans' /\ q # reader'.ptr /\ \A s \in SystemSignals : handlers'[s] # q
    <3>1. d # c /\ Makes(d, q)
      BY <1>7, <2>1 DEF Makes
    <3>2. /\ q \in 1..Len(objects) /\ objects[q].sig \in SystemSignals /\ OwnerOf[objects[q].sig] = d
          /\ q \notin orphans /\ q # reader.ptr /\ \A s \in SystemSignals : handlers[s] # q
      BY <1>0, <3>1 DEF Makers
    <3>3. q # o
      BY <1>2, <1>3, <3>1, <3>2
    <3> QED BY <1>5, <1>6, <3>2, <3>3
  <2>2. \A d \in Registrars : client'[d].pc \in {"install", "remove"} => OwnerOf[client'[d].sig] = d
    BY <1>0, <1>7 DEF Makers
  <2> QED BY <2>1, <2>2 DEF Makers
<1>12. UsersRemembered'
  <2>1. ASSUME NEW q \in 1..Len(objects), Remembered(q) PROVE Remembered(q)'
    <3>1. CASE q = o
      BY <1>6, <3>1 DEF Remembered
    <3>2. CASE q # o
      <4>1. \A d \in Registrars : Makes(d, q) => d # c
        BY <1>1, <3>2 DEF Makes
      <4>2. \A d \in Registrars : Makes(d, q) => Makes(d, q)'
        BY <1>7, <4>1 DEF Makes
      <4>3. \A s \in SystemSignals : handlers[s] = q => handlers'[s] = q
        <5>1. q # 0
          OBVIOUS
        <5> QED BY <1>4, <1>6, <5>1
      <4> QED BY <1>5, <2>1, <4>2, <4>3 DEF Remembered
    <3> QED BY <3>1, <3>2
  <2> QED BY <1>0, <1>5, <2>1 DEF UsersRemembered
<1>13. ASSUME NEW s \in SystemSignals PROVE SignalInv(s)'
  <2>0. SignalInv(s)
    BY DEF RunInv
  <2>1. CASE s = sig
    <3>1. Doing(s)' = "nothing" /\ action'[s] = "handler" /\ handlers'[s] = o /\ o # 0 /\ objects'[o].sig = s
      BY <1>2, <1>3, <1>4, <1>5, <1>6, <1>7, <2>1 DEF Doing
    <3> QED BY <3>1 DEF SignalInv
  <2>2. CASE s # sig /\ OwnerOf[s] = c
    <3>1. Doing(s) = "nothing" /\ Doing(s)' = "nothing"
      BY <1>1, <1>2, <1>7, <2>2 DEF Doing
    <3>2. Spared(s)
      BY <1>5, <1>6, <2>2, <3>1 DEF Spared
    <3> QED BY <2>0, <3>2, SparedKept
  <2>3. CASE OwnerOf[s] # c
    <3>1. s # sig
      BY <1>3, <2>3
    <3>2. Spared(s)
      BY <1>0, <1>5, <1>6, <1>7, <2>3, <3>1, OthersSpared
    <3> QED BY <2>0, <3>2, SparedKept
  <2> QED BY <2>1, <2>2, <2>3
<1> QED BY <1>8, <1>9, <1>10, <1>11, <1>12, <1>13 DEF RunInv

(* An object is not registered any more: an orphan from now on, whatever was done about its
   signal before. *)
LEMMA RemovedStep ==
  ASSUME Owned, RunInv, NEW c \in Registrars, NEW sig \in SystemSignals, OwnerOf[sig] = c,
         NEW o, o = handlers[sig], o # 0,
         client[c].pc = "idle" \/ (client[c].pc = "remove" /\ client[c].sig = sig),
         client' \in [Registrars -> Registrations], client'[c].pc = "idle",
         \A d \in Registrars \ {c} : client'[d] = client[d],
         action' \in [SystemSignals -> {"default", "handler"}], action'[sig] = "default",
         \A s \in SystemSignals \ {sig} : action'[s] = action[s],
         System!Removed(sig, o),
         objects' \in Seq(Registrable), Len(objects') = Len(objects), objects'[o].user = objects[o].user,
         \A q \in 1..Len(objects) : q # o => objects'[q] = objects[q],
         UNCHANGED <<async, pipe, reader>>
  PROVE  RunInv'
<1>0. SignalTypes /\ Registry /\ Makers /\ UsersRemembered /\ InHands /\ Started
  BY DEF RunInv
<1>1. /\ handlers' = [handlers EXCEPT ![sig] = 0] /\ orphans' = orphans \cup {o}
      /\ o \in 1..Len(objects) /\ o \notin orphans
  BY <1>0 DEF System!Removed, System!Orphaned, System!None, Registry
<1>2. handlers'[sig] = 0 /\ \A s \in SystemSignals \ {sig} : handlers'[s] = handlers[s] /\ handlers[s] # o
  BY <1>0, <1>1 DEF SignalTypes, Registry
<1>3. SignalTypes'
  BY <1>0, <1>1 DEF SignalTypes
<1>4. Registry'
  <2>1. ASSUME NEW r \in SystemSignals, NEW s \in SystemSignals, handlers'[r] = handlers'[s], handlers'[r] # 0
        PROVE  r = s
    BY <1>0, <1>2, <2>1 DEF Registry
  <2>2. ASSUME NEW s \in SystemSignals, handlers'[s] # 0
        PROVE  async' /\ handlers'[s] \in 1..Len(objects') /\ handlers'[s] \notin orphans'
    BY <1>0, <1>1, <1>2, <2>2 DEF Registry
  <2>3. orphans' \subseteq 1..Len(objects')
    BY <1>0, <1>1 DEF Registry
  <2> QED BY <2>1, <2>2, <2>3 DEF Registry
<1>5. InHands'
  <2>1. reader.ptr # 0 /\ handlers[reader.sig] = reader.ptr =>
          reader.ptr \in orphans' \/ handlers'[reader.sig] = reader.ptr
    BY <1>0, <1>1, <1>2 DEF InHands
  <2>2. reader.ptr \in orphans => reader.ptr \in orphans'
    BY <1>1
  <2> QED BY <1>0, <2>1, <2>2 DEF InHands
<1>6. Started'
  BY <1>0 DEF Started
<1>7. \A d \in Registrars : \A q \in Nat : Makes(d, q)' <=> Makes(d, q)
  BY DEF Makes
<1>8. Makers'
  <2>1. \A d \in Registrars : client'[d].pc \in {"install", "remove"} => OwnerOf[client'[d].sig] = d
    BY <1>0 DEF Makers
  <2>2. ASSUME NEW d \in Registrars, NEW q \in Nat, Makes(d, q)'
        PROVE  /\ q \in 1..Len(objects') /\ objects'[q].sig \in SystemSignals /\ OwnerOf[objects'[q].sig] = d
               /\ q \notin orphans' /\ q # reader'.ptr /\ \A s \in SystemSignals : handlers'[s] # q
    <3>1. /\ q \in 1..Len(objects) /\ objects[q].sig \in SystemSignals /\ OwnerOf[objects[q].sig] = d
          /\ q \notin orphans /\ q # reader.ptr /\ \A s \in SystemSignals : handlers[s] # q
      BY <1>0, <1>7, <2>2 DEF Makers
    <3>2. q # o /\ q # 0
      BY <3>1
    <3>3. \A s \in SystemSignals : handlers'[s] # q
      BY <1>2, <3>1, <3>2
    <3> QED BY <1>1, <3>1, <3>2, <3>3
  <2> QED BY <2>1, <2>2 DEF Makers
<1>9. UsersRemembered'
  <2>1. ASSUME NEW q \in 1..Len(objects), Remembered(q) PROVE Remembered(q)'
    <3>1. \A s \in SystemSignals : handlers[s] = q => q \in orphans' \/ handlers'[s] = q
      BY <1>1, <1>2
    <3> QED BY <1>1, <1>7, <2>1, <3>1 DEF Remembered
  <2>2. \A q \in 1..Len(objects) : objects'[q].user = objects[q].user
    OBVIOUS
  <2> QED BY <1>0, <2>1, <2>2 DEF UsersRemembered
<1>10. ASSUME NEW s \in SystemSignals PROVE SignalInv(s)'
  <2>0. SignalInv(s)
    BY DEF RunInv
  <2>1. CASE s = sig
    <3>1. Doing(s)' = "nothing"
      BY <2>1 DEF Doing
    <3> QED BY <1>2, <2>1, <3>1 DEF SignalInv
  <2>2. CASE s # sig /\ OwnerOf[s] = c
    <3>1. Doing(s) = "nothing" /\ Doing(s)' = "nothing"
      BY <2>2 DEF Doing
    <3>2. handlers[s] # 0 => objects'[handlers[s]] = objects[handlers[s]]
      BY <1>0, <1>2, <2>2 DEF Registry
    <3>3. Spared(s)
      BY <1>2, <2>2, <3>1, <3>2 DEF Spared
    <3> QED BY <2>0, <3>3, SparedKept
  <2>3. CASE OwnerOf[s] # c
    <3>1. s # sig
      BY <2>3
    <3>2. ASSUME NEW q \in 1..Len(objects), handlers[s] = q \/ \E d \in Registrars \ {c} : Makes(d, q)
          PROVE  objects'[q].sig = objects[q].sig
      <4>1. q # o
        BY <1>0, <1>2, <3>1, <3>2 DEF Makers
      <4> QED BY <4>1
    <3>3. Spared(s)
      BY <1>0, <1>2, <2>3, <3>1, <3>2, OthersSpared
    <3> QED BY <2>0, <3>3, SparedKept
  <2> QED BY <2>1, <2>2, <2>3
<1> QED BY <1>3, <1>4, <1>5, <1>6, <1>8, <1>9, <1>10 DEF RunInv

LEMMA RemoveSteps ==
  ASSUME Owned, RunInv, NEW c \in Registrars, NEW sig \in SystemSignals,
         System!RemoveHandler(c) \/ System!SignalUnRegister(c, sig)
  PROVE  RunInv'
<1>0. SignalTypes /\ Registry /\ Makers
  BY DEF RunInv
<1>1. \A idle : idle = [client EXCEPT ![c] = System!Idle] =>
        /\ idle \in [Registrars -> Registrations] /\ idle[c].pc = "idle"
        /\ \A d \in Registrars \ {c} : idle[d] = client[d]
  BY <1>0 DEF SignalTypes, Registrations, System!Idle
<1>2. CASE System!RemoveHandler(c)
  <2>1. PICK s \in SystemSignals : s = client[c].sig /\ OwnerOf[s] = c /\ client[c].pc = "remove"
    BY <1>0, <1>2, ClientStates DEF System!RemoveHandler, Makers
  <2>2. handlers[s] # 0 /\ action[s] = "default"
    <3>1. Doing(s) = "remove"
      BY <2>1 DEF Doing
    <3> QED BY <3>1 DEF RunInv, SignalInv
  <2>3. /\ System!Removed(s, handlers[s]) /\ client' = [client EXCEPT ![c] = System!Idle]
        /\ UNCHANGED <<action, async, objects, pipe, reader>>
    BY <1>2, <2>1 DEF System!RemoveHandler
  <2>4. /\ client' \in [Registrars -> Registrations] /\ client'[c].pc = "idle"
        /\ \A d \in Registrars \ {c} : client'[d] = client[d]
    BY <1>1, <2>3
  <2> QED BY <1>0, <2>1, <2>2, <2>3, <2>4, RemovedStep DEF SignalTypes
<1>3. CASE System!SignalUnRegister(c, sig)
  <2>1. PICK o : o = handlers[sig]
    OBVIOUS
  <2>2. /\ client[c].pc = "idle" /\ OwnerOf[sig] = c /\ o # 0 /\ System!Removed(sig, o)
        /\ action' = System!Reset(objects[o].sig) /\ objects' = System!Unset(o)
        /\ UNCHANGED <<async, pipe, reader, client>>
    BY <1>3, <2>1 DEF System!SignalUnRegister, System!None
  <2>3. o \in 1..Len(objects) /\ objects[o].sig = sig
    <3>1. Doing(sig) = "nothing"
      BY <2>2 DEF Doing
    <3> QED BY <1>0, <2>1, <2>2, <3>1 DEF Registry, RunInv, SignalInv
  <2>4. /\ action' \in [SystemSignals -> {"default", "handler"}] /\ action'[sig] = "default"
        /\ \A s \in SystemSignals \ {sig} : action'[s] = action[s]
    BY <1>0, <2>2, <2>3 DEF System!Reset, SignalTypes
  <2>5. PICK v \in SystemSignals \cup {0} : objects' = WithSig(o, v)
    BY <2>2 DEF System!Unset, System!None, WithSig
  <2>6. /\ objects' \in Seq(Registrable) /\ Len(objects') = Len(objects)
        /\ objects'[o].user = objects[o].user
        /\ \A q \in 1..Len(objects) : q # o => objects'[q] = objects[q]
    BY <1>0, <2>3, <2>5, SigSet
  <2>7. client' \in [Registrars -> Registrations] /\ client'[c].pc = "idle"
    BY <1>0, <2>2 DEF SignalTypes
  <2> QED BY <2>1, <2>2, <2>4, <2>6, <2>7, RemovedStep
<1> QED BY <1>2, <1>3

(* XSignal::unregister: the default action again, the object still in the map *)
LEMMA UnregisterStep ==
  ASSUME Owned, RunInv, NEW c \in Registrars, NEW o \in DOMAIN objects, System!Unregister(c, o)
  PROVE  RunInv'
<1>0. SignalTypes /\ Registry /\ Makers /\ UsersRemembered /\ InHands /\ Started
  BY DEF RunInv
<1>1. PICK sig \in SystemSignals : OwnerOf[sig] = c /\ handlers[sig] = o
  BY DEF System!Unregister
<1>2. o \in 1..Len(objects) /\ o # 0 /\ o \notin orphans /\ client[c].pc = "idle" /\ objects[o].sig = sig
  <2>1. o \in 1..Len(objects) /\ client[c].pc = "idle"
    BY <1>0 DEF SignalTypes, System!Unregister
  <2>2. Doing(sig) = "nothing"
    BY <1>1, <2>1 DEF Doing
  <2> QED BY <1>0, <1>1, <2>1, <2>2 DEF Registry, RunInv, SignalInv
<1>3. /\ action' = System!Reset(sig) /\ objects' = System!Unset(o)
      /\ client' = [client EXCEPT ![c] = [pc |-> "remove", sig |-> sig]]
      /\ UNCHANGED <<async, handlers, orphans, pipe, reader>>
  BY <1>2 DEF System!Unregister, System!tables
<1>4. /\ action' \in [SystemSignals -> {"default", "handler"}] /\ action'[sig] = "default"
      /\ \A s \in SystemSignals \ {sig} : action'[s] = action[s]
  BY <1>0, <1>3 DEF System!Reset, SignalTypes
<1>5. PICK v \in SystemSignals \cup {0} : objects' = WithSig(o, v)
  BY <1>3 DEF System!Unset, System!None, WithSig
<1>6. /\ objects' \in Seq(Registrable) /\ Len(objects') = Len(objects)
      /\ \A q \in 1..Len(objects) : q # o => objects'[q] = objects[q]
      /\ \A q \in 1..Len(objects) : objects'[q].user = objects[q].user
  <2>1. /\ objects' \in Seq(Registrable) /\ Len(objects') = Len(objects)
        /\ objects'[o].user = objects[o].user
        /\ \A q \in 1..Len(objects) : q # o => objects'[q] = objects[q]
    BY <1>0, <1>2, <1>5, SigSet
  <2> QED BY <2>1
<1>7. client'[c] = [pc |-> "remove", sig |-> sig] /\ \A d \in Registrars \ {c} : client'[d] = client[d]
  BY <1>0, <1>3 DEF SignalTypes
<1>8. SignalTypes'
  BY <1>0, <1>3, <1>4, <1>6 DEF SignalTypes, Registrations
<1>9. Registry' /\ InHands' /\ Started'
  BY <1>0, <1>3, <1>6, <1>7 DEF Registry, InHands, Started
<1>10. \A d \in Registrars : \A q \in Nat : Makes(d, q)' <=> Makes(d, q)
  BY <1>2, <1>7 DEF Makes
<1>11. Makers'
  <2>1. \A d \in Registrars : client'[d].pc \in {"install", "remove"} => OwnerOf[client'[d].sig] = d
    BY <1>0, <1>1, <1>7 DEF Makers
  <2>2. ASSUME NEW d \in Registrars, NEW q \in Nat, Makes(d, q)'
        PROVE  /\ q \in 1..Len(objects') /\ objects'[q].sig \in SystemSignals /\ OwnerOf[objects'[q].sig] = d
               /\ q \notin orphans' /\ q # reader'.ptr /\ \A s \in SystemSignals : handlers'[s] # q
    <3>1. /\ q \in 1..Len(objects) /\ objects[q].sig \in SystemSignals /\ OwnerOf[objects[q].sig] = d
          /\ q \notin orphans /\ q # reader.ptr /\ \A s \in SystemSignals : handlers[s] # q
      BY <1>0, <1>10, <2>2 DEF Makers
    <3>2. q # o
      BY <1>1, <3>1
    <3> QED BY <1>3, <1>6, <3>1, <3>2
  <2> QED BY <2>1, <2>2 DEF Makers
<1>12. UsersRemembered'
  <2>1. ASSUME NEW q \in 1..Len(objects), Remembered(q) PROVE Remembered(q)'
    BY <1>3, <1>10, <2>1 DEF Remembered
  <2> QED BY <1>0, <1>6, <2>1 DEF UsersRemembered
<1>13. ASSUME NEW s \in SystemSignals PROVE SignalInv(s)'
  <2>0. SignalInv(s)
    BY DEF RunInv
  <2>1. CASE s = sig
    <3>1. Doing(s)' = "remove"
      BY <1>1, <1>7, <2>1 DEF Doing
    <3> QED BY <1>1, <1>2, <1>3, <1>4, <2>1, <3>1 DEF SignalInv
  <2>2. CASE s # sig /\ OwnerOf[s] = c
    <3>1. Doing(s) = "nothing" /\ Doing(s)' = "nothing"
      BY <1>2, <1>7, <2>2 DEF Doing
    <3>2. handlers[s] # 0 => objects'[handlers[s]] = objects[handlers[s]]
      BY <1>0, <1>1, <1>2, <1>6, <2>2 DEF Registry
    <3>3. Spared(s)
      BY <1>3, <1>4, <2>2, <3>1, <3>2 DEF Spared
    <3> QED BY <2>0, <3>3, SparedKept
  <2>3. CASE OwnerOf[s] # c
    <3>1. s # sig
      BY <1>1, <2>3
    <3>2. ASSUME NEW q \in 1..Len(objects), handlers[s] = q \/ \E d \in Registrars \ {c} : Makes(d, q)
          PROVE  objects'[q].sig = objects[q].sig
      <4>1. q # o
        BY <1>0, <1>1, <1>2, <3>1, <3>2 DEF Makers, Registry
      <4> QED BY <1>6, <4>1
    <3>3. Spared(s)
      BY <1>0, <1>3, <1>4, <1>7, <2>3, <3>1, <3>2, OthersSpared
    <3> QED BY <2>0, <3>3, SparedKept
  <2> QED BY <2>1, <2>2, <2>3
<1> QED BY <1>8, <1>9, <1>11, <1>12, <1>13 DEF RunInv

(* The thread that calls the objects goes on, or a user drops an object: nothing is registered
   nor removed, and the only signal that may be written is that of the object in the thread's
   hands, which is the signal it was registered for. *)
LEMMA ReadOn ==
  ASSUME Owned, RunInv, UNCHANGED <<action, async, handlers, orphans, client>>, SignalTypes', InHands',
         Len(objects') = Len(objects),
         \A q \in 1..Len(objects) :
           /\ objects'[q].user => objects[q].user
           /\ objects'[q].sig = objects[q].sig \/ (q = reader.ptr /\ objects'[q].sig = reader.sig)
  PROVE  RunInv'
<1>0. SignalTypes /\ Registry /\ Makers /\ UsersRemembered /\ InHands /\ Started
  BY DEF RunInv
<1>1. Registry' /\ Started'
  BY <1>0 DEF Registry, Started
<1>2. \A d \in Registrars : \A q \in Nat : Makes(d, q)' <=> Makes(d, q)
  BY DEF Makes
<1>3. ASSUME NEW d \in Registrars, NEW q \in Nat, Makes(d, q)
      PROVE  q \in 1..Len(objects) /\ objects'[q].sig = objects[q].sig /\ q # reader'.ptr
  <2>1. q \in 1..Len(objects) /\ q # reader.ptr /\ q \notin orphans /\ \A s \in SystemSignals : handlers[s] # q
    BY <1>0, <1>3 DEF Makers
  <2>2. reader'.ptr # 0 => reader'.sig \in SystemSignals
    BY DEF InHands
  <2>3. reader'.ptr # q
    BY <2>1, <2>2 DEF InHands
  <2> QED BY <2>1, <2>3
<1>4. Makers'
  <2>1. \A d \in Registrars : client'[d].pc \in {"install", "remove"} => OwnerOf[client'[d].sig] = d
    BY <1>0 DEF Makers
  <2>2. ASSUME NEW d \in Registrars, NEW q \in Nat, Makes(d, q)'
        PROVE  /\ q \in 1..Len(objects') /\ objects'[q].sig \in SystemSignals /\ OwnerOf[objects'[q].sig] = d
               /\ q \notin orphans' /\ q # reader'.ptr /\ \A s \in SystemSignals : handlers'[s] # q
    <3>1. /\ q \in 1..Len(objects) /\ objects[q].sig \in SystemSignals /\ OwnerOf[objects[q].sig] = d
          /\ q \notin orphans /\ q # reader.ptr /\ \A s \in SystemSignals : handlers[s] # q
      BY <1>0, <1>2, <2>2 DEF Makers
    <3>2. objects'[q].sig = objects[q].sig /\ q # reader'.ptr
      BY <1>2, <1>3, <2>2
    <3> QED BY <3>1, <3>2
  <2> QED BY <2>1, <2>2 DEF Makers
<1>5. UsersRemembered'
  <2>1. ASSUME NEW q \in 1..Len(objects), Remembered(q) PROVE Remembered(q)'
    BY <1>2, <2>1 DEF Remembered
  <2> QED BY <1>0, <2>1 DEF UsersRemembered
<1>6. ASSUME NEW s \in SystemSignals PROVE SignalInv(s)'
  <2>0. SignalInv(s)
    BY DEF RunInv
  <2>1. Doing(s)' = Doing(s)
    <3>1. client[OwnerOf[s]].pc \in {"callable", "add"} =>
            objects'[client[OwnerOf[s]].object].sig = objects[client[OwnerOf[s]].object].sig
      <4> SUFFICES ASSUME client[OwnerOf[s]].pc \in {"callable", "add"}
                   PROVE  objects'[client[OwnerOf[s]].object].sig = objects[client[OwnerOf[s]].object].sig
        OBVIOUS
      <4>1. OwnerOf[s] \in Registrars
        BY DEF Owned
      <4>2. PICK o \in Nat : o = client[OwnerOf[s]].object
        BY <1>0, <4>1, ClientStates
      <4>3. Makes(OwnerOf[s], o)
        BY <4>2 DEF Makes
      <4> QED BY <1>3, <4>1, <4>2, <4>3
    <3> QED BY <3>1 DEF Doing
  <2>2. handlers[s] # 0 /\ objects[handlers[s]].sig = s => objects'[handlers[s]].sig = s
    <3> SUFFICES ASSUME handlers[s] # 0, objects[handlers[s]].sig = s PROVE objects'[handlers[s]].sig = s
      OBVIOUS
    <3>1. handlers[s] \in 1..Len(objects) /\ handlers[s] \notin orphans
      BY <1>0 DEF Registry
    <3>2. CASE handlers[s] = reader.ptr
      <4>1. handlers[reader.sig] = handlers[s] /\ reader.sig \in SystemSignals
        BY <1>0, <3>1, <3>2 DEF InHands
      <4>2. reader.sig = s
        BY <1>0, <4>1 DEF Registry
      <4> QED BY <3>1, <4>2
    <3>3. CASE handlers[s] # reader.ptr
      BY <3>1, <3>3
    <3> QED BY <3>2, <3>3
  <2> QED BY <2>0, <2>1, <2>2 DEF SignalInv
<1> QED BY <1>0, <1>1, <1>4, <1>5, <1>6 DEF RunInv

LEMMA ReaderSteps ==
  ASSUME Owned, RunInv, System!Reader \/ \E sig \in SystemSignals : System!Raise(sig)
  PROVE  RunInv'
<1>0. SignalTypes /\ Registry /\ Makers /\ UsersRemembered /\ InHands /\ Started
  BY DEF RunInv
<1>1. CASE \E sig \in SystemSignals : System!Raise(sig)
  <2>1. pipe' \in Seq(SystemSignals) /\ UNCHANGED <<action, async, handlers, orphans, objects, reader, client>>
    BY <1>0, <1>1 DEF System!Raise, System!tables, SignalTypes
  <2>2. SignalTypes' /\ InHands'
    BY <1>0, <2>1 DEF SignalTypes, InHands
  <2> QED BY <2>1, <2>2, ReadOn
<1>2. CASE System!Loop
  <2>1. /\ reader'.pc \in {"ended", "wait"} /\ reader' = [pc |-> reader'.pc, sig |-> 0, ptr |-> 0]
        /\ UNCHANGED <<action, async, handlers, orphans, objects, pipe, client>>
    BY <1>2 DEF System!Loop, System!Waiting, System!None, System!tables
  <2>2. SignalTypes' /\ InHands'
    BY <1>0, <2>1 DEF SignalTypes, InHands
  <2> QED BY <2>1, <2>2, ReadOn
<1>3. CASE System!Read
  <2>1. UNCHANGED <<action, async, handlers, orphans, objects, client>>
    BY <1>3 DEF System!Read, System!tables
  <2>2. CASE pipe = <<>>
    <3>1. reader' = [pc |-> "loop", sig |-> 0, ptr |-> 0] /\ pipe' = pipe
      BY <1>3, <2>2 DEF System!Read, System!Waiting, System!None
    <3>2. SignalTypes' /\ InHands'
      BY <1>0, <2>1, <3>1 DEF SignalTypes, InHands
    <3> QED BY <2>1, <3>2, ReadOn
  <2>3. CASE pipe # <<>>
    <3>1. PICK sig \in SystemSignals : sig = Head(pipe)
      BY <1>0, <2>3 DEF SignalTypes
    <3>2. reader' = [pc |-> "find", sig |-> sig, ptr |-> 0] /\ pipe' = Tail(pipe)
      BY <1>3, <2>3, <3>1 DEF System!Read, System!None
    <3>3. pipe' \in Seq(SystemSignals)
      BY <1>0, <2>3, <3>2 DEF SignalTypes
    <3>4. SignalTypes' /\ InHands'
      BY <1>0, <2>1, <3>2, <3>3 DEF SignalTypes, InHands
    <3> QED BY <2>1, <3>4, ReadOn
  <2> QED BY <2>2, <2>3
<1>4. CASE System!FindHandler
  <2>1. UNCHANGED <<action, async, handlers, orphans, objects, pipe, client>> /\ reader.pc = "find"
    BY <1>4 DEF System!FindHandler, System!tables
  <2>2. PICK o : o = handlers[reader.sig]
    OBVIOUS
  <2>3. reader.sig \in SystemSignals /\ o \in Nat
    BY <1>0, <2>1, <2>2 DEF InHands, SignalTypes
  <2>4. \/ o = 0 /\ reader' = [pc |-> "loop", sig |-> 0, ptr |-> 0]
        \/ o # 0 /\ reader' = [reader EXCEPT !.pc = "call", !.ptr = o]
    BY <1>4, <2>2 DEF System!FindHandler, System!Waiting, System!None
  <2>5. \/ o = 0 /\ reader' = [pc |-> "loop", sig |-> 0, ptr |-> 0]
        \/ o # 0 /\ reader' = [pc |-> "call", sig |-> reader.sig, ptr |-> o]
    BY <1>0, <2>4 DEF SignalTypes
  <2>6. SignalTypes' /\ InHands'
    BY <1>0, <2>1, <2>2, <2>3, <2>5 DEF SignalTypes, InHands
  <2> QED BY <2>1, <2>6, ReadOn
<1>5. CASE System!CallHandler
  <2>1. /\ UNCHANGED <<action, async, handlers, orphans, pipe, client>> /\ reader.pc = "call"
        /\ reader' = [reader EXCEPT !.pc = "called"]
        /\ objects' = WithSig(reader.ptr, reader.sig)
    BY <1>5 DEF System!CallHandler, System!tables, WithSig
  <2>2. reader.ptr \in 1..Len(objects) /\ reader.sig \in SystemSignals
    BY <1>0, <2>1 DEF InHands, Registry
  <2>3. /\ objects' \in Seq(Registrable) /\ Len(objects') = Len(objects)
        /\ objects'[reader.ptr].sig = reader.sig /\ objects'[reader.ptr].user = objects[reader.ptr].user
        /\ \A q \in 1..Len(objects) : q # reader.ptr => objects'[q] = objects[q]
    BY <1>0, <2>1, <2>2, SigSet
  <2>4. reader' = [pc |-> "called", sig |-> reader.sig, ptr |-> reader.ptr]
    BY <1>0, <2>1 DEF SignalTypes
  <2>5. SignalTypes' /\ InHands'
    BY <1>0, <2>1, <2>3, <2>4 DEF SignalTypes, InHands
  <2> QED BY <2>1, <2>3, <2>5, ReadOn
<1>6. CASE System!Called
  <2>1. /\ UNCHANGED <<async, handlers, orphans, objects, pipe, client>> /\ reader.pc = "called"
        /\ reader' = [pc |-> "loop", sig |-> 0, ptr |-> 0]
    BY <1>6 DEF System!Called, System!Waiting, System!None, System!tables
  <2>2. UNCHANGED action
    <3>1. reader.sig \in SystemSignals /\ (reader.ptr \in orphans \/ handlers[reader.sig] = reader.ptr)
      BY <1>0, <2>1 DEF InHands
    <3>2. System!Kept(reader.ptr, handlers, orphans, objects[reader.ptr].user)
      BY <3>1 DEF System!Kept
    <3> QED BY <1>6, <3>2 DEF System!Called, System!Release
  <2>3. SignalTypes' /\ InHands'
    BY <1>0, <2>1, <2>2 DEF SignalTypes, InHands
  <2> QED BY <2>1, <2>2, <2>3, ReadOn
<1> QED BY <1>1, <1>2, <1>3, <1>4, <1>5, <1>6 DEF System!Reader

(* A user drops an object: it is registered or an orphan, so nothing else happens. *)
LEMMA DropStep ==
  ASSUME Owned, RunInv, NEW c \in Registrars, NEW o \in DOMAIN objects, System!Drop(c, o)
  PROVE  RunInv'
<1>0. SignalTypes /\ Registry /\ Makers /\ UsersRemembered /\ InHands /\ Started
  BY DEF RunInv
<1>1. /\ o \in 1..Len(objects) /\ objects[o].user /\ UNCHANGED <<async, handlers, orphans, pipe, reader, client>>
      /\ \A d \in Registrars : client[d].pc \in {"callable", "add"} => client[d].object # o
  BY <1>0 DEF SignalTypes, System!Drop, System!tables
<1>2. UNCHANGED action
  <2>1. Remembered(o)
    BY <1>0, <1>1 DEF UsersRemembered
  <2>2. \A d \in Registrars : ~Makes(d, o)
    BY <1>1 DEF Makes
  <2>3. System!Kept(o, handlers, orphans \cup {reader.ptr}, FALSE)
    BY <2>1, <2>2 DEF Remembered, System!Kept
  <2> QED BY <2>3 DEF System!Drop, System!Release
<1>3. PICK b \in BOOLEAN : objects' = WithUser(o, b) /\ ~b
  BY DEF System!Drop, WithUser
<1>4. /\ objects' \in Seq(Registrable) /\ Len(objects') = Len(objects)
      /\ objects'[o].user = b /\ objects'[o].sig = objects[o].sig
      /\ \A q \in 1..Len(objects) : q # o => objects'[q] = objects[q]
  BY <1>0, <1>1, <1>3, UserSet
<1>5. SignalTypes' /\ InHands'
  BY <1>0, <1>1, <1>2, <1>4 DEF SignalTypes, InHands
<1> QED BY <1>1, <1>2, <1>3, <1>4, <1>5, ReadOn

-----------------------------------------------------------------------------
LEMMA HandledInit ==
  ASSUME Owned, System!Init
  PROVE  HandledInv
<1>1. SignalTypes
  <2>1. objects \in Seq(Registrable) /\ pipe \in Seq(SystemSignals)
    BY DEF System!Init
  <2>2. client \in [Registrars -> Registrations]
    BY DEF System!Init, Registrations
  <2>3. reader \in [pc : {"none", "loop", "wait", "find", "call", "called", "ended"},
                    sig : SystemSignals \cup {0}, ptr : Nat]
    BY DEF System!Init, System!Waiting, System!None
  <2>4. /\ action \in [SystemSignals -> {"default", "handler"}] /\ async \in BOOLEAN
        /\ handlers \in [SystemSignals -> Nat]
    BY DEF System!Init, System!None
  <2> QED BY <2>1, <2>2, <2>3, <2>4 DEF SignalTypes
<1>2. Registry /\ Makers /\ UsersRemembered /\ InHands /\ Started
  BY DEF System!Init, System!Idle, System!Waiting, System!None, Registry, Makers, Makes, UsersRemembered, InHands,
         Started
<1>3. \A s \in SystemSignals : SignalInv(s)
  BY DEF System!Init, System!Idle, System!None, SignalInv, Doing, Owned
<1> QED BY <1>1, <1>2, <1>3 DEF HandledInv, RunInv

LEMMA HandledStep ==
  ASSUME Owned, HandledInv, [System!Next]_(System!vars)
  PROVE  HandledInv'
<1> SUFFICES ASSUME phase' = "running" PROVE RunInv'
  BY DEF HandledInv
<1>1. ASSUME NEW c \in Registrars, System!Client(c) PROVE RunInv'
  <2>0. phase = "running"
    BY <1>1 DEF System!Client, System!Installed, System!Unlocked, System!SignalUnRegister, System!Install,
                System!CallableFails, System!Start, System!AddHandler, System!RemoveHandler,
                System!Unregister, System!Drop
  <2>1. RunInv
    BY <2>0 DEF HandledInv
  <2>2. ASSUME NEW sig \in SystemSignals, System!Installed(c, sig) \/ System!Unlocked(c, sig)
        PROVE  RunInv'
    BY <2>1, <2>2, RegisterStep
  <2>3. ASSUME System!Install(c) PROVE RunInv'
    <3>1. PICK sig \in SystemSignals : sig = client[c].sig
      BY <2>1, <2>3, ClientStates DEF System!Install, RunInv
    <3> QED BY <2>1, <2>3, RegisterStep
  <2>4. ASSUME NEW sig \in SystemSignals, System!SignalUnRegister(c, sig) PROVE RunInv'
    BY <2>1, <2>4, RemoveSteps
  <2>5. ASSUME System!RemoveHandler(c) PROVE RunInv'
    <3>1. PICK sig \in SystemSignals : sig = client[c].sig
      BY <2>1, <2>5, ClientStates DEF System!RemoveHandler, RunInv
    <3> QED BY <2>1, <2>5, RemoveSteps
  <2>6. CASE System!CallableFails(c)
    BY <2>1, <2>6, CallableFailsStep
  <2>7. CASE System!Start(c)
    BY <2>1, <2>7, StartStep
  <2>8. CASE System!AddHandler(c)
    BY <2>1, <2>8, AddStep
  <2>9. ASSUME NEW o \in DOMAIN objects, System!Unregister(c, o) \/ System!Drop(c, o) PROVE RunInv'
    BY <2>1, <2>9, UnregisterStep, DropStep
  <2> QED BY <1>1, <2>2, <2>3, <2>4, <2>5, <2>6, <2>7, <2>8, <2>9 DEF System!Client
<1>2. CASE System!Reader \/ \E sig \in SystemSignals : System!Raise(sig)
  <2>1. phase = "running"
    BY <1>2 DEF System!Reader, System!Loop, System!Read, System!FindHandler, System!CallHandler,
                System!Called, System!Raise
  <2> QED BY <1>2, <2>1, ReaderSteps DEF HandledInv
<1>3. CASE System!Exit \/ System!StopHandler \/ System!DeConstruct
  BY <1>3 DEF System!Exit, System!StopHandler, System!DeConstruct
<1>4. CASE UNCHANGED System!vars
  <2>1. UNCHANGED <<action, async, phase, handlers, orphans, objects, pipe, reader, client>>
    BY <1>4 DEF System!vars, System!tables
  <2>2. RunInv
    BY <2>1 DEF HandledInv
  <2>3. SignalTypes' /\ InHands'
    BY <2>1, <2>2 DEF RunInv, SignalTypes, InHands
  <2> QED BY <2>1, <2>2, <2>3, ReadOn
<1> QED BY <1>1, <1>2, <1>3, <1>4 DEF System!Next

(* While the program runs and no call about a signal is in progress, the handler of the system is
   there for it if and only if an object is registered for it, and that object has the signal
   (XSignal::Register, unregister, callHandler): whoever unregisters or drops objects while the
   thread calls them. *)
THEOREM SignalsAlwaysHandled ==
  ASSUME Owned
  PROVE  System!Spec => []System!HandledIfRegistered
<1>1. System!Init => HandledInv
  BY HandledInit
<1>2. HandledInv /\ [System!Next]_(System!vars) => HandledInv'
  BY HandledStep
<1>3. HandledInv => System!HandledIfRegistered
  <2> SUFFICES ASSUME phase = "running", RunInv, NEW s \in SystemSignals, client[OwnerOf[s]].pc = "idle"
               PROVE  /\ action[s] = "handler" <=> handlers[s] # 0
                      /\ handlers[s] # 0 => objects[handlers[s]].sig = s
    BY DEF HandledInv, System!HandledIfRegistered, System!None
  <2>1. Doing(s) = "nothing"
    BY DEF Doing
  <2> QED BY <2>1 DEF RunInv, SignalInv
<1> QED BY <1>1, <1>2, <1>3, PTL DEF System!Spec

(* The two together: the handler of the system is there exactly for the signals that an object is
   registered for, and those of the crash diagnostics end the process only after the report. *)
THEOREM AlwaysHandledIfRegistered ==
  ASSUME Owned, Listed
  PROVE  System!Spec /\ Crash!Spec => []HandledIfRegistered
<1>1. System!Spec => []System!HandledIfRegistered
  BY SignalsAlwaysHandled
<1>2. Crash!Spec => []Crash!DiesReported
  BY CrashAlwaysReported
<1> QED BY <1>1, <1>2, PTL DEF HandledIfRegistered
-----------------------------------------------------------------------------
(* The ring buffer: XRingBuffer, for any capacity *)
Capacity == N \in Nat \ {0} /\ SizeMod \in Nat /\ N <= SizeMod

RingTypes ==
  /\ m_buffer_ \in [Ring!Positions -> Values] /\ m_head_ \in Ring!Positions /\ m_tail_ \in Ring!Positions
  /\ m_size_ \in 0..N /\ newest \in Seq(Values) /\ Len(newest) = m_size_ /\ drained \in BOOLEAN

(* a position on from h *)
Round(h, p) == IF h + p < N THEN h + p ELSE h + p - N

(* the tail is the last of m_size_ positions that begin with the head, and each has its value *)
InPlace ==
  /\ m_tail_ = IF m_size_ = 0 THEN m_head_ ELSE Round(m_head_, m_size_ - 1)
  /\ \A k \in 1..m_size_ : m_buffer_[Round(m_head_, k - 1)] = newest[k]

RingInv == RingTypes /\ (~drained => InPlace)

(* No index is more than once round. *)
LEMMA GoesRound ==
  ASSUME Capacity, NEW h \in Ring!Positions, NEW p \in 0..N
  PROVE  (h + p) % N = Round(h, p) /\ Round(h, p) \in Ring!Positions
<1>1. N \in Nat \ {0} /\ h \in Nat /\ h < N /\ p \in Nat /\ p <= N
  BY DEF Capacity, Ring!Positions
<1>2. Round(h, p) \in 0..(N - 1)
  BY <1>1 DEF Round
<1>3. \A m \in Nat \ {0} : \A a \in 0..(m - 1) : a % m = a /\ (a + m) % m = a
  OBVIOUS
<1>4. h + p = Round(h, p) \/ h + p = Round(h, p) + N
  BY <1>1 DEF Round
<1> QED BY <1>1, <1>2, <1>3, <1>4 DEF Ring!Positions

LEMMA GoApart ==
  ASSUME Capacity, NEW h \in 0..(N - 1), NEW i \in 0..(N - 1), NEW j \in 0..(N - 1), i # j
  PROVE  Round(h, i) \in 0..(N - 1) /\ Round(h, i) # Round(h, j)
BY DEF Capacity, Round

(* append *)
LEMMA Pushing ==
  ASSUME Capacity, RingInv, NEW v \in Values, Ring!push_back(v)
  PROVE  RingInv'
<1>0. /\ N \in Nat \ {0} /\ Ring!Positions = 0..(N - 1)
      /\ m_head_ \in 0..(N - 1) /\ m_tail_ \in 0..(N - 1) /\ m_size_ \in 0..N
  BY DEF Capacity, RingInv, RingTypes, Ring!Positions
<1>1. 1 \in 0..N
  BY <1>0
<1>2. /\ m_head_' = (IF m_size_ = N THEN Round(m_head_, 1) ELSE m_head_)
      /\ m_tail_' = (IF m_size_ = 0 THEN m_tail_ ELSE Round(m_tail_, 1))
  BY <1>0, <1>1, GoesRound DEF Ring!push_back, Ring!HeadAfter, Ring!TailAfter, Ring!Full
<1>3. m_head_' \in 0..(N - 1) /\ m_tail_' \in 0..(N - 1)
  BY <1>0, <1>2 DEF Round
<1> DEFINE size == IF m_size_ = N THEN N ELSE m_size_ + 1
<1>4. /\ m_size_' = size
      /\ m_buffer_' = [m_buffer_ EXCEPT ![m_tail_'] = v] /\ drained' = drained
      /\ newest' = Append(IF m_size_ = N THEN Tail(newest) ELSE newest, v)
  BY DEF Ring!push_back, Ring!Full, RingInv, RingTypes
<1>5. m_size_' = size /\ size \in 1..N
  BY <1>0, <1>4
<1>6. newest \in Seq(Values) /\ Len(newest) = m_size_
  BY DEF RingInv, RingTypes
<1>7. /\ newest' \in Seq(Values) /\ Len(newest') = m_size_' /\ newest'[m_size_'] = v
      /\ \A k \in 1..(size - 1) : newest'[k] = IF m_size_ = N THEN newest[k + 1] ELSE newest[k]
  <2>1. CASE m_size_ = N
    <3>1. newest # <<>>
      BY <1>0, <1>6, <2>1
    <3>2. /\ Tail(newest) \in Seq(Values) /\ Len(Tail(newest)) = N - 1
          /\ \A k \in 1..(N - 1) : Tail(newest)[k] = newest[k + 1]
      BY <1>0, <1>6, <2>1, <3>1
    <3>3. newest' = Append(Tail(newest), v) /\ m_size_' = N
      BY <1>4, <2>1
    <3> HIDE <1>4
    <3> DEFINE t == Tail(newest)
    <3> HIDE DEF t
    <3>4. t \in Seq(Values) /\ Len(t) = N - 1 /\ newest' = Append(t, v)
      BY <3>2, <3>3 DEF t
    <3>5. newest' \in Seq(Values) /\ Len(newest') = N /\ newest'[N] = v /\ \A k \in 1..(N - 1) : newest'[k] = t[k]
      BY <3>4, <1>0
    <3> QED BY <3>2, <3>3, <3>5, <2>1, <1>0 DEF t
  <2>2. CASE m_size_ # N
    BY <1>0, <1>4, <1>6, <2>2
  <2> QED BY <2>1, <2>2
<1>8. m_buffer_' \in [Ring!Positions -> Values] /\ m_buffer_'[m_tail_'] = v
      /\ \A i \in Ring!Positions : i # m_tail_' => m_buffer_'[i] = m_buffer_[i]
  BY <1>0, <1>3, <1>4 DEF RingInv, RingTypes
<1>9. RingTypes'
  BY <1>0, <1>3, <1>4, <1>5, <1>7, <1>8 DEF RingInv, RingTypes
<1>10. ASSUME ~drained PROVE InPlace'
  <2>1. /\ m_tail_ = (IF m_size_ = 0 THEN m_head_ ELSE Round(m_head_, m_size_ - 1))
        /\ \A k \in 1..m_size_ : m_buffer_[Round(m_head_, k - 1)] = newest[k]
    BY <1>10 DEF RingInv, InPlace
  <2>2. m_tail_' = Round(m_head_', m_size_' - 1)
    BY <1>0, <1>2, <1>4, <2>1 DEF Round
  <2>3. ASSUME NEW k \in 1..(size - 1) PROVE m_buffer_'[Round(m_head_', k - 1)] = newest'[k]
    <3>1. Round(m_head_', k - 1) \in Ring!Positions /\ Round(m_head_', k - 1) # m_tail_'
      <4>1. k - 1 \in 0..(N - 1) /\ size - 1 \in 0..(N - 1) /\ k - 1 # size - 1
        BY <1>0, <1>5
      <4>2. m_tail_' = Round(m_head_', size - 1)
        BY <1>5, <2>2
      <4> QED BY <1>0, <1>3, <4>1, <4>2, GoApart
    <3>2. CASE m_size_ = N
      <4>1. Round(m_head_', k - 1) = Round(m_head_, (k + 1) - 1) /\ k + 1 \in 1..m_size_
        BY <1>0, <1>2, <1>4, <3>2 DEF Round
      <4> QED BY <1>7, <1>8, <2>1, <3>1, <3>2, <4>1
    <3>3. CASE m_size_ # N
      <4>1. k \in 1..m_size_ /\ m_head_' = m_head_
        BY <1>0, <1>2, <1>4, <3>3
      <4> QED BY <1>7, <1>8, <2>1, <3>1, <3>3, <4>1
    <3> QED BY <3>2, <3>3
  <2>4. \A k \in 1..m_size_' : k = m_size_' \/ k \in 1..(size - 1)
    <3> HIDE DEF size
    <3> QED BY <1>0, <1>5
  <2>5. m_size_' # 0
    BY <1>5
  <2> QED BY <1>7, <1>8, <2>2, <2>3, <2>4, <2>5 DEF InPlace
<1> QED BY <1>4, <1>9, <1>10 DEF RingInv

LEMMA Popping ==
  ASSUME Capacity, RingInv, Ring!pop_front
  PROVE  RingInv'
<1>0. /\ N \in Nat \ {0} /\ Ring!Positions = 0..(N - 1)
      /\ m_head_ \in 0..(N - 1) /\ m_tail_ \in 0..(N - 1) /\ m_size_ \in 1..N
      /\ newest \in Seq(Values) /\ Len(newest) = m_size_ /\ drained \in BOOLEAN
  BY DEF Capacity, RingInv, RingTypes, Ring!Positions, Ring!pop_front
<1>1. 1 \in 0..N
  BY <1>0
<1>2. m_head_' = Round(m_head_, 1) /\ m_head_' \in 0..(N - 1)
  BY <1>0, <1>1, GoesRound DEF Ring!pop_front
<1>3. /\ m_size_' = m_size_ - 1 /\ newest' = Tail(newest) /\ drained' = (drained \/ m_size_ = 1)
      /\ m_buffer_' = m_buffer_ /\ m_tail_' = m_tail_
  BY DEF Ring!pop_front
<1>4. newest # <<>>
  BY <1>0
<1>5. /\ newest' \in Seq(Values) /\ Len(newest') = m_size_'
      /\ \A k \in 1..m_size_' : newest'[k] = newest[k + 1]
  BY <1>0, <1>3, <1>4
<1>6. RingTypes'
  BY <1>0, <1>2, <1>3, <1>5 DEF RingInv, RingTypes
<1>7. ASSUME ~drained' PROVE InPlace'
  <2>1. ~drained /\ m_size_ \in 2..N
    <3>1. ~drained /\ m_size_ # 1
      BY <1>3, <1>7, Zenon
    <3> QED BY <1>0, <3>1
  <2>2. /\ m_tail_ = Round(m_head_, m_size_ - 1)
        /\ \A k \in 1..m_size_ : m_buffer_[Round(m_head_, k - 1)] = newest[k]
    BY <2>1 DEF RingInv, InPlace
  <2>3. m_tail_' = Round(m_head_', m_size_' - 1) /\ m_size_' # 0
    <3>1. m_tail_ = Round(m_head_, m_size_ - 1) /\ m_size_' = m_size_ - 1 /\ m_tail_' = m_tail_
      BY <1>3, <2>2
    <3>2. N \in Nat /\ m_head_ \in 0..(N - 1) /\ m_size_ \in 2..N /\ m_head_' = Round(m_head_, 1)
      BY <1>0, <1>2, <2>1
    <3> QED BY <3>1, <3>2 DEF Round
  <2>4. ASSUME NEW k \in 1..m_size_' PROVE m_buffer_'[Round(m_head_', k - 1)] = newest'[k]
    <3>1. Round(m_head_', k - 1) = Round(m_head_, (k + 1) - 1) /\ k + 1 \in 1..m_size_
      BY <1>0, <1>2, <1>3, <2>1 DEF Round
    <3> QED BY <1>3, <1>5, <2>2, <3>1
  <2> QED BY <2>3, <2>4 DEF InPlace
<1> QED BY <1>6, <1>7 DEF RingInv

LEMMA RingBegins ==
  ASSUME Capacity, Ring!Init
  PROVE  RingInv
<1>0. /\ N \in Nat \ {0} /\ Ring!Positions = 0..(N - 1) /\ m_head_ = 0 /\ drained = FALSE
      /\ m_buffer_ \in [Ring!Positions -> Values]
  BY DEF Capacity, Ring!Init, Ring!Positions
<1>1. CASE m_tail_ = 0 /\ m_size_ = 0 /\ newest = <<>>
  <2>1. RingTypes
    <3>1. drained \in BOOLEAN
      BY <1>0
    <3> QED BY <1>0, <1>1, <3>1 DEF RingTypes
  <2>2. InPlace
    BY <1>0, <1>1 DEF InPlace
  <2> QED BY <2>1, <2>2 DEF RingInv
<1>2. CASE m_tail_ = N - 1 /\ m_size_ = N /\ newest = [k \in 1..N |-> m_buffer_[k - 1]]
  <2>1. \A k \in 1..N : k - 1 \in Ring!Positions
    BY <1>0
  <2>2. newest \in Seq(Values) /\ Len(newest) = N
    BY <1>0, <1>2, <2>1
  <2>3. RingTypes
    <3>1. drained \in BOOLEAN
      BY <1>0
    <3> QED BY <1>0, <1>2, <2>2, <3>1 DEF RingTypes
  <2>4. InPlace
    BY <1>0, <1>2 DEF InPlace, Round
  <2> QED BY <2>3, <2>4 DEF RingInv
<1> QED BY <1>1, <1>2 DEF Ring!Init

(* What the invariant says of operator[], front(), back() and the iterators. *)
LEMMA RingReads ==
  ASSUME Capacity, RingInv
  PROVE  Ring!KeepsNewest
<1> SUFFICES ASSUME ~drained PROVE Ring!KeepsNewest
  BY DEF Ring!KeepsNewest
<1>0. /\ N \in Nat \ {0} /\ Ring!Positions = 0..(N - 1) /\ SizeMod \in Nat /\ N <= SizeMod
      /\ m_head_ \in 0..(N - 1) /\ m_tail_ \in 0..(N - 1) /\ m_size_ \in 0..N
      /\ newest \in Seq(Values) /\ Len(newest) = m_size_
  BY DEF Capacity, RingInv, RingTypes, Ring!Positions
<1>1. /\ m_tail_ = (IF m_size_ = 0 THEN m_head_ ELSE Round(m_head_, m_size_ - 1))
      /\ \A k \in 1..m_size_ : m_buffer_[Round(m_head_, k - 1)] = newest[k]
  BY DEF RingInv, InPlace
<1>2. \A k \in 1..m_size_ : Ring!At(k - 1) = newest[k]
  <2> SUFFICES ASSUME NEW k \in 1..m_size_ PROVE Ring!At(k - 1) = newest[k]
    OBVIOUS
  <2>1. k - 1 \in 0..N
    BY <1>0
  <2>2. (m_head_ + (k - 1)) % N = Round(m_head_, k - 1)
    BY <1>0, <2>1, GoesRound
  <2> QED BY <1>1, <2>2 DEF Ring!At
<1>3. [k \in 1..m_size_ |-> Ring!At(k - 1)] = newest
  BY <1>0, <1>2
<1>4. newest # <<>> => Ring!Front = Head(newest) /\ Ring!Back = newest[Len(newest)]
  <2> SUFFICES ASSUME newest # <<>> PROVE Ring!Front = Head(newest) /\ Ring!Back = newest[Len(newest)]
    OBVIOUS
  <2>1. m_size_ \in 1..N /\ Head(newest) = newest[1]
    BY <1>0
  <2>2. Round(m_head_, 1 - 1) = m_head_
    BY <1>0 DEF Round
  <2>3. m_tail_ = Round(m_head_, m_size_ - 1)
    BY <1>1, <2>1
  <2>4. 1 \in 1..m_size_ /\ m_size_ \in 1..m_size_
    BY <2>1
  <2>5. m_buffer_[m_head_] = newest[1] /\ m_buffer_[m_tail_] = newest[m_size_]
    BY <1>1, <2>2, <2>3, <2>4
  <2> QED BY <1>0, <2>1, <2>5 DEF Ring!Front, Ring!Back
<1>5. ASSUME NEW i \in Ring!Elements, NEW j \in Ring!Elements
      PROVE  Ring!MayMove(i, j - i) /\ Ring!Moved(i, j - i) = j
  <2>1. i + (j - i) = j /\ j \in 0..(N - 1) /\ j \in 0..(SizeMod - 1) /\ j < m_size_
    BY <1>0 DEF Ring!Elements
  <2>2. \A m \in Nat : \A a \in 0..(m - 1) : a % m = a
    OBVIOUS
  <2>3. j % SizeMod = j /\ j % N = j
    BY <1>0, <2>1, <2>2
  <2>4. Ring!Moved(i, j - i) = j
    BY <2>1, <2>3 DEF Ring!Moved
  <2> QED BY <2>1, <2>4 DEF Ring!MayMove
<1>6. ASSUME m_head_ <= m_tail_, NEW i \in Ring!Elements
      PROVE  /\ Ring!MayIncrement(i) /\ Ring!MayDecrement(i + 1) /\ Ring!InBounds(i)
             /\ Ring!Deref(i) = newest[i + 1]
  <2>1. i \in 0..N /\ i + 1 \in 1..m_size_ /\ i < m_size_ /\ i + 1 > 0 /\ m_size_ # 0 /\ (i + 1) - 1 = i
    BY <1>0 DEF Ring!Elements
  <2>2. (m_head_ + i) % N = Round(m_head_, i)
    BY <1>0, <2>1, GoesRound
  <2>3. Round(m_head_, i) <= m_tail_
    BY <1>0, <1>1, <1>6, <2>1 DEF Round
  <2>4. Ring!Deref(i) = newest[i + 1]
    BY <1>2, <2>1 DEF Ring!Deref
  <2> QED BY <2>1, <2>2, <2>3, <2>4 DEF Ring!MayIncrement, Ring!MayDecrement, Ring!InBounds
<1>7. Ring!IteratesNewest
  BY <1>5, <1>6 DEF Ring!IteratesNewest
<1> QED BY <1>3, <1>4, <1>7 DEF Ring!KeepsNewest

(* The ring buffer has the newest values in the order they were pushed, however often its indices
   have gone round, until pop_front empties it; and its iterators find them there (XRingBuffer). *)
THEOREM NewestAlwaysKept ==
  ASSUME Capacity
  PROVE  Ring!Spec => []KeepsNewest
<1>1. Ring!Init => RingInv
  BY RingBegins
<1>2. RingInv /\ [Ring!Next]_(Ring!vars) => RingInv'
  <2> SUFFICES ASSUME RingInv, [Ring!Next]_(Ring!vars) PROVE RingInv'
    OBVIOUS
  <2>1. CASE Ring!clear
    <3>1. /\ m_head_' = 0 /\ m_tail_' = 0 /\ m_size_' = 0 /\ newest' = <<>> /\ drained' = FALSE
          /\ m_buffer_' = m_buffer_
      BY <2>1 DEF Ring!clear
    <3>2. RingTypes'
      BY <3>1 DEF RingInv, RingTypes, Capacity, Ring!Positions
    <3>3. InPlace'
      BY <3>1 DEF InPlace
    <3> QED BY <3>2, <3>3 DEF RingInv
  <2>2. CASE UNCHANGED Ring!vars
    BY <2>2 DEF Ring!vars, RingInv, RingTypes, InPlace
  <2> QED BY <2>1, <2>2, Pushing, Popping DEF Ring!Next
<1>3. RingInv => KeepsNewest
  BY RingReads DEF KeepsNewest
<1> QED BY <1>1, <1>2, <1>3, PTL DEF Ring!Spec

-----------------------------------------------------------------------------
(* The semaphore under a task, in builds before C++20, is XCounting_Semaphore *)

AcquirerPCs == {"out", "asleep", "woken", "late"}

(* The count is positive only when nobody sleeps: a release wakes all, and
   a thread goes to sleep only under the mutex and at zero. *)
PermitInv ==
  /\ acquirer \in [Acquirers -> AcquirerPCs]
  /\ {count_, desired, released, acquired} \subseteq Int
  /\ Semaphore!NoneSleepsOnPermits
  /\ Semaphore!PermitsAccounted

LEMMA SemaphoreInit == ASSUME LeastMaxValue \in Nat, Semaphore!Init PROVE PermitInv
BY DEF Semaphore!Init, PermitInv, AcquirerPCs, Semaphore!NoneSleepsOnPermits, Semaphore!PermitsAccounted

(* release: the new permits wake whoever sleeps *)
LEMMA SemaphoreRelease ==
  ASSUME LeastMaxValue \in Nat, Updates \subseteq Nat, PermitInv, NEW t \in Acquirers, Semaphore!Release(t)
  PROVE  PermitInv'
<1>1. PICK update \in Updates :
        /\ count_ <= LeastMaxValue - update
        /\ count_' = count_ + update /\ released' = released + update
  BY DEF Semaphore!Release
<1>2. update \in Nat
  BY <1>1
<1>3. acquirer' = [u \in Acquirers |-> IF acquirer[u] = "asleep" THEN "woken" ELSE acquirer[u]]
  BY DEF Semaphore!Release, Semaphore!Notified
<1>4. acquirer' \in [Acquirers -> AcquirerPCs] /\ \A u \in Acquirers : acquirer'[u] # "asleep"
  BY <1>3 DEF PermitInv, AcquirerPCs
<1>5. Semaphore!PermitsAccounted' /\ {count_, desired, released, acquired}' \subseteq Int
  BY <1>1, <1>2 DEF Semaphore!Release, PermitInv, Semaphore!PermitsAccounted
<1> QED BY <1>4, <1>5 DEF PermitInv, Semaphore!NoneSleepsOnPermits

(* a thread that takes a permit, or finds none: nobody falls asleep while there is one *)
LEMMA SemaphoreTake ==
  ASSUME LeastMaxValue \in Nat, PermitInv, NEW t \in Acquirers,
         Semaphore!Take(t) \/ Semaphore!Sleep(t) \/ Semaphore!Leave(t), UNCHANGED <<desired, released>>
  PROVE  PermitInv'
<1>1. CASE Semaphore!Take(t)
  <2>1. acquirer' \in [Acquirers -> AcquirerPCs]
    BY <1>1 DEF Semaphore!Take, PermitInv, AcquirerPCs
  <2>2. Semaphore!NoneSleepsOnPermits'
    BY <1>1 DEF Semaphore!Take, PermitInv, Semaphore!NoneSleepsOnPermits
  <2>3. Semaphore!PermitsAccounted' /\ {count_, desired, released, acquired}' \subseteq Int
    BY <1>1 DEF Semaphore!Take, PermitInv, Semaphore!PermitsAccounted
  <2> QED BY <2>1, <2>2, <2>3 DEF PermitInv
<1>2. CASE Semaphore!Sleep(t)
  BY <1>2 DEF Semaphore!Sleep, PermitInv, AcquirerPCs, Semaphore!NoneSleepsOnPermits, Semaphore!PermitsAccounted
<1>3. CASE Semaphore!Leave(t)
  BY <1>3 DEF Semaphore!Leave, PermitInv, AcquirerPCs, Semaphore!NoneSleepsOnPermits, Semaphore!PermitsAccounted
<1> QED BY <1>1, <1>2, <1>3

(* a thread that stops sleeping *)
LEMMA SemaphoreWake ==
  ASSUME PermitInv, NEW t \in Acquirers, Semaphore!Spurious(t) \/ Semaphore!Timeout(t)
  PROVE  PermitInv'
BY DEF Semaphore!Spurious, Semaphore!Timeout, PermitInv, AcquirerPCs, Semaphore!NoneSleepsOnPermits, Semaphore!PermitsAccounted

(* For every number of threads: no thread sleeps while there is a permit, and none is made up
   or lost (XCounting_Semaphore::release, acquire, try_acquire, try_acquire_for). *)
THEOREM SemaphoreSafe ==
  ASSUME LeastMaxValue \in Nat, Updates \subseteq Nat
  PROVE  Semaphore!Spec => []PermitsCounted
<1>1. Semaphore!Init => PermitInv
  BY SemaphoreInit
<1>2. PermitInv /\ [Semaphore!Next]_(Semaphore!vars) => PermitInv'
  <2> SUFFICES ASSUME PermitInv, [Semaphore!Next]_(Semaphore!vars) PROVE PermitInv'
    OBVIOUS
  <2>1. CASE UNCHANGED Semaphore!vars
    BY <2>1 DEF Semaphore!vars, PermitInv, Semaphore!NoneSleepsOnPermits, Semaphore!PermitsAccounted
  <2>2. ASSUME NEW t \in Acquirers, Semaphore!Step(t) PROVE PermitInv'
    <3>1. CASE Semaphore!Release(t)
      BY <3>1, SemaphoreRelease
    <3>2. CASE Semaphore!Acquire(t) \/ Semaphore!TryAcquire(t) \/ Semaphore!Again(t) \/ Semaphore!Late(t)
      BY <3>2, SemaphoreTake DEF Semaphore!Acquire, Semaphore!TryAcquire, Semaphore!Again, Semaphore!Late
    <3>3. CASE Semaphore!Spurious(t) \/ Semaphore!Timeout(t)
      BY <3>3, SemaphoreWake
    <3> QED BY <2>2, <3>1, <3>2, <3>3 DEF Semaphore!Step
  <2> QED BY <2>1, <2>2 DEF Semaphore!Next
<1>3. PermitInv => PermitsCounted
  BY DEF PermitInv, PermitsCounted
<1> QED BY <1>1, <1>2, <1>3, PTL DEF Semaphore!Spec
=============================================================================
