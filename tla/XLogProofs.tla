----------------------------- MODULE XLogProofs -----------------------------
(***************************************************************************)
(* Theorems about XLog for every value of its constants: any number of     *)
(* clients, messages and calls, any limits, with and without destruction.  *)
(***************************************************************************)
EXTENDS XLog, SequenceTheorems, FiniteSetTheorems, TLAPS

-----------------------------------------------------------------------------
(* Notifications *)

(* A notify_one changes where a sleeper is, and nothing else. *)
LEMMA NotifyOneType ==
  ASSUME TypeOK, NEW pcs \in [Clients -> ClientPCs], NotifyOne(pcs)
  PROVE  cpc' \in [Clients -> ClientPCs] /\ wpc' \in WorkerPCs
  BY DEF NotifyOne, TypeOK, ClientPCs, WorkerPCs

LEMMA NotifyClientsType ==
  ASSUME TypeOK, NotifyClients
  PROVE  /\ cpc' \in [Clients -> ClientPCs]
         /\ \A c \in Clients : cpc'[c] # "waiting"
         /\ \A c \in Clients : cpc[c] = "idle" => cpc'[c] = "idle"
  BY DEF NotifyClients, TypeOK, ClientPCs

-----------------------------------------------------------------------------
(* Types *)

LEMMA TypePush ==
  ASSUME TypeOK, NEW c \in Clients, LogPush(c)
  PROVE  TypeOK'
<1> USE DEF LogPush
<1> DEFINE q == IF Full THEN Tail(m_log_queue_) ELSE m_log_queue_
<1>1. q \in Seq(Messages)
  <2>1. CASE Full
    <3>1. m_log_queue_ # <<>>
      BY <2>1, XLogAssumption DEF Full, TypeOK
    <3> QED BY <3>1, <2>1 DEF TypeOK
  <2> QED BY <2>1 DEF TypeOK
<1>2. m_log_queue_' \in Seq(Messages)
  <2>1. logs + 1 \in Messages
    BY DEF TypeOK, Messages
  <2>2. m_log_queue_' = Append(q, logs + 1)
    BY DEF Pushed
  <2> HIDE DEF q
  <2> QED BY <1>1, <2>1, <2>2
<1>3. cpc' \in [Clients -> ClientPCs] /\ wpc' \in WorkerPCs
  <2>1. [cpc EXCEPT ![c] = IF op[c] = "fatal" THEN "check" ELSE "idle"]
          \in [Clients -> ClientPCs]
    BY DEF TypeOK, ClientPCs
  <2> QED BY <2>1, NotifyOneType
<1>4. /\ logs' \in Nat /\ mine' \in [Clients -> Nat] /\ dropped' \in Nat
      /\ m_max_queue_size_' \in Limits /\ m_shutdown_requested_' \in BOOLEAN
  BY DEF TypeOK
<1>5. /\ mutex' \in Clients \cup {Worker, NoOne} /\ hand' \in Nat
      /\ op' \in [Clients -> Ops] /\ dpc' \in {"alive", "notify", "join", "gone"}
      /\ waits' \in Nat /\ written' \in Seq(Messages) /\ failed' \in Nat
  BY DEF TypeOK
<1> QED BY <1>2, <1>3, <1>4, <1>5 DEF TypeOK

LEMMA TypeCall ==
  ASSUME TypeOK, NEW c \in Clients,
         LogCall(c) \/ WaitCall(c) \/ WaitCheck(c) \/ WaitTimeout(c) \/ FlushFile(c)
  PROVE  TypeOK'
<1> USE DEF TypeOK, queueVars, historyVars, ClientPCs
<1>1. CASE LogCall(c)
  BY <1>1, XLogAssumption DEF LogCall, Ops
<1>2. CASE WaitCall(c)
  BY <1>2, XLogAssumption DEF WaitCall, Ops
<1>3. CASE WaitCheck(c)
  BY <1>3 DEF WaitCheck
<1>4. CASE WaitTimeout(c)
  BY <1>4 DEF WaitTimeout
<1>5. CASE FlushFile(c)
  BY <1>5 DEF FlushFile
<1> QED BY <1>1, <1>2, <1>3, <1>4, <1>5

(* The worker holds a message exactly between taking it and having written it. *)
Holding == wpc \in {"popped", "writing"} <=> hand # 0

LEMMA TypeWorker ==
  ASSUME TypeOK, Holding, WorkerStep
  PROVE  TypeOK'
<1> USE DEF queueVars, historyVars
<1>1. CASE WorkerPop
  <2>1. Head(m_log_queue_) \in Nat /\ Tail(m_log_queue_) \in Seq(Messages)
    BY <1>1 DEF WorkerPop, Pending, TypeOK, Messages
  <2> QED BY <1>1, <2>1 DEF WorkerPop, Oldest, TypeOK, WorkerPCs
<1>2. CASE WorkerDrained
  BY <1>2, NotifyClientsType DEF WorkerDrained, TypeOK, WorkerPCs
<1>3. CASE WorkerToWait \/ WorkerSleep \/ WorkerWrite
  BY <1>3 DEF WorkerToWait, WorkerSleep, WorkerWrite, TypeOK, WorkerPCs
<1>4. CASE WorkerWritten
  <2>1. hand \in Messages
    BY <1>4 DEF WorkerWritten, Holding, Messages, TypeOK
  <2>2. Append(written, hand) \in Seq(Messages) /\ failed + 1 \in Nat
    BY <2>1 DEF TypeOK
  <2> QED BY <1>4, <2>2 DEF WorkerWritten, TypeOK, WorkerPCs
<1> QED BY <1>1, <1>2, <1>3, <1>4 DEF WorkerStep

LEMMA TypeOthers ==
  ASSUME TypeOK, SetAsyncQueueSize \/ DestroyStep
  PROVE  TypeOK'
<1> USE DEF queueVars, historyVars, TypeOK
<1>1. CASE SetAsyncQueueSize
  BY <1>1 DEF SetAsyncQueueSize
<1>2. CASE DestroyStep
  BY <1>2 DEF DestroyStep, DestroyStore, DestroyNotify, DestroyJoin, WorkerPCs
<1> QED BY <1>1, <1>2

LEMMA HoldingStep ==
  ASSUME TypeOK, Holding, [Next]_vars
  PROVE  Holding'
<1> USE DEF Holding
<1>1. ASSUME NEW c \in Clients, LogPush(c) PROVE Holding'
  BY <1>1 DEF LogPush, NotifyOne
<1>2. ASSUME NEW c \in Clients,
             LogCall(c) \/ WaitCall(c) \/ WaitCheck(c) \/ WaitTimeout(c) \/ FlushFile(c)
      PROVE  Holding'
  BY <1>2 DEF LogCall, WaitCall, WaitCheck, WaitTimeout, FlushFile
<1>3. CASE WorkerPop
  <2>1. Head(m_log_queue_) # 0
    BY <1>3 DEF WorkerPop, Pending, TypeOK, Messages
  <2> QED BY <1>3, <2>1 DEF WorkerPop, Oldest
<1>4. CASE WorkerDrained \/ WorkerToWait \/ WorkerSleep \/ WorkerWrite \/ WorkerWritten
  BY <1>4 DEF WorkerDrained, WorkerToWait, WorkerSleep, WorkerWrite, WorkerWritten
<1>5. CASE SetAsyncQueueSize \/ DestroyStep
  BY <1>5 DEF SetAsyncQueueSize, DestroyStep, DestroyStore, DestroyNotify, DestroyJoin
<1>6. CASE UNCHANGED vars
  BY <1>6 DEF vars
<1> QED BY <1>1, <1>2, <1>3, <1>4, <1>5, <1>6 DEF Next, ClientStep, WorkerStep, Quiescent

(* Every variable keeps its type; in particular the worker never writes a message that
   is not there, though it reads the queue, unlocks and writes in separate steps. *)
THEOREM TypeCorrect == Spec => []TypeOK
<1>1. Init => TypeOK /\ Holding
  <2> SUFFICES ASSUME Init PROVE TypeOK /\ Holding
    OBVIOUS
  <2>1. m_log_queue_ \in Seq(Messages) /\ written \in Seq(Messages)
    BY DEF Init
  <2>3. m_shutdown_requested_ \in BOOLEAN /\ m_max_queue_size_ \in Limits
    BY Zenon DEF Init
  <2>2. /\ cpc \in [Clients -> ClientPCs] /\ op \in [Clients -> Ops]
        /\ mine \in [Clients -> Nat]
    BY DEF Init, ClientPCs, Ops
  <2> QED BY <2>1, <2>2, <2>3 DEF Init, TypeOK, Holding, WorkerPCs
<1>2. TypeOK /\ Holding /\ [Next]_vars => (TypeOK /\ Holding)'
  <2> SUFFICES ASSUME TypeOK, Holding, [Next]_vars PROVE TypeOK'
    BY HoldingStep
  <2>1. ASSUME NEW c \in Clients, LogCall(c) \/ WaitCall(c) \/ ClientStep(c)
        PROVE  TypeOK'
    BY <2>1, TypePush, TypeCall DEF ClientStep
  <2>2. CASE UNCHANGED vars
    BY <2>2 DEF vars, queueVars, historyVars, TypeOK
  <2> QED BY <2>1, <2>2, TypeWorker, TypeOthers DEF Next, Quiescent
<1> QED BY <1>1, <1>2, PTL DEF Spec

-----------------------------------------------------------------------------
(* No message waits for a worker that was not told *)

(* m_queue_mutex_ is the worker's when it is about to sleep, a client's when its flush()
   is at the file. *)
AboutToSleep == mutex = Worker <=> wpc = "towait"
AtTheFile == \A c \in Clients : mutex = c <=> cpc[c] = "file"

(* A worker that found nothing holds on to that until it sleeps. *)
AsleepOnEmpty == wpc \in {"towait", "wait"} => m_log_queue_ = <<>>

(* Once the worker starts a round with an empty queue everyone who waited for that was
   told: a caller waits only while there are messages, or before the end of a round. *)
AllTold ==
  wpc \in {"lock", "towait", "wait"} /\ m_log_queue_ = <<>>
    => \A c \in Clients : cpc[c] # "waiting"

HearsInv == AboutToSleep /\ AtTheFile /\ AsleepOnEmpty /\ AllTold

LEMMA HearsPush ==
  ASSUME TypeOK, HearsInv, NEW c \in Clients, LogPush(c)
  PROVE  HearsInv'
<1> DEFINE pcs == [cpc EXCEPT ![c] = IF op[c] = "fatal" THEN "check" ELSE "idle"]
<1>1. pcs[c] # "waiting" /\ \A d \in Clients \ {c} : pcs[d] = cpc[d]
  BY DEF TypeOK
<1>2. wpc # "towait" /\ mutex' = mutex /\ mutex # Worker
  BY XLogAssumption DEF LogPush, HearsInv, AboutToSleep
<1>3. wpc = "wait" => wpc' = "lock"
  <2> SUFFICES ASSUME wpc = "wait" PROVE wpc' = "lock"
    OBVIOUS
  <2>1. \A d \in Clients : pcs[d] # "waiting"
    BY <1>1 DEF HearsInv, AllTold, AsleepOnEmpty
  <2>2. NotifyOne(pcs)
    BY DEF LogPush
  <2> HIDE DEF pcs
  <2> QED BY <2>1, <2>2 DEF NotifyOne
<1>4. wpc' \notin {"towait", "wait"}
  <2>1. wpc' \in {wpc, "lock"}
    BY DEF LogPush, NotifyOne
  <2> QED BY <2>1, <1>2, <1>3
<1>5. m_log_queue_' # <<>>
  <2> DEFINE q == IF Full THEN Tail(m_log_queue_) ELSE m_log_queue_
  <2>1. m_log_queue_' = Append(q, logs + 1)
    BY DEF LogPush, Pushed
  <2>2. q \in Seq(Messages)
    <3>1. Full => m_log_queue_ # <<>>
      BY XLogAssumption DEF Full, TypeOK
    <3> QED BY <3>1 DEF TypeOK
  <2> HIDE DEF q
  <2> QED BY <2>1, <2>2
<1>6. AtTheFile'
  <2>1. \A d \in Clients : pcs[d] = "file" <=> cpc[d] = "file" /\ d # c
    BY <1>1 DEF TypeOK
  <2>2. \A d \in Clients : cpc'[d] = "file" <=> pcs[d] = "file"
    <3>1. NotifyOne(pcs) /\ DOMAIN pcs = Clients
      BY DEF LogPush, TypeOK
    <3> HIDE DEF pcs
    <3> QED BY <3>1 DEF NotifyOne
  <2> QED BY <2>1, <2>2 DEF LogPush, HearsInv, AtTheFile
<1> QED BY <1>2, <1>4, <1>5, <1>6 DEF HearsInv, AboutToSleep, AsleepOnEmpty, AllTold

LEMMA HearsCall ==
  ASSUME TypeOK, HearsInv, NEW c \in Clients,
         LogCall(c) \/ WaitCall(c) \/ WaitCheck(c) \/ WaitTimeout(c) \/ FlushFile(c)
  PROVE  HearsInv'
<1> USE XLogAssumption
    DEF HearsInv, AboutToSleep, AtTheFile, AsleepOnEmpty, AllTold, queueVars, historyVars,
        TypeOK
<1>1. CASE LogCall(c)
  BY <1>1 DEF LogCall
<1>2. CASE WaitCall(c)
  BY <1>2 DEF WaitCall
<1>3. CASE WaitCheck(c)
  BY <1>3 DEF WaitCheck
<1>4. CASE WaitTimeout(c)
  BY <1>4 DEF WaitTimeout
<1>5. CASE FlushFile(c)
  BY <1>5 DEF FlushFile
<1> QED BY <1>1, <1>2, <1>3, <1>4, <1>5

LEMMA HearsWorker ==
  ASSUME TypeOK, HearsInv, WorkerStep
  PROVE  HearsInv'
<1> USE XLogAssumption
    DEF HearsInv, AboutToSleep, AtTheFile, AsleepOnEmpty, AllTold, queueVars, historyVars
<1>1. CASE WorkerPop
  BY <1>1 DEF WorkerPop
<1>2. CASE WorkerDrained
  <2>1. \A c \in Clients : cpc'[c] # "waiting"
    BY <1>2, NotifyClientsType DEF WorkerDrained
  <2>2. \A c \in Clients : cpc'[c] = "file" <=> cpc[c] = "file"
    BY <1>2 DEF WorkerDrained, NotifyClients, TypeOK
  <2> QED BY <1>2, <2>1, <2>2 DEF WorkerDrained
<1>3. CASE WorkerToWait
  BY <1>3 DEF WorkerToWait, Pending
<1>4. CASE WorkerSleep
  BY <1>4 DEF WorkerSleep
<1>5. CASE WorkerWrite \/ WorkerWritten
  BY <1>5 DEF WorkerWrite, WorkerWritten
<1> QED BY <1>1, <1>2, <1>3, <1>4, <1>5 DEF WorkerStep

LEMMA HearsOthers ==
  ASSUME TypeOK, HearsInv, SetAsyncQueueSize \/ DestroyStep \/ UNCHANGED vars
  PROVE  HearsInv'
<1> USE DEF HearsInv, AboutToSleep, AtTheFile, AsleepOnEmpty, AllTold, queueVars, historyVars
<1>1. CASE SetAsyncQueueSize
  BY <1>1 DEF SetAsyncQueueSize
<1>2. CASE DestroyStep
  BY <1>2 DEF DestroyStep, DestroyStore, DestroyNotify, DestroyJoin
<1>3. CASE UNCHANGED vars
  BY <1>3 DEF vars
<1> QED BY <1>1, <1>2, <1>3

(* The single notify_one of log() is enough for any number of callers that share the
   condition variable with the worker: while the worker sleeps the queue is empty and
   nobody else sleeps on the variable. *)
THEOREM WorkerAlwaysHears == Spec => []WorkerHears
<1>1. Init => HearsInv
  BY XLogAssumption DEF Init, HearsInv, AboutToSleep, AtTheFile, AsleepOnEmpty, AllTold
<1>2. TypeOK /\ HearsInv /\ [Next]_vars => HearsInv'
  <2> SUFFICES ASSUME TypeOK, HearsInv, [Next]_vars PROVE HearsInv'
    OBVIOUS
  <2> QED BY HearsPush, HearsCall, HearsWorker, HearsOthers DEF Next, ClientStep, Quiescent
<1>3. HearsInv => WorkerHears
  BY DEF HearsInv, AsleepOnEmpty, AllTold, WorkerHears
<1> QED BY <1>1, <1>2, <1>3, TypeCorrect, PTL DEF Spec

-----------------------------------------------------------------------------
(* Destruction and the limit *)

(* The worker ends only when it was asked to and has served everything; from the
   request on no client is in a call. *)
ShutdownInv ==
  /\ dpc = "alive" <=> ~m_shutdown_requested_
  /\ dpc # "alive" => \A c \in Clients : cpc[c] = "idle"
  /\ wpc = "done" => m_shutdown_requested_ /\ m_log_queue_ = <<>> /\ hand = 0
  /\ dpc = "gone" => wpc = "done"

(* The destructor returns only when every message that was accepted was served. *)
THEOREM NothingPendingAtExit == Spec => []DrainedAtExit
<1>1. Init => ShutdownInv
  BY DEF Init, ShutdownInv
<1>2. TypeOK /\ Holding /\ ShutdownInv /\ [Next]_vars => ShutdownInv'
  <2> SUFFICES ASSUME TypeOK, Holding, ShutdownInv, [Next]_vars PROVE ShutdownInv'
    OBVIOUS
  <2> USE DEF ShutdownInv, queueVars, historyVars
  <2>1. ASSUME NEW c \in Clients, LogPush(c) PROVE ShutdownInv'
    BY <2>1 DEF LogPush, NotifyOne
  <2>2. ASSUME NEW c \in Clients,
               LogCall(c) \/ WaitCall(c) \/ WaitCheck(c) \/ WaitTimeout(c) \/ FlushFile(c)
        PROVE  ShutdownInv'
    BY <2>2 DEF LogCall, WaitCall, WaitCheck, WaitTimeout, FlushFile
  <2>3. CASE WorkerPop \/ WorkerToWait \/ WorkerSleep \/ WorkerWrite \/ WorkerWritten
    BY <2>3 DEF WorkerPop, WorkerToWait, WorkerSleep, WorkerWrite, WorkerWritten
  <2>4. CASE WorkerDrained
    <3>1. hand = 0 /\ m_log_queue_ = <<>>
      BY <2>4 DEF WorkerDrained, Holding, Pending
    <3> QED BY <2>4, <3>1, NotifyClientsType DEF WorkerDrained
  <2>5. CASE SetAsyncQueueSize
    BY <2>5 DEF SetAsyncQueueSize
  <2>6. CASE DestroyStep
    BY <2>6 DEF DestroyStep, DestroyStore, DestroyNotify, DestroyJoin
  <2>7. CASE UNCHANGED vars
    BY <2>7 DEF vars
  <2> QED BY <2>1, <2>2, <2>3, <2>4, <2>5, <2>6, <2>7
             DEF Next, ClientStep, WorkerStep, Quiescent
<1>3. Init => Holding
  BY DEF Init, Holding
<1>4. ShutdownInv => DrainedAtExit
  BY DEF ShutdownInv, DrainedAtExit
<1> QED BY <1>1, <1>2, <1>3, <1>4, HoldingStep, TypeCorrect, PTL DEF Spec

(* With limits that are all positive the queue is never longer than the largest one that
   was ever set, however the setter runs against log(). *)
THEOREM QueueAlwaysBounded == Spec => []QueueBounded
<1>1. Init => QueueBounded
  <2> SUFFICES ASSUME Init, 0 \notin Limits PROVE \E n \in Limits : Len(m_log_queue_) <= n
    BY DEF QueueBounded
  <2>1. Len(m_log_queue_) = 0 /\ m_max_queue_size_ \in Limits
    BY DEF Init
  <2> QED BY <2>1, XLogAssumption
<1>2. TypeOK /\ TypeOK' /\ QueueBounded /\ [Next]_vars => QueueBounded'
  <2> SUFFICES ASSUME TypeOK, QueueBounded, [Next]_vars, 0 \notin Limits
               PROVE  \E n \in Limits : Len(m_log_queue_') <= n
    BY DEF QueueBounded
  <2>1. PICK n \in Limits : Len(m_log_queue_) <= n
    BY DEF QueueBounded
  <2>2. ASSUME NEW c \in Clients, LogPush(c)
        PROVE  \E k \in Limits : Len(m_log_queue_') <= k
    <3> DEFINE q == IF Full THEN Tail(m_log_queue_) ELSE m_log_queue_
    <3>1. m_log_queue_' = Append(q, logs + 1)
      BY <2>2 DEF LogPush, Pushed
    <3>2. CASE Full
      <4>1. Len(m_log_queue_) \in Nat /\ m_log_queue_ # <<>>
        BY <3>2, XLogAssumption DEF Full, TypeOK
      <4>2. q \in Seq(Messages) /\ Len(q) = Len(m_log_queue_) - 1
        BY <3>2, <4>1 DEF TypeOK
      <4> HIDE DEF q
      <4>3. Len(m_log_queue_') = Len(q) + 1
        BY <3>1, <4>2
      <4>4. Len(m_log_queue_') = Len(m_log_queue_)
        BY <4>1, <4>2, <4>3
      <4> QED BY <2>1, <4>4
    <3>3. CASE ~Full
      <4>1. Len(m_log_queue_) \in Nat /\ m_max_queue_size_ \in Nat /\ m_max_queue_size_ # 0
        BY XLogAssumption DEF TypeOK
      <4>2. Len(m_log_queue_) < m_max_queue_size_
        BY <3>3, <4>1 DEF Full
      <4>3. Len(m_log_queue_') = Len(m_log_queue_) + 1
        BY <3>1, <3>3 DEF TypeOK
      <4>4. Len(m_log_queue_') <= m_max_queue_size_
        BY <4>1, <4>2, <4>3
      <4> QED BY <4>4 DEF TypeOK
    <3> QED BY <3>2, <3>3
  <2>3. CASE WorkerPop
    <3>1. Len(m_log_queue_') = Len(m_log_queue_) - 1
      BY <2>3 DEF WorkerPop, Pending, TypeOK
    <3> QED BY <2>1, <3>1, XLogAssumption DEF TypeOK
  <2>4. CASE UNCHANGED m_log_queue_
    BY <2>1, <2>4
  <2>5. ASSUME NEW c \in Clients,
               LogCall(c) \/ WaitCall(c) \/ WaitCheck(c) \/ WaitTimeout(c) \/ FlushFile(c)
        PROVE  UNCHANGED m_log_queue_
    BY <2>5 DEF LogCall, WaitCall, WaitCheck, WaitTimeout, FlushFile, queueVars
  <2>6. ASSUME WorkerDrained \/ WorkerToWait \/ WorkerSleep \/ WorkerWrite \/ WorkerWritten
        PROVE  UNCHANGED m_log_queue_
    BY <2>6 DEF WorkerDrained, WorkerToWait, WorkerSleep, WorkerWrite, WorkerWritten,
                queueVars
  <2>7. ASSUME SetAsyncQueueSize \/ DestroyStep \/ UNCHANGED vars
        PROVE  UNCHANGED m_log_queue_
    BY <2>7 DEF SetAsyncQueueSize, DestroyStep, DestroyStore, DestroyNotify, DestroyJoin,
                vars, queueVars
  <2> QED BY <2>2, <2>3, <2>4, <2>5, <2>6, <2>7 DEF Next, ClientStep, WorkerStep, Quiescent
<1> QED BY <1>1, <1>2, TypeCorrect, PTL DEF Spec

-----------------------------------------------------------------------------
(* Messages are written in their order *)

Increasing(s) == \A i, j \in 1 .. Len(s) : i < j => s[i] < s[j]
Below(s, n) == \A i \in 1 .. Len(s) : s[i] < n
AllBefore(s, t) == \A i \in 1 .. Len(s) : \A j \in 1 .. Len(t) : s[i] < t[j]

(* A message later than all the others goes to the end. *)
LEMMA AppendLast ==
  ASSUME NEW s \in Seq(Messages), NEW m \in Messages, Increasing(s), Below(s, m)
  PROVE  /\ Append(s, m) \in Seq(Messages) /\ Increasing(Append(s, m))
         /\ Len(Append(s, m)) = Len(s) + 1
         /\ Below(Append(s, m), m + 1)
         /\ \A t \in Seq(Messages) :
              AllBefore(t, s) /\ Below(t, m) => AllBefore(t, Append(s, m))
<1> DEFINE a == Append(s, m)
<1>1. /\ a \in Seq(Messages) /\ Len(a) = Len(s) + 1 /\ Len(s) \in Nat
      /\ \A i \in 1 .. Len(s) : a[i] = s[i] /\ s[i] \in Nat
      /\ a[Len(s) + 1] = m /\ m \in Nat
  <2>1. \A i \in 1 .. Len(s) : s[i] \in Nat
    BY ElementOfSeq DEF Messages
  <2> QED BY <2>1, AppendProperties, LenProperties DEF Messages
<1> HIDE DEF a
<1>2. \A i \in 1 .. Len(a) : i \in 1 .. Len(s) \/ i = Len(s) + 1
  BY <1>1
<1>3. Increasing(a)
  <2> SUFFICES ASSUME NEW i \in 1 .. Len(a), NEW j \in 1 .. Len(a), i < j
               PROVE  a[i] < a[j]
    BY DEF Increasing
  <2>1. i \in 1 .. Len(s)
    BY <1>1, <1>2
  <2>2. CASE j \in 1 .. Len(s)
    BY <2>1, <2>2, <1>1 DEF Increasing
  <2>3. CASE j = Len(s) + 1
    BY <2>1, <2>3, <1>1 DEF Below
  <2> QED BY <2>2, <2>3, <1>2
<1>4. Below(a, m + 1)
  BY <1>1, <1>2 DEF Below
<1>5. ASSUME NEW t \in Seq(Messages), AllBefore(t, s), Below(t, m)
      PROVE  AllBefore(t, a)
  BY <1>1, <1>2, <1>5 DEF AllBefore, Below
<1> QED BY <1>1, <1>3, <1>4, <1>5 DEF a

(* The first message is earlier than the others. *)
LEMMA TakeFirst ==
  ASSUME NEW s \in Seq(Messages), s # <<>>, Increasing(s)
  PROVE  /\ Tail(s) \in Seq(Messages) /\ Increasing(Tail(s))
         /\ Len(Tail(s)) = Len(s) - 1
         /\ Head(s) \in Messages /\ AllBefore(<<Head(s)>>, Tail(s))
         /\ \A n \in Nat : Below(s, n) => Below(Tail(s), n) /\ Head(s) < n
         /\ \A t \in Seq(Messages) :
              AllBefore(t, s) => AllBefore(t, Tail(s)) /\ AllBefore(t, <<Head(s)>>)
<1> DEFINE r == Tail(s)
           h == Head(s)
<1>1. /\ r \in Seq(Messages) /\ Len(r) = Len(s) - 1
      /\ Len(s) \in Nat \ {0} /\ h \in Messages /\ h = s[1]
      /\ \A i \in 1 .. Len(r) : r[i] = s[i + 1]
  <2>1. Head(s) = s[1]
    OBVIOUS
  <2> QED BY <2>1, HeadTailProperties, EmptySeq
<1>2. Len(<<h>>) = 1 /\ <<h>>[1] = h
  OBVIOUS
<1> HIDE DEF r, h
<1>3. /\ 1 \in 1 .. Len(s)
      /\ \A i \in 1 .. Len(r) : i + 1 \in 1 .. Len(s) /\ 1 < i + 1
  BY <1>1
<1>4. Increasing(r)
  BY <1>1, <1>3 DEF Increasing
<1>5. AllBefore(<<h>>, r)
  BY <1>1, <1>2, <1>3 DEF Increasing, AllBefore
<1>6. ASSUME NEW n \in Nat, Below(s, n)
      PROVE  Below(r, n) /\ h < n
  BY <1>1, <1>3, <1>6 DEF Below
<1>7. ASSUME NEW t \in Seq(Messages), AllBefore(t, s)
      PROVE  AllBefore(t, r) /\ AllBefore(t, <<h>>)
  <2>1. \A i \in 1 .. Len(t) : \A j \in 1 .. Len(r) : t[i] < r[j]
    BY <1>1, <1>3, <1>7 DEF AllBefore
  <2>2. \A i \in 1 .. Len(t) : t[i] < h
    BY <1>1, <1>3, <1>7 DEF AllBefore
  <2>3. \A j \in 1 .. Len(<<h>>) : <<h>>[j] = h
    BY <1>2
  <2> QED BY <2>1, <2>2, <2>3 DEF AllBefore
<1> QED BY <1>1, <1>4, <1>5, <1>6, <1>7 DEF r, h

(* What was written, what the worker holds, and the queue are each in order and one
   before the other, and what is missing there was counted as dropped or failed. *)
InHand == IF hand = 0 THEN <<>> ELSE <<hand>>

OrderInv ==
  /\ Increasing(written) /\ Increasing(m_log_queue_)
  /\ AllBefore(written, InHand) /\ AllBefore(written, m_log_queue_)
  /\ AllBefore(InHand, m_log_queue_)
  /\ Below(written, logs + 1) /\ Below(InHand, logs + 1) /\ Below(m_log_queue_, logs + 1)
  /\ Len(written) + Len(InHand) + Len(m_log_queue_) + dropped + failed = logs

orderVars == <<m_log_queue_, hand, logs, written, dropped, failed>>

LEMMA InHandType ==
  ASSUME TypeOK
  PROVE  InHand \in Seq(Messages)
<1>1. hand \in Nat
  BY DEF TypeOK
<1>2. CASE hand = 0
  BY <1>2 DEF InHand
<1>3. CASE hand # 0
  <2>1. hand \in Messages /\ InHand = <<hand>>
    BY <1>1, <1>3 DEF Messages, InHand
  <2> QED BY <2>1
<1> QED BY <1>2, <1>3

LEMMA OrderPush ==
  ASSUME TypeOK, OrderInv, NEW c \in Clients, LogPush(c)
  PROVE  OrderInv'
<1> DEFINE q == IF Full THEN Tail(m_log_queue_) ELSE m_log_queue_
           w == written
<1>1. /\ w' = w /\ InHand' = InHand /\ failed' = failed /\ logs' = logs + 1
      /\ logs \in Nat /\ logs + 1 \in Messages /\ logs + 2 = (logs + 1) + 1
      /\ dropped \in Nat /\ failed \in Nat
      /\ w \in Seq(Messages) /\ InHand \in Seq(Messages)
      /\ m_log_queue_ \in Seq(Messages)
  <2>1. w' = w /\ hand' = hand /\ failed' = failed /\ logs' = logs + 1
    BY DEF LogPush
  <2>2. InHand' = InHand
    BY <2>1 DEF InHand
  <2>3. logs \in Nat /\ dropped \in Nat /\ failed \in Nat
    BY DEF TypeOK
  <2>4. logs + 1 \in Messages /\ logs + 2 = (logs + 1) + 1
    BY <2>3 DEF Messages
  <2> QED BY <2>1, <2>2, <2>3, <2>4, InHandType DEF TypeOK
<1>2. /\ q \in Seq(Messages) /\ Increasing(q) /\ Below(q, logs + 1)
      /\ AllBefore(w, q) /\ AllBefore(InHand, q)
      /\ Len(q) + dropped' = Len(m_log_queue_) + dropped
  <2>1. CASE Full
    <3>1. m_log_queue_ # <<>>
      BY <2>1, XLogAssumption DEF Full, TypeOK
    <3>2. q = Tail(m_log_queue_) /\ dropped' = dropped + 1 /\ Len(m_log_queue_) \in Nat
      BY <2>1, <1>1, LenProperties DEF LogPush
    <3>3. /\ Increasing(m_log_queue_) /\ Below(m_log_queue_, logs + 1) /\ logs + 1 \in Nat
          /\ AllBefore(w, m_log_queue_) /\ AllBefore(InHand, m_log_queue_)
      BY <1>1 DEF OrderInv
    <3> HIDE DEF q, w
    <3>4. /\ q \in Seq(Messages) /\ Increasing(q) /\ Below(q, logs + 1)
          /\ AllBefore(w, q) /\ AllBefore(InHand, q)
          /\ Len(q) = Len(m_log_queue_) - 1
      BY <1>1, <3>1, <3>2, <3>3, TakeFirst
    <3> QED BY <1>1, <3>2, <3>4
  <2>2. CASE ~Full
    BY <1>1, <2>2 DEF LogPush, OrderInv
  <2> QED BY <2>1, <2>2
<1>3. m_log_queue_' = Append(q, logs + 1)
  BY DEF LogPush, Pushed
<1> HIDE DEF q
<1>4. Below(w, logs + 1) /\ Below(InHand, logs + 1)
  BY DEF OrderInv
<1>5. /\ Increasing(m_log_queue_') /\ Below(m_log_queue_', logs + 2)
      /\ AllBefore(w, m_log_queue_') /\ AllBefore(InHand, m_log_queue_')
      /\ Len(m_log_queue_') = Len(q) + 1
  BY <1>1, <1>2, <1>3, <1>4, AppendLast
<1>6. Below(w, logs + 2) /\ Below(InHand, logs + 2)
  <2>1. \A s \in Seq(Messages) : Below(s, logs + 1) => Below(s, logs + 2)
    BY <1>1, ElementOfSeq DEF Below, Messages
  <2> QED BY <1>1, <1>4, <2>1
<1>7. Len(w) + Len(InHand) + Len(m_log_queue_') + dropped' + failed = logs + 1
  <2>1. dropped' \in Nat /\ Len(w) \in Nat /\ Len(InHand) \in Nat /\ Len(q) \in Nat
    BY <1>1, <1>2, LenProperties DEF LogPush
  <2>2. Len(m_log_queue_) \in Nat /\ dropped \in Nat /\ failed \in Nat /\ logs \in Nat
    BY <1>1, LenProperties
  <2>3. Len(w) + Len(InHand) + Len(m_log_queue_) + dropped + failed = logs
    BY DEF OrderInv
  <2>4. Len(q) + dropped' = Len(m_log_queue_) + dropped /\ Len(m_log_queue_') = Len(q) + 1
    BY <1>2, <1>5
  <2> HIDE DEF w
  <2> QED BY <2>1, <2>2, <2>3, <2>4
<1> HIDE DEF w
<1>8. Increasing(w) /\ AllBefore(w, InHand)
  BY DEF OrderInv, w
<1> QED BY <1>1, <1>5, <1>6, <1>7, <1>8 DEF OrderInv, w

LEMMA OrderPop ==
  ASSUME TypeOK, Holding, OrderInv, WorkerPop
  PROVE  OrderInv'
<1>1. /\ written' = written /\ logs' = logs /\ dropped' = dropped /\ failed' = failed
      /\ hand' = Head(m_log_queue_) /\ m_log_queue_' = Tail(m_log_queue_)
      /\ m_log_queue_ # <<>> /\ m_log_queue_ \in Seq(Messages) /\ written \in Seq(Messages)
      /\ logs \in Nat /\ dropped \in Nat /\ failed \in Nat
  BY DEF WorkerPop, Pending, Oldest, historyVars, TypeOK
<1>2. Increasing(m_log_queue_) /\ Below(m_log_queue_, logs + 1) /\ AllBefore(written, m_log_queue_)
  BY DEF OrderInv
<1>3. InHand = <<>> /\ InHand' = <<Head(m_log_queue_)>>
  <2>1. hand = 0
    BY DEF WorkerPop, Holding
  <2>2. Head(m_log_queue_) # 0
    BY <1>1, <1>2, TakeFirst DEF Messages
  <2> QED BY <1>1, <2>1, <2>2 DEF InHand
<1>4. /\ Increasing(m_log_queue_') /\ Below(m_log_queue_', logs + 1)
      /\ AllBefore(written, m_log_queue_') /\ AllBefore(written, InHand')
      /\ AllBefore(InHand', m_log_queue_') /\ Head(m_log_queue_) < logs + 1
      /\ Len(m_log_queue_') = Len(m_log_queue_) - 1
  <2>1. logs + 1 \in Nat
    BY <1>1
  <2> QED BY <1>1, <1>2, <1>3, <2>1, TakeFirst
<1>5. Len(InHand) = 0 /\ Len(InHand') = 1 /\ Below(InHand', logs + 1)
  BY <1>3, <1>4 DEF Below
<1>6. Len(written) + Len(InHand') + Len(m_log_queue_') + dropped + failed = logs
  <2>1. Len(written) \in Nat /\ Len(m_log_queue_) \in Nat
    BY <1>1, LenProperties
  <2> QED BY <1>1, <1>4, <1>5, <2>1 DEF OrderInv
<1>7. Increasing(written) /\ Below(written, logs + 1)
  BY DEF OrderInv
<1> QED BY <1>1, <1>4, <1>5, <1>6, <1>7 DEF OrderInv

LEMMA OrderWritten ==
  ASSUME TypeOK, Holding, OrderInv, WorkerWritten
  PROVE  OrderInv'
<1> DEFINE q == m_log_queue_
<1>1. /\ q' = q /\ logs' = logs /\ dropped' = dropped /\ hand' = 0
      /\ hand \in Messages /\ InHand = <<hand>> /\ InHand' = <<>>
      /\ written \in Seq(Messages) /\ q \in Seq(Messages)
      /\ logs \in Nat /\ dropped \in Nat /\ failed \in Nat
  BY DEF WorkerWritten, Holding, Messages, TypeOK, InHand, queueVars
<1>2. Len(InHand) = 1 /\ Len(InHand') = 0 /\ InHand[1] = hand
  BY <1>1
<1>3. Below(written, hand) /\ hand < logs + 1 /\ \A j \in 1 .. Len(q) : hand < q[j]
  BY <1>2 DEF OrderInv, AllBefore, Below
<1>4. AllBefore(written', InHand') /\ AllBefore(InHand', q') /\ Below(InHand', logs' + 1)
  BY <1>2 DEF AllBefore, Below
<1>5. Increasing(q') /\ Below(q', logs' + 1)
  BY <1>1 DEF OrderInv
<1>6. Len(written) \in Nat /\ Len(q) \in Nat
  BY <1>1, LenProperties
<1>7. CASE written' = Append(written, hand) /\ failed' = failed
  <2>1. /\ Increasing(written') /\ Len(written') = Len(written) + 1
        /\ Below(written', hand + 1) /\ written' \in Seq(Messages)
    BY <1>1, <1>3, <1>7, AppendLast DEF OrderInv
  <2>2. Below(written', logs' + 1)
    <3>1. \A i \in 1 .. Len(written') : written'[i] \in Nat
      BY <2>1, ElementOfSeq DEF Messages
    <3> QED BY <1>1, <1>3, <2>1, <3>1 DEF Below, Messages
  <2>3. AllBefore(written', q')
    <3>1. \A i \in 1 .. Len(written') : written'[i] \in Nat
      BY <2>1, ElementOfSeq DEF Messages
    <3>2. \A j \in 1 .. Len(q) : q[j] \in Nat
      BY <1>1, ElementOfSeq DEF Messages
    <3>3. \A i \in 1 .. Len(written') : written'[i] <= hand
      BY <1>1, <2>1, <3>1 DEF Below, Messages
    <3> HIDE DEF q
    <3> QED BY <1>1, <1>3, <3>1, <3>2, <3>3 DEF AllBefore, Messages
  <2>4. Len(written') + Len(InHand') + Len(q') + dropped' + failed' = logs'
    BY <1>1, <1>2, <1>6, <1>7, <2>1 DEF OrderInv
  <2> QED BY <1>4, <1>5, <2>1, <2>2, <2>3, <2>4 DEF OrderInv
<1>8. CASE failed' = failed + 1 /\ written' = written
  <2>1. Len(written') + Len(InHand') + Len(q') + dropped' + failed' = logs'
    BY <1>1, <1>2, <1>6, <1>8 DEF OrderInv
  <2>2. Increasing(written') /\ AllBefore(written', q') /\ Below(written', logs' + 1)
    BY <1>1, <1>8 DEF OrderInv
  <2> QED BY <1>4, <1>5, <2>1, <2>2 DEF OrderInv
<1> QED BY <1>7, <1>8 DEF WorkerWritten

LEMMA OrderStep ==
  ASSUME TypeOK, Holding, OrderInv, [Next]_vars
  PROVE  OrderInv'
<1>1. ASSUME UNCHANGED orderVars PROVE OrderInv'
  BY <1>1 DEF orderVars, OrderInv, InHand
<1> USE DEF orderVars, queueVars, historyVars
<1>2. ASSUME NEW c \in Clients,
             LogCall(c) \/ WaitCall(c) \/ WaitCheck(c) \/ WaitTimeout(c) \/ FlushFile(c)
      PROVE  OrderInv'
  BY <1>1, <1>2 DEF LogCall, WaitCall, WaitCheck, WaitTimeout, FlushFile
<1>3. CASE WorkerDrained \/ WorkerToWait \/ WorkerSleep \/ WorkerWrite
  BY <1>1, <1>3 DEF WorkerDrained, WorkerToWait, WorkerSleep, WorkerWrite
<1>4. CASE SetAsyncQueueSize \/ DestroyStep
  BY <1>1, <1>4 DEF SetAsyncQueueSize, DestroyStep, DestroyStore, DestroyNotify, DestroyJoin
<1>5. CASE UNCHANGED vars
  BY <1>1, <1>5 DEF vars
<1> QED BY <1>2, <1>3, <1>4, <1>5, OrderPush, OrderPop, OrderWritten
        DEF Next, ClientStep, WorkerStep, Quiescent

(* One after the other, the three parts make one sequence in order. *)
LEMMA ConcatInOrder ==
  ASSUME NEW s \in Seq(Messages), NEW t \in Seq(Messages),
         Increasing(s), Increasing(t), AllBefore(s, t)
  PROVE  /\ s \o t \in Seq(Messages) /\ Increasing(s \o t)
         /\ Len(s \o t) = Len(s) + Len(t)
         /\ \A u \in Seq(Messages) :
              AllBefore(s, u) /\ AllBefore(t, u) => AllBefore(s \o t, u)
<1> DEFINE a == s \o t
<1>1. /\ a \in Seq(Messages) /\ Len(a) = Len(s) + Len(t)
      /\ \A i \in 1 .. Len(s) + Len(t) :
           a[i] = IF i <= Len(s) THEN s[i] ELSE t[i - Len(s)]
      /\ Len(s) \in Nat /\ Len(t) \in Nat
  BY ConcatProperties, LenProperties
<1> HIDE DEF a
<1>2. ASSUME NEW i \in 1 .. Len(a)
      PROVE  \/ i \in 1 .. Len(s) /\ a[i] = s[i]
             \/ i - Len(s) \in 1 .. Len(t) /\ a[i] = t[i - Len(s)] /\ i > Len(s)
  BY <1>1
<1>3. Increasing(a)
  <2> SUFFICES ASSUME NEW i \in 1 .. Len(a), NEW j \in 1 .. Len(a), i < j
               PROVE  a[i] < a[j]
    BY DEF Increasing
  <2>1. CASE j \in 1 .. Len(s) /\ a[j] = s[j]
    <3>1. i \in 1 .. Len(s) /\ a[i] = s[i]
      BY <2>1, <1>1, <1>2
    <3> QED BY <2>1, <3>1 DEF Increasing
  <2>2. CASE j - Len(s) \in 1 .. Len(t) /\ a[j] = t[j - Len(s)] /\ j > Len(s)
    <3>1. CASE i \in 1 .. Len(s) /\ a[i] = s[i]
      BY <2>2, <3>1 DEF AllBefore
    <3>2. CASE i - Len(s) \in 1 .. Len(t) /\ a[i] = t[i - Len(s)]
      <4>1. i - Len(s) < j - Len(s)
        BY <1>1
      <4> QED BY <2>2, <3>2, <4>1 DEF Increasing
    <3> QED BY <3>1, <3>2, <1>2
  <2> QED BY <2>1, <2>2, <1>2
<1>4. ASSUME NEW u \in Seq(Messages), AllBefore(s, u), AllBefore(t, u)
      PROVE  AllBefore(a, u)
  BY <1>2, <1>4 DEF AllBefore
<1> QED BY <1>1, <1>3, <1>4 DEF a

LEMMA PartsInOrder ==
  ASSUME TypeOK, OrderInv
  PROVE  InOrder
<1> DEFINE done == written \o InHand
<1>1. /\ written \in Seq(Messages) /\ InHand \in Seq(Messages)
      /\ m_log_queue_ \in Seq(Messages)
  BY InHandType DEF TypeOK
<1>2. Increasing(InHand)
  BY DEF Increasing, InHand
<1>3. /\ done \in Seq(Messages) /\ Increasing(done) /\ AllBefore(done, m_log_queue_)
      /\ Len(done) = Len(written) + Len(InHand)
  BY <1>1, <1>2, ConcatInOrder DEF OrderInv
<1>4. InFlight = done \o m_log_queue_
  BY DEF InFlight, InHand
<1> HIDE DEF done
<1>5. /\ InFlight \in Seq(Messages) /\ Increasing(InFlight)
      /\ Len(InFlight) = Len(done) + Len(m_log_queue_)
  BY <1>1, <1>3, <1>4, ConcatInOrder DEF OrderInv
<1>6. DOMAIN InFlight = 1 .. Len(InFlight)
  BY <1>5, LenProperties
<1>7. Len(InFlight) + dropped + failed = logs
  BY <1>3, <1>5 DEF OrderInv
<1> QED BY <1>5, <1>6, <1>7 DEF InOrder, Increasing

(* log() of any number of threads, the worker that takes a message under the mutex and
   writes it without, a full queue that drops its oldest, a file that does not open:
   messages are written in the order of their acceptance, each once, and every message
   is in the queue, in the worker's hand, written, or counted as dropped or failed. *)
THEOREM AlwaysInOrder == Spec => []InOrder
<1>1. Init => Holding /\ OrderInv
  BY XLogAssumption DEF Init, Holding, OrderInv, InHand, Increasing, Below, AllBefore
<1>2. TypeOK /\ Holding /\ OrderInv /\ [Next]_vars => Holding' /\ OrderInv'
  BY HoldingStep, OrderStep
<1>3. TypeOK /\ OrderInv => InOrder
  BY PartsInOrder
<1> QED BY <1>1, <1>2, <1>3, TypeCorrect, PTL DEF Spec
=============================================================================
