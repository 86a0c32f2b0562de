------------------------------ MODULE XMemory ------------------------------
(***************************************************************************)
(* Two-phase construction and singletons (XMemory/xmemory.hpp).            *)
(*                                                                         *)
(* Create allocates, runs the constructor and then construct_, and gives   *)
(* the object to nobody unless all of it succeeds.  Its callers keep the   *)
(* object in a unique pointer, hang it under a Qt parent (the Qt build),   *)
(* or make it the singleton: that under a std::once_flag, with five        *)
(* attempts, after each of which XUtilsLibErrorLog::log writes a line.     *)
(*                                                                         *)
(* A constructor run on the null pointer of an allocation that gave up, or *)
(* a shared pointer without memory for its counters, ends the process.     *)
(* Waiting between attempts is left out.                                   *)
(***************************************************************************)
EXTENDS Naturals, FiniteSets

CONSTANTS
  Threads,
  Objects,         \* pieces of memory that an object fits in
  RetryCount,      \* m_retryCount_ of the allocator
  LogLimit,        \* the size, in lines, from which the error log is removed
  MaxCalls         \* bound: calls of all threads

None == 0          \* not one of Objects

VARIABLES
  memory,          \* what is in each piece: "free", "raw", "constructed", "whole"
  lost,            \* pieces that nobody can give back any more
  once, data,      \* the once_flag; the singleton's shared pointer
  creating,        \* for each thread: where it is, for what, which piece, the attempts
  owned, children, \* objects in unique pointers of each thread, and under Qt parents
  answer,          \* what UniqueConstruction has returned to each thread
  errorLog,        \* lines in the error log
  crashed, calls

vars == <<memory, lost, once, data, creating, owned, children, answer, errorLog, crashed, calls>>

Kinds == {"unique", "child", "orphan", "singleton"}
Idle == [pc |-> "idle", for |-> "unique", piece |-> None, tries |-> 0, attempts |-> 0]
MaxTries == 5

Init ==
  /\ memory = [o \in Objects |-> "free"] /\ lost = {}
  /\ once = "new" /\ data = None
  /\ creating = [t \in Threads |-> Idle]
  /\ owned = [t \in Threads |-> {}] /\ children = {}
  /\ answer = [t \in Threads |-> {}]
  /\ errorLog = 0 /\ crashed = FALSE /\ calls = 0

At(t, label) == ~crashed /\ creating[t].pc = label
holders == <<once, data, owned, children, answer, errorLog>>
Creates(t, new) ==
  creating' = [creating EXCEPT ![t] = [f \in DOMAIN Idle |-> IF f \in DOMAIN new THEN new[f] ELSE @[f]]]

-----------------------------------------------------------------------------
(* CreateUniquePtr, CreateForQtObjectTree with a parent and without, UniqueConstruction *)
Call(t, kind) ==
  /\ At(t, "idle") /\ calls < MaxCalls /\ calls' = calls + 1
  /\ Creates(t, [pc |-> IF kind = "singleton" THEN "once" ELSE "allocate", for |-> kind])
  /\ UNCHANGED <<memory, lost, holders, crashed>>

(* mutant: a thread does not wait for the one that is making the singleton *)
MayRunAgain == once # "done"

(* std::call_once: the first runs the attempts, the others wait for it; then data() *)
MayRun == once = "new"

EnterOnce(t) ==
  /\ At(t, "once") /\ MayRun /\ once' = "running"
  /\ Creates(t, [pc |-> "allocate"])
  /\ UNCHANGED <<memory, lost, data, owned, children, answer, errorLog, crashed, calls>>

PassOnce(t) ==
  /\ At(t, "once") /\ once = "done"
  /\ answer' = [answer EXCEPT ![t] = @ \cup {data}] /\ Creates(t, Idle)
  /\ UNCHANGED <<memory, lost, once, data, owned, children, errorLog, crashed, calls>>

Allocate(t) ==
  /\ At(t, "allocate") /\ creating[t].attempts < RetryCount
  /\ \E o \in {p \in Objects : memory[p] = "free"} :
       /\ memory' = [memory EXCEPT ![o] = "raw"]
       /\ Creates(t, [pc |-> "construct", piece |-> o, attempts |-> 0])
  /\ UNCHANGED <<lost, holders, crashed, calls>>

(* operator new throws; after the last attempt allocate returns the null pointer *)
AllocateFails(t) ==
  /\ At(t, "allocate")
  /\ IF creating[t].attempts < RetryCount
     THEN Creates(t, [attempts |-> creating[t].attempts + 1]) /\ UNCHANGED crashed
     ELSE crashed' = TRUE /\ UNCHANGED creating
  /\ UNCHANGED <<memory, lost, holders, calls>>

Construct(t) ==
  /\ At(t, "construct") /\ Creates(t, [pc |-> "construct_"])
  /\ memory' = [memory EXCEPT ![creating[t].piece] = "constructed"]
  /\ UNCHANGED <<lost, holders, crashed, calls>>

(* nothing has the raw memory yet: it is lost *)
ConstructorThrows(t) ==
  /\ At(t, "construct") /\ Creates(t, [pc |-> "created", piece |-> None])
  /\ lost' = lost \cup {creating[t].piece}
  /\ UNCHANGED <<memory, holders, crashed, calls>>

SecondPhase(t) ==
  /\ At(t, "construct_") /\ Creates(t, [pc |-> "created"])
  /\ memory' = [memory EXCEPT ![creating[t].piece] = "whole"]
  /\ UNCHANGED <<lost, holders, crashed, calls>>

(* construct_ returns false or throws: obj goes out of scope, and Destructor_::cleanup takes it *)
SecondPhaseFails(t) ==
  /\ At(t, "construct_") /\ Creates(t, [pc |-> "created", piece |-> None])
  /\ memory' = [memory EXCEPT ![creating[t].piece] = "free"]
  /\ UNCHANGED <<lost, holders, crashed, calls>>

-----------------------------------------------------------------------------
(* what becomes of the object, if there is one *)
KeepUnique(t) ==
  /\ At(t, "created") /\ creating[t].for = "unique" /\ Creates(t, Idle)
  /\ owned' = [owned EXCEPT ![t] = @ \cup ({creating[t].piece} \ {None})]
  /\ UNCHANGED <<memory, lost, once, data, children, answer, errorLog, crashed, calls>>

(* setParent(parent), release(); a child without parent is destroyed *)
Adopt(t) ==
  /\ At(t, "created") /\ creating[t].for = "child" /\ Creates(t, Idle)
  /\ children' = children \cup ({creating[t].piece} \ {None})
  /\ UNCHANGED <<memory, lost, once, data, owned, answer, errorLog, crashed, calls>>

Orphan(t) ==
  /\ At(t, "created") /\ creating[t].for = "orphan" /\ Creates(t, Idle)
  /\ memory' = [o \in Objects |-> IF o = creating[t].piece THEN "free" ELSE memory[o]]
  /\ UNCHANGED <<lost, holders, crashed, calls>>

(* data().swap(ptr), and return out of the attempts *)
Establish(t) ==
  /\ At(t, "created") /\ creating[t].for = "singleton" /\ creating[t].piece # None
  /\ data' = creating[t].piece /\ once' = "done"
  /\ Creates(t, [pc |-> "once", piece |-> None, tries |-> 0])
  /\ UNCHANGED <<memory, lost, owned, children, answer, errorLog, crashed, calls>>

CountersFail(t) ==
  /\ At(t, "created") /\ creating[t].for = "singleton" /\ crashed' = TRUE
  /\ UNCHANGED <<memory, lost, holders, creating, calls>>

(* XUtilsLibErrorLog::log removes the file when it is too large, and appends, or cannot *)
Logged == {errorLog, 1 + IF errorLog >= LogLimit THEN 0 ELSE errorLog}

(* the fifth attempt that fails is the last one, for ever *)
TryAgain(t) ==
  /\ At(t, "created") /\ creating[t].for = "singleton" /\ creating[t].piece = None
  /\ errorLog' \in Logged
  /\ IF creating[t].tries + 1 < MaxTries
     THEN Creates(t, [pc |-> "allocate", tries |-> creating[t].tries + 1]) /\ UNCHANGED once
     ELSE Creates(t, [pc |-> "once", tries |-> 0]) /\ once' = "done"
  /\ UNCHANGED <<memory, lost, data, owned, children, answer, crashed, calls>>

(* a unique pointer, or DeleteFromQtObjectTree *)
Delete(t, o) ==
  /\ At(t, "idle") /\ o \in owned[t] \cup children
  /\ memory' = [memory EXCEPT ![o] = "free"]
  /\ owned' = [owned EXCEPT ![t] = @ \ {o}] /\ children' = children \ {o}
  /\ UNCHANGED <<lost, once, data, creating, answer, errorLog, crashed, calls>>

Step(t) ==
  \/ \E kind \in Kinds : Call(t, kind)
  \/ EnterOnce(t) \/ PassOnce(t) \/ Allocate(t) \/ AllocateFails(t)
  \/ Construct(t) \/ ConstructorThrows(t) \/ SecondPhase(t) \/ SecondPhaseFails(t)
  \/ KeepUnique(t) \/ Adopt(t) \/ Orphan(t)
  \/ Establish(t) \/ CountersFail(t) \/ TryAgain(t)
  \/ \E o \in Objects : Delete(t, o)

Next == \E t \in Threads : Step(t)

Spec == Init /\ [][Next]_vars

-----------------------------------------------------------------------------
(* Everybody who asks for the singleton gets the same answer, for ever: the one object, whole,
   or nothing when five attempts failed. *)
OneSingleton ==
  (\E t \in Threads : answer[t] # {}) =>
    /\ \A t \in Threads : answer[t] \subseteq {data}
    /\ once = "done"
    /\ data # None => memory[data] = "whole"

Owners(o) ==
  {<<"user", t>> : t \in {u \in Threads : o \in owned[u]}}
    \cup {<<"maker", t>> : t \in {u \in Threads : creating[u].piece = o}}
    \cup {<<"parent">> : c \in children \cap {o}} \cup {<<"singleton">> : d \in {data} \cap {o}}
    \cup {<<"nobody">> : l \in lost \cap {o}}

(* An object is handed out only when both phases succeeded; one that failed is destroyed; and
   every piece of memory has one owner until it is given back. *)
OnlyWholeObjects ==
  \A o \in Objects :
    /\ Cardinality(Owners(o)) = IF memory[o] = "free" THEN 0 ELSE 1
    /\ o \in (UNION {owned[t] : t \in Threads}) \cup children => memory[o] = "whole"

CreatedWholeAndOnce == OneSingleton /\ OnlyWholeObjects
=============================================================================
