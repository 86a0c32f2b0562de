----------------------------- MODULE XProducers -----------------------------
(***************************************************************************)
(* Who enqueues through which producer of the lock-free queue              *)
(* (xconcurrentqueueabstract.hpp): the list of producers, the tokens that  *)
(* own explicit ones and the hash tables that lead a thread to its         *)
(* implicit one.                                                           *)
(*                                                                         *)
(* A producer is never removed: when its token or its thread has gone it   *)
(* is inactive and the next one in need takes it.  A table is found through*)
(* the newest one; slots of threads that have gone are reusable.  Whoever  *)
(* finds the newest table half full allocates the next one, the others go  *)
(* on with the one they have while it is less than three-quarters full.    *)
(*                                                                         *)
(* A thread that has ended may come back as another one with the same id.  *)
(***************************************************************************)
EXTENDS Integers, FiniteSetsExt, SequencesExt

CONSTANTS
  Threads,        \* thread ids
  HashOf,         \* hash_thread_id
  InitialSize,    \* INITIAL_IMPLICIT_PRODUCER_HASH_SIZE
  MaxProducers,   \* producers there is memory for
  MaxTables,      \* tables there is memory for
  MaxCalls        \* calls of all threads

Empty == "empty"           \* invalid_thread_id
Reusable == "reusable"     \* invalid_thread_id2
None == 0                  \* the null producer

VARIABLES
  producerList,   \* isExplicit and inactive, from the oldest producer to producerListTail
  producerCount,
  tables,         \* from the first hash to implicitProducerHash: keys and values
  hashCount,      \* implicitProducerHashCount
  resizing,       \* implicitProducerHashResizeInProgress
  listeners,      \* the producers that will hear of the end of a thread
  thread,         \* what each thread is doing
  token,          \* the explicit producer of the token of each thread
  calls,
  holders         \* history: who may enqueue through each producer

list == <<producerList, producerCount>>
hash == <<tables, hashCount, resizing>>
vars == <<list, hash, listeners, thread, token, calls, holders>>

Idle == [pc |-> "idle"]
Table(size) == [s \in 0..(size - 1) |-> [key |-> Empty, value |-> None]]

(* populate_initial_implicit_producer_hash *)
Init ==
  /\ producerList = <<>> /\ producerCount = 0
  /\ tables = <<Table(InitialSize)>> /\ hashCount = 0 /\ resizing = FALSE
  /\ listeners = [t \in Threads |-> {}]
  /\ thread = [t \in Threads |-> Idle] /\ token = [t \in Threads |-> None]
  /\ calls = 0 /\ holders = [p \in 1..MaxProducers |-> {}]

Capacity(m) == Cardinality(DOMAIN tables[m])
At(t, pc) == thread[t].pc = pc
To(t, pc) == thread' = [thread EXCEPT ![t].pc = pc]
Returns(t) == thread' = [thread EXCEPT ![t] = Idle]

-----------------------------------------------------------------------------
(* recycle_or_create_producer, for a token or for a thread: from the last producer to the
   first, each is looked at and taken by one compare-exchange *)
Fits(t, p) == producerList[p].inactive /\ producerList[p].isExplicit = thread[t].isExplicit

(* mutant: a load and a store *)
TakeUnseen(t) ==
  /\ At(t, "take")
  /\ LET p == thread[t].ptr IN
       /\ producerList' = [producerList EXCEPT ![p].inactive = FALSE]
       /\ holders' = [holders EXCEPT ![p] = @ \cup {t}]
       /\ thread' = [thread EXCEPT ![t].pc = "got", ![t].result = p]
  /\ UNCHANGED <<producerCount, hash, listeners, token, calls>>

Take(t) ==
  /\ At(t, "take")
  /\ LET p == thread[t].ptr IN
       IF producerList[p].inactive
       THEN /\ producerList' = [producerList EXCEPT ![p].inactive = FALSE]
            /\ holders' = [holders EXCEPT ![p] = @ \cup {t}]
            /\ thread' = [thread EXCEPT ![t].pc = "got", ![t].result = p]
       ELSE thread' = [thread EXCEPT ![t].pc = "recycle", ![t].ptr = p - 1] /\ UNCHANGED <<producerList, holders>>
  /\ UNCHANGED <<producerCount, hash, listeners, token, calls>>

Recycle(t) ==
  /\ At(t, "recycle") /\ thread[t].ptr # None
  /\ IF Fits(t, thread[t].ptr) THEN To(t, "take")
     ELSE thread' = [thread EXCEPT ![t].ptr = @ - 1]
  /\ UNCHANGED <<list, hash, listeners, token, calls, holders>>

Pending == {t \in Threads : At(t, "link")}

(* add_producer: the count first, then the list *)
Create(t) ==
  /\ At(t, "recycle") /\ thread[t].ptr = None
  /\ Len(producerList) + Cardinality(Pending) < MaxProducers
  /\ producerCount' = producerCount + 1
  /\ To(t, "link")
  /\ UNCHANGED <<producerList, hash, listeners, token, calls, holders>>

Link(t) ==
  /\ At(t, "link")
  /\ producerList' = Append(producerList, [isExplicit |-> thread[t].isExplicit, inactive |-> FALSE])
  /\ LET p == Len(producerList) + 1 IN
       /\ holders' = [holders EXCEPT ![p] = {t}]
       /\ thread' = [thread EXCEPT ![t].pc = "got", ![t].result = p]
  /\ UNCHANGED <<producerCount, hash, listeners, token, calls>>

CreateFails(t) ==
  /\ At(t, "recycle") /\ thread[t].ptr = None
  /\ hashCount' = hashCount - (IF thread[t].isExplicit THEN 0 ELSE 1)
  /\ Returns(t)
  /\ UNCHANGED <<list, tables, resizing, listeners, token, calls, holders>>

-----------------------------------------------------------------------------
(* A token takes an explicit producer and leaves it inactive. *)
TokenCreate(t) ==
  /\ At(t, "idle") /\ token[t] = None /\ calls < MaxCalls /\ calls' = calls + 1
  /\ thread' = [thread EXCEPT ![t] = [pc |-> "recycle", isExplicit |-> TRUE, ptr |-> Len(producerList),
                                      result |-> None]]
  /\ UNCHANGED <<list, hash, listeners, token, holders>>

TokenGot(t) ==
  /\ At(t, "got") /\ thread[t].isExplicit
  /\ token' = [token EXCEPT ![t] = thread[t].result]
  /\ Returns(t)
  /\ UNCHANGED <<list, hash, listeners, calls, holders>>

(* the move constructor: another thread has the token from now on *)
TokenMove(t, u) ==
  /\ At(t, "idle") /\ At(u, "idle") /\ token[t] # None /\ token[u] = None
  /\ token' = [token EXCEPT ![u] = token[t], ![t] = None]
  /\ holders' = [holders EXCEPT ![token[t]] = (@ \ {t}) \cup {u}]
  /\ UNCHANGED <<list, hash, listeners, thread, calls>>

TokenDestroy(t) ==
  /\ At(t, "idle") /\ token[t] # None
  /\ producerList' = [producerList EXCEPT ![token[t]].inactive = TRUE]
  /\ holders' = [holders EXCEPT ![token[t]] = @ \ {t}]
  /\ token' = [token EXCEPT ![t] = None]
  /\ UNCHANGED <<producerCount, hash, listeners, thread, calls>>

-----------------------------------------------------------------------------
(* get_or_add_implicit_producer *)
Probe(m, t, k) == (HashOf[t] + k) % Capacity(m)

(* the slot of t in a table, if the search from its hash on meets it before an empty one *)
Found(m, t) ==
  {s \in DOMAIN tables[m] : tables[m][s].key = t /\
     \A k \in 0..(Capacity(m) - 1) :
       (\A j \in 0..k : Probe(m, t, j) # s) => tables[m][Probe(m, t, k)].key # Empty}

FoundIn(t) == {m \in 1..Len(tables) : Found(m, t) # {}}

(* the search changes nothing; nobody else writes the key of the thread *)
GetCall(t) ==
  /\ At(t, "idle") /\ calls < MaxCalls /\ calls' = calls + 1
  /\ IF FoundIn(t) = {}
     THEN /\ hashCount' = hashCount + 1
          /\ thread' = [thread EXCEPT ![t] = [pc |-> "full", isExplicit |-> FALSE, main |-> Len(tables),
                                              newCount |-> hashCount + 1]]
     ELSE LET m == Max(FoundIn(t))
              p == tables[m][CHOOSE s \in Found(m, t) : TRUE].value
          IN  /\ thread' = [thread EXCEPT ![t] =
                   IF m = Len(tables) THEN Idle
                   ELSE [pc |-> "insert", isExplicit |-> FALSE, main |-> Len(tables), step |-> 0, again |-> TRUE, result |-> p]]
              /\ UNCHANGED hashCount
  /\ UNCHANGED <<list, tables, resizing, listeners, token, holders>>

(* half full: who gets the flag may allocate *)
HalfFull(t) == thread[t].newCount >= Capacity(thread[t].main) \div 2

TryResize(t) ==
  /\ At(t, "full") /\ HalfFull(t) /\ ~resizing
  /\ resizing' = TRUE
  /\ thread' = [thread EXCEPT ![t].pc = "resize", ![t].main = Len(tables)]
  /\ UNCHANGED <<list, tables, hashCount, listeners, token, calls, holders>>

(* the first capacity in doubling that would not be half full with n ids *)
Twice[k \in Nat] == IF k = 0 THEN 1 ELSE 2 * Twice[k - 1]
Doubled(n, size) == size * Twice[Min({k \in 1..(n + 1) : n < (size * Twice[k]) \div 2})]

Grow(t) ==
  /\ At(t, "resize") /\ HalfFull(t) /\ Len(tables) < MaxTables
  /\ tables' = Append(tables, Table(Doubled(thread[t].newCount, Capacity(thread[t].main))))
  /\ thread' = [thread EXCEPT ![t].pc = "grown"]
  /\ UNCHANGED <<list, hashCount, resizing, listeners, token, calls, holders>>

Grown(t) ==
  /\ \/ At(t, "grown")
     \/ At(t, "resize") /\ ~HalfFull(t)
  /\ resizing' = FALSE
  /\ thread' = [thread EXCEPT ![t].pc = "admit", ![t].main = Len(tables)]
  /\ UNCHANGED <<list, tables, hashCount, listeners, token, calls, holders>>

GrowFails(t) ==
  /\ At(t, "resize") /\ HalfFull(t)
  /\ hashCount' = hashCount - 1 /\ resizing' = FALSE
  /\ Returns(t)
  /\ UNCHANGED <<list, tables, listeners, token, calls, holders>>

(* three-quarters full *)
Admitted(t) ==
  LET c == Capacity(thread[t].main) IN thread[t].newCount < c \div 2 + c \div 4

NoResize(t) == At(t, "full") /\ (HalfFull(t) => resizing)

Admit(t) ==
  /\ NoResize(t) \/ At(t, "admit")
  /\ Admitted(t)
  /\ thread' = [thread EXCEPT ![t] = [pc |-> "recycle", isExplicit |-> FALSE, main |-> @.main,
                                      ptr |-> Len(producerList), result |-> None]]
  /\ UNCHANGED <<list, hash, listeners, token, calls, holders>>

(* another thread allocates: look again *)
Wait(t) ==
  /\ NoResize(t) /\ ~Admitted(t)
  /\ thread' = [thread EXCEPT ![t].main = Len(tables)]
  /\ UNCHANGED <<list, hash, listeners, token, calls, holders>>

(* the mutex of ThreadExitNotifier: held while a thread that ends tells its listeners *)
Notifying == \E t \in Threads : At(t, "exit")

Subscribe(t) ==
  /\ At(t, "got") /\ ~thread[t].isExplicit /\ ~Notifying
  /\ listeners' = [listeners EXCEPT ![t] = @ \cup {thread[t].result}]
  /\ thread' = [thread EXCEPT ![t] = [pc |-> "insert", isExplicit |-> FALSE, main |-> @.main, step |-> 0,
                                      again |-> FALSE, result |-> @.result]]
  /\ UNCHANGED <<list, hash, token, calls, holders>>

(* one slot after the other; a reusable one has been counted before *)
Insert(t) ==
  /\ At(t, "insert")
  /\ LET d == thread[t]
         s == Probe(d.main, t, d.step)
         key == tables[d.main][s].key
     IN  IF key \in {Empty, Reusable}
         THEN /\ tables' = [tables EXCEPT ![d.main][s] = [key |-> t, value |-> d.result]]
              /\ hashCount' = hashCount - (IF key = Reusable /\ ~d.again THEN 1 ELSE 0)
              /\ Returns(t)
         ELSE /\ thread' = [thread EXCEPT ![t].step = (@ + 1) % Capacity(d.main)]
              /\ UNCHANGED <<tables, hashCount>>
  /\ UNCHANGED <<list, resizing, listeners, token, calls, holders>>

-----------------------------------------------------------------------------
(* ~ThreadExitNotifier and implicit_producer_thread_exited: out of the hashes, from the newest
   to the first, then the producer may be taken *)
Exit(t) ==
  /\ At(t, "idle") /\ token[t] = None /\ listeners[t] # {} /\ ~Notifying
  /\ thread' = [thread EXCEPT ![t] = [pc |-> "exit", main |-> Len(tables)]]
  /\ UNCHANGED <<list, hash, listeners, token, calls, holders>>

ExitHash(t) ==
  /\ At(t, "exit") /\ thread[t].main # 0
  /\ tables' = [tables EXCEPT ![thread[t].main] = [s \in DOMAIN @ |->
                  IF s \in Found(thread[t].main, t) THEN [@[s] EXCEPT !.key = Reusable] ELSE @[s]]]
  /\ thread' = [thread EXCEPT ![t].main = @ - 1]
  /\ UNCHANGED <<list, hashCount, resizing, listeners, token, calls, holders>>

ExitEnd(t) ==
  /\ At(t, "exit") /\ thread[t].main = 0
  /\ producerList' = [p \in DOMAIN producerList |->
                        [producerList[p] EXCEPT !.inactive = @ \/ p \in listeners[t]]]
  /\ holders' = [p \in DOMAIN holders |-> IF p \in listeners[t] THEN holders[p] \ {t} ELSE holders[p]]
  /\ listeners' = [listeners EXCEPT ![t] = {}]
  /\ Returns(t)
  /\ UNCHANGED <<producerCount, hash, token, calls>>

-----------------------------------------------------------------------------
Step(t) ==
  \/ Take(t) \/ Recycle(t) \/ Create(t) \/ Link(t) \/ CreateFails(t) \/ TokenGot(t)
  \/ TryResize(t) \/ Grow(t) \/ Grown(t) \/ GrowFails(t)
  \/ Admit(t) \/ Wait(t) \/ Subscribe(t) \/ Insert(t) \/ ExitHash(t) \/ ExitEnd(t)

Call(t) ==
  \/ TokenCreate(t) \/ TokenDestroy(t) \/ (\E u \in Threads \ {t} : TokenMove(t, u))
  \/ GetCall(t) \/ Exit(t)

Finished == calls = MaxCalls /\ (\A t \in Threads : At(t, "idle")) /\ UNCHANGED vars

Next == (\E t \in Threads : Step(t) \/ Call(t)) \/ Finished

Spec == Init /\ [][Next]_vars

-----------------------------------------------------------------------------
(* Properties *)

(* A producer is used by one token or one thread at a time, however tokens move, threads end
   and inactive producers are taken, and an inactive one by nobody. *)
OneHolder ==
  \A p \in DOMAIN producerList :
    Cardinality(holders[p]) <= 1 /\ (producerList[p].inactive => holders[p] = {})

(* A thread has one implicit producer as long as it lives, however many tables there are, and
   whichever of them it is found in leads to that one: two would let its elements overtake each
   other. *)
SameProducer ==
  /\ \A t \in Threads :
       Cardinality({p \in DOMAIN producerList : ~producerList[p].isExplicit /\ t \in holders[p]}) <= 1
  /\ \A m \in DOMAIN tables : \A s \in DOMAIN tables[m] :
       LET slot == tables[m][s] IN slot.key \in Threads => slot.key \in holders[slot.value]

(* There is an empty slot in each table, so the search for an id that is not there ends.  Not so:
   the count is of the slots used, whatever table they are in, and a thread that is still on its way
   to an older table takes a reusable slot there, is counted no more, and comes to the newest
   table later (MCXProducers). *)
SearchEnds == \A m \in DOMAIN tables : \E s \in DOMAIN tables[m] : tables[m][s].key = Empty

(* The flag is set exactly while one thread allocates, whether or not there is memory for it:
   two would lose a table with the producers in it, and a flag left behind lets the threads
   that find the newest table full wait for ever. *)
OneAllocates ==
  Cardinality({t \in Threads : At(t, "resize") \/ At(t, "grown")}) = (IF resizing THEN 1 ELSE 0)

SearchLeadsToOne == OneHolder /\ SameProducer /\ OneAllocates
=============================================================================
