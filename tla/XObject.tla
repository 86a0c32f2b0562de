------------------------------ MODULE XObject ------------------------------
(***************************************************************************)
(* Objects with signals and slots: connect, disconnect, emission and       *)
(* destruction (xobject.cpp).                                              *)
(*                                                                         *)
(* An object's connections are guarded by one mutex of a pool that objects *)
(* share by their address; connect and disconnect take the two of sender   *)
(* and receiver, the smaller address first.  What is done under all the    *)
(* locks of a call is one step, but a unique connection is searched for in *)
(* one and made in the next.  An emission copies the list of the signal    *)
(* under the lock and runs the slots without it; a slot may itself call    *)
(* everything, so that a thread has a stack of emissions.                  *)
(***************************************************************************)
EXTENDS Integers, Sequences, FiniteSets

CONSTANTS
  Threads, Objects, Signals,
  Slots,    \* slots that are member functions
  Lambda,   \* any other slot: it never compares equal
  Null,     \* a signal, receiver or slot that is null in a call of disconnect
  ThreadOps,\* [Threads -> SUBSET {"connect", "disconnect", "emit", "block", "destroy"}]
  Mutexes,  \* indices of x_Object_MutexPool that objects hash to; 0 is that of null
  NoOne,
  MaxDepth, \* bound: emissions that one thread may nest
  MaxCalls  \* bound: calls in a behaviour

ASSUME ObjectAssumption ==
  /\ ThreadOps \in [Threads -> SUBSET {"connect", "disconnect", "emit", "block", "destroy"}]
  /\ Mutexes \subseteq Nat /\ IsFiniteSet(Mutexes) /\ NoOne \notin Threads
  /\ Lambda \notin Slots /\ Null \notin Objects \cup Signals \cup Slots
  /\ MaxDepth \in Nat /\ MaxCalls \in Nat

VARIABLES
  lockOf,   \* the mutex of each object: fixed by its address
  alive,
  m_signalVector, \* each sender's connections per signal; an empty list is erased
  hasVector,      \* objects whose m_connections and m_signalVector exist
  m_blockSig,
  m_currentSender,\* the emission <<thread, depth>> each object believes to be in
  owner,    \* of each mutex
  pc, call, \* where each thread is in connect, disconnect or emit, and its arguments
  frames,   \* each thread's stack of emissions
  calls     \* number of calls

connections == <<m_signalVector, hasVector>>
locks == <<owner, pc, call>>
vars == <<lockOf, alive, connections, m_blockSig, m_currentSender, locks, frames, calls>>

NoCall == [op |-> "none"]
NoEmission == <<>>

Init ==
  /\ lockOf \in [Objects -> Mutexes]
  /\ alive = Objects
  /\ m_signalVector = [o \in Objects |-> [g \in Signals |-> <<>>]]
  /\ hasVector = {}
  /\ m_blockSig = [o \in Objects |-> FALSE]
  /\ m_currentSender = [o \in Objects |-> NoEmission]
  /\ owner = [m \in Mutexes \cup {0} |-> NoOne]
  /\ pc = [t \in Threads |-> "idle"] /\ call = [t \in Threads |-> NoCall]
  /\ frames = [t \in Threads |-> <<>>]
  /\ calls = 0

Depth(t) == Len(frames[t])
Top(t) == frames[t][Depth(t)]

(* outside any call, or in the body of a slot *)
MayCall(t, op) ==
  /\ op \in ThreadOps[t]
  /\ pc[t] = "idle" /\ (Depth(t) > 0 => Top(t).stage = "slot")
  /\ calls < MaxCalls /\ calls' = calls + 1

-----------------------------------------------------------------------------
(* XOrderedMutexLocker *)
MutexOf(o) == IF o = Null THEN 0 ELSE lockOf[o]

(* the mutexes a call needs, an emission only that of its sender *)
Needs(t) == {MutexOf(call[t].sender)}
              \cup (IF call[t].op = "emit" THEN {} ELSE {MutexOf(call[t].receiver)})

(* mutant: the mutex of the sender first *)
SenderFirst(t) == MutexOf(call[t].sender)

FirstOf(t) == CHOOSE m \in Needs(t) : \A n \in Needs(t) : m <= n

LockFirst(t) ==
  /\ pc[t] = "lock" /\ Cardinality(Needs(t)) = 2 /\ owner[FirstOf(t)] = NoOne
  /\ owner' = [owner EXCEPT ![FirstOf(t)] = t]
  /\ pc' = [pc EXCEPT ![t] = "lock2"]
  /\ UNCHANGED <<lockOf, alive, connections, m_blockSig, m_currentSender, call, frames, calls>>

(* the last mutex is free *)
Granted(t) ==
  /\ pc[t] = IF Cardinality(Needs(t)) = 1 THEN "lock" ELSE "lock2"
  /\ \A m \in Needs(t) : owner[m] \in {t, NoOne}

(* the call is over and releases them all *)
Release(t) ==
  /\ owner' = [m \in DOMAIN owner |-> IF m \in Needs(t) THEN NoOne ELSE owner[m]]
  /\ pc' = [pc EXCEPT ![t] = "idle"] /\ call' = [call EXCEPT ![t] = NoCall]

Begin(t, c) ==
  /\ MayCall(t, c.op)
  /\ call' = [call EXCEPT ![t] = c] /\ pc' = [pc EXCEPT ![t] = "lock"]
  /\ UNCHANGED <<lockOf, alive, connections, m_blockSig, m_currentSender, owner, frames>>

-----------------------------------------------------------------------------
ConnectCall(t) ==
  \E s, r \in alive, g \in Signals, f \in Slots \cup {Lambda}, unique \in BOOLEAN :
    /\ unique => f # Lambda
    /\ Begin(t, [op |-> "connect", sender |-> s, signal |-> g, receiver |-> r,
                 slot |-> f, unique |-> unique])

(* compare is by member function: a Lambda equals nothing *)
Equals(c, r, f) == c.receiver = r /\ c.slot = f /\ f # Lambda

Exists(list, r, f) == \E i \in DOMAIN list : Equals(list[i], r, f)

(* mutant: the mutexes are held for the search only *)
HeldForSearch(t) == owner

Held(t) == [m \in DOMAIN owner |-> IF m \in Needs(t) THEN t ELSE owner[m]]

(* is there one already? *)
ConnectSearch(t) ==
  LET c == call[t] IN
  /\ c.op = "connect" /\ c.unique /\ Granted(t)
  /\ IF Exists(m_signalVector[c.sender][c.signal], c.receiver, c.slot) THEN Release(t)
     ELSE /\ owner' = Held(t) /\ pc' = [pc EXCEPT ![t] = "add"] /\ UNCHANGED call
  /\ UNCHANGED <<lockOf, alive, connections, m_blockSig, m_currentSender, frames, calls>>

Connect(t) ==
  LET c == call[t]
      new == [receiver |-> c.receiver, slot |-> c.slot, unique |-> c.unique]
  IN
  /\ c.op = "connect" /\ (IF c.unique THEN pc[t] = "add" ELSE Granted(t)) /\ Release(t)
  /\ m_signalVector' = [m_signalVector EXCEPT ![c.sender][c.signal] = Append(@, new)]
  /\ hasVector' = hasVector \cup {c.sender}
  /\ UNCHANGED <<lockOf, alive, m_blockSig, m_currentSender, frames, calls>>

-----------------------------------------------------------------------------
(* the signal, receiver and slot of the three templates that call disconnectImpl *)
DisconnectArgs ==
  (Signals \X alive \X Slots) \cup (Signals \X (alive \cup {Null}) \X {Null})
    \cup ({Null} \X (alive \cup {Null}) \X {Null})

(* a sender without a vector is seen before the locks and is not locked for *)
DisconnectCall(t) ==
  \E s \in alive : \E a \in DisconnectArgs :
    /\ s \in hasVector
    /\ Begin(t, [op |-> "disconnect", sender |-> s, signal |-> a[1], receiver |-> a[2],
                 slot |-> a[3]])

(* mutant: the connections of a receiver are compared to member functions *)
DroppedSlots(c, g, x) ==
  CASE c.signal # Null /\ c.receiver # Null /\ c.slot # Null ->
         g = c.signal /\ Equals(x, c.receiver, c.slot)
    [] c.signal = Null /\ c.receiver # Null /\ c.slot = Null ->
         x.receiver = c.receiver /\ x.slot # Lambda
    [] c.signal # Null /\ c.receiver = Null /\ c.slot = Null -> g = c.signal
    [] OTHER -> TRUE

(* mutant: a slot stands for all slots of its receiver *)
DroppedReceivers(c, g, x) ==
  CASE c.signal # Null /\ c.receiver # Null /\ c.slot # Null ->
         g = c.signal /\ x.receiver = c.receiver
    [] c.signal = Null /\ c.receiver # Null /\ c.slot = Null -> x.receiver = c.receiver
    [] c.signal # Null /\ c.receiver = Null /\ c.slot = Null -> g = c.signal
    [] OTHER -> TRUE

(* the four cases of disconnectImpl: the connections of signal g that go *)
Dropped(c, g, x) ==
  CASE c.signal # Null /\ c.receiver # Null /\ c.slot # Null ->
         g = c.signal /\ Equals(x, c.receiver, c.slot)
    [] c.signal = Null /\ c.receiver # Null /\ c.slot = Null -> x.receiver = c.receiver
    [] c.signal # Null /\ c.receiver = Null /\ c.slot = Null -> g = c.signal
    [] OTHER -> TRUE

(* the loop over the list of one signal *)
Kept(c, g, list) ==
  LET walk[i \in 0..Len(list)] ==
        IF i = 0 THEN <<>>
        ELSE IF Dropped(c, g, list[i]) THEN walk[i - 1]
        ELSE Append(walk[i - 1], list[i])
  IN walk[Len(list)]

Disconnect(t) ==
  LET c == call[t] IN
  /\ c.op = "disconnect" /\ Granted(t) /\ Release(t)
  /\ m_signalVector' = [m_signalVector EXCEPT ![c.sender] =
       [g \in Signals |-> Kept(c, g, @[g])]]
  /\ UNCHANGED <<lockOf, alive, hasVector, m_blockSig, m_currentSender, frames, calls>>

-----------------------------------------------------------------------------
(* a blocked sender returns at once *)
EmitCall(t) ==
  \E s \in alive, g \in Signals :
    /\ ~m_blockSig[s] /\ Depth(t) < MaxDepth
    /\ Begin(t, [op |-> "emit", sender |-> s, signal |-> g])

(* the copy that the emission iterates over *)
EmitCopy(t) ==
  LET c == call[t]
      list == m_signalVector[c.sender][c.signal]
      frame == [sender |-> c.sender, signal |-> c.signal, todo |-> list,
                stage |-> "next", to |-> c.sender, prev |-> NoEmission]
  IN
  /\ c.op = "emit" /\ Granted(t) /\ Release(t)
  /\ frames' = IF list = <<>> THEN frames
               ELSE [frames EXCEPT ![t] = Append(@, frame)]
  /\ UNCHANGED <<lockOf, alive, connections, m_blockSig, m_currentSender, calls>>

Iterating(t) == pc[t] = "idle" /\ Depth(t) > 0 /\ Top(t).stage = "next"

EmitEnd(t) ==
  /\ Iterating(t) /\ Top(t).todo = <<>>
  /\ frames' = [frames EXCEPT ![t] = SubSeq(@, 1, Depth(t) - 1)]
  /\ UNCHANGED <<lockOf, alive, connections, m_blockSig, m_currentSender, locks, calls>>

EmitSkip(t) ==
  /\ Iterating(t) /\ Top(t).todo # <<>> /\ m_blockSig[Head(Top(t).todo).receiver]
  /\ frames' = [frames EXCEPT ![t][Depth(t)].todo = Tail(@)]
  /\ UNCHANGED <<lockOf, alive, connections, m_blockSig, m_currentSender, locks, calls>>

(* XSender puts itself in front of the current sender of the receiver *)
SlotCall(t) ==
  LET r == Head(Top(t).todo).receiver IN
  /\ Iterating(t) /\ Top(t).todo # <<>> /\ ~m_blockSig[r]
  /\ frames' = [frames EXCEPT ![t][Depth(t)] =
                  [Top(t) EXCEPT !.todo = Tail(Top(t).todo), !.stage = "slot", !.to = r,
                                 !.prev = m_currentSender[r]]]
  /\ m_currentSender' = [m_currentSender EXCEPT ![r] = <<t, Depth(t)>>]
  /\ UNCHANGED <<lockOf, alive, connections, m_blockSig, locks, calls>>

(* mutant: the receiver is left without a sender *)
NoPrevious(t) == NoEmission

Previous(t) == Top(t).prev

(* the slot returns or throws, and ~XSender restores what it found *)
SlotReturn(t) ==
  /\ pc[t] = "idle" /\ Depth(t) > 0 /\ Top(t).stage = "slot"
  /\ m_currentSender' = [m_currentSender EXCEPT ![Top(t).to] = Previous(t)]
  /\ frames' = [frames EXCEPT ![t][Depth(t)].stage = "next"]
  /\ UNCHANGED <<lockOf, alive, connections, m_blockSig, locks, calls>>

-----------------------------------------------------------------------------
BlockSignals(t) ==
  /\ MayCall(t, "block")
  /\ \E o \in alive, b \in BOOLEAN : m_blockSig' = [m_blockSig EXCEPT ![o] = b]
  /\ UNCHANGED <<lockOf, alive, connections, m_currentSender, locks, frames>>

(* the destructor takes no lock and drops no connection to the object: the *)
(* owner sees to it that nobody uses the object or is connected to it      *)
Unused(o) ==
  /\ \A t \in Threads :
       /\ call[t] # NoCall => call[t].sender # o
       /\ call[t].op \in {"connect", "disconnect"} => call[t].receiver # o
       /\ \A d \in DOMAIN frames[t] :
            LET f == frames[t][d] IN
            o \notin {f.sender, f.to} \cup {f.todo[i].receiver : i \in DOMAIN f.todo}
  /\ \A s \in alive \ {o}, g \in Signals :
       \A i \in DOMAIN m_signalVector[s][g] : m_signalVector[s][g][i].receiver # o

Destroy(t) ==
  /\ MayCall(t, "destroy")
  /\ \E o \in alive :
       /\ Unused(o)
       /\ alive' = alive \ {o}
       /\ m_signalVector' = [m_signalVector EXCEPT ![o] = [g \in Signals |-> <<>>]]
       /\ hasVector' = hasVector \ {o}
  /\ UNCHANGED <<lockOf, m_blockSig, m_currentSender, locks, frames>>

-----------------------------------------------------------------------------
CallStep(t) ==
  \/ ConnectCall(t) \/ DisconnectCall(t) \/ EmitCall(t)
  \/ BlockSignals(t) \/ Destroy(t)

RunStep(t) ==
  \/ LockFirst(t) \/ ConnectSearch(t) \/ Connect(t) \/ Disconnect(t) \/ EmitCopy(t)
  \/ EmitEnd(t) \/ EmitSkip(t) \/ SlotCall(t) \/ SlotReturn(t)

Quiescent == \A t \in Threads : pc[t] = "idle" /\ frames[t] = <<>>

Next ==
  \/ \E t \in Threads : CallStep(t) \/ RunStep(t)
  \/ Quiescent /\ UNCHANGED vars

Spec == Init /\ [][Next]_vars
-----------------------------------------------------------------------------
(* XOrderedMutexLocker: threads that hold one mutex and want a second never *)
(* all wait for each other, whatever mutexes the objects share and in what *)
(* order sender and receiver are given: one of them can go on, or one that *)
(* has all it needs.                                                       *)
SomeLockProceeds ==
  (\E t \in Threads : pc[t] = "lock2")
    => \E t \in Threads :
         pc[t] = "add" \/ (pc[t] = "lock2" /\ \A m \in Needs(t) : owner[m] \in {t, NoOne})

(* A unique connection is made only if the signal has no equal connection: *)
(* no two threads, no slot and no order of calls get one in behind another, *)
(* between the search and the new connection least of all.                 *)
UniqueIsNew ==
  \A o \in Objects, g \in Signals :
    \A j \in DOMAIN m_signalVector[o][g] :
      LET c == m_signalVector[o][g][j] IN
      c.unique => \A i \in 1..(j - 1) :
                    ~Equals(m_signalVector[o][g][i], c.receiver, c.slot)

Inside(o) ==
  {e \in {<<t, d>> : t \in Threads, d \in 1..MaxDepth} :
     /\ e[2] <= Depth(e[1])
     /\ frames[e[1]][e[2]].stage = "slot" /\ frames[e[1]][e[2]].to = o}

(* While one thread at a time emits to an object, its current sender is the *)
(* innermost emission in one of its slots, and nobody when it is in none:  *)
(* however slots emit further, to the same object or to others.            *)
InnermostSender ==
  \A o \in alive :
    IF Inside(o) = {} THEN m_currentSender[o] = NoEmission
    ELSE \E e \in Inside(o) : m_currentSender[o] = e /\ \A x \in Inside(o) : x[2] <= e[2]

(* The connections a disconnect is asked to remove: null stands for any    *)
(* (xobject.hpp:106-108).                                                  *)
Asked(c, g, x) ==
  /\ c.signal \in {g, Null} /\ c.receiver \in {x.receiver, Null}
  /\ c.slot = Null \/ Equals(x, c.receiver, c.slot)

(* A signal and a receiver without a slot: the code clears every connection of *)
(* the sender, which is not what it is asked for (xobject.cpp:376).           *)
ClearsAll(c) == c.signal # Null /\ c.receiver # Null /\ c.slot = Null

(* A disconnect removes every connection that it was asked for, and no other *)
(* but where it clears all: whoever connects and disconnects until it has    *)
(* its locks.                                                                *)
AllAskedGo ==
  [][\A t \in Threads : call[t].op = "disconnect" /\ call'[t].op = "none" =>
       LET c == call[t] IN
       \A g \in Signals :
         LET old == m_signalVector[c.sender][g]
             new == m_signalVector'[c.sender][g]
         IN  /\ \A i \in DOMAIN new : ~Asked(c, g, new[i])
             /\ \A i \in DOMAIN old :
                  Asked(c, g, old[i]) \/ ClearsAll(c) \/ \E j \in DOMAIN new : new[j] = old[i]]_vars
=============================================================================
