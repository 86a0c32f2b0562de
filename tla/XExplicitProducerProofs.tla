---------------------- MODULE XExplicitProducerProofs ----------------------
(***************************************************************************)
(* What XExplicitProducer promises of its tickets, for any number of       *)
(* consumers, any width of the indices and any sizes of the bulk calls;    *)
(* and what XProducers promises of the threads and tokens that share the   *)
(* producers.                                                              *)
(*                                                                         *)
(* The tickets are counters that wrap, so what is kept is kept up to a     *)
(* multiple of IndexMod.  A thread finds its producer again because its    *)
(* slots stay where the search meets them: a slot that was used is never   *)
(* empty again, in this table or an older one.                             *)
(***************************************************************************)
EXTENDS XExplicitProducer, XTokens, Totals

(* indices are numbers of w bits, and there are finitely many threads *)
Wrapping == IndexMod \in Nat \ {0} /\ IsFiniteSet(Consumers) /\ IndexAssumption

(* an index loses a multiple of 2^w when it wraps *)
LEMMA Wraps ==
  ASSUME Wrapping, NEW a \in Int
  PROVE  a % IndexMod \in Index /\ \E q \in Int : a % IndexMod = a + q * IndexMod
<1> DEFINE d == a \div IndexMod
           q == 0 - d
<1>0. IndexMod \in Nat \ {0}
  BY DEF Wrapping
<1>1. d \in Int
  BY <1>0
<1>2. a % IndexMod \in Index
  BY <1>0 DEF Index
<1>3. a = IndexMod * d + (a % IndexMod)
  BY <1>0
<1> HIDE DEF d
<1>4. q \in Int /\ q * IndexMod = 0 - IndexMod * d /\ IndexMod * d \in Int
  BY <1>0, <1>1
<1> HIDE DEF q
<1>5. a % IndexMod = a + q * IndexMod
  BY <1>2, <1>3, <1>4 DEF Index
<1> QED BY <1>2, <1>4, <1>5

LEMMA SameRemainder ==
  ASSUME Wrapping, NEW a \in Int, NEW b \in Int, NEW k \in Int, a = b + k * IndexMod
  PROVE  a % IndexMod = b % IndexMod
<1>0. IndexMod \in Nat \ {0}
  BY DEF Wrapping
<1>1. PICK p \in Int : a % IndexMod = a + p * IndexMod
  BY Wraps
<1>2. PICK q \in Int : b % IndexMod = b + q * IndexMod
  BY Wraps
<1> DEFINE d == k + p - q
<1>3. d \in Int /\ (a % IndexMod) - (b % IndexMod) = d * IndexMod
  BY <1>0, <1>1, <1>2
<1>4. a % IndexMod \in 0 .. (IndexMod - 1) /\ b % IndexMod \in 0 .. (IndexMod - 1)
  BY Wraps DEF Index
<1> HIDE DEF d
<1>5. CASE d >= 1
  <2>1. d * IndexMod >= IndexMod
    BY <1>0, <1>3, <1>5
  <2> QED BY <1>0, <1>3, <1>4, <2>1
<1>6. CASE d <= -1
  <2>1. d * IndexMod <= -IndexMod
    BY <1>0, <1>3, <1>6
  <2> QED BY <1>0, <1>3, <1>4, <2>1
<1>7. CASE d = 0
  BY <1>0, <1>3, <1>4, <1>7
<1> QED BY <1>3, <1>5, <1>6, <1>7

-----------------------------------------------------------------------------
(* what a dequeue has reserved, and what it knows at each of its places *)
HeldIn(d) ==
  CASE d.pc = "check" -> d.want
    [] d.pc \in {"giveBack", "claim"} -> d.n + d.excess
    [] OTHER -> 0

DeqState(d) ==
  \/ d = Idle
  \/ d \in [pc : {"reserve"}, want : Nat, overcommit : Index]
  \/ d \in [pc : {"check"}, want : Nat, first : Index]
  \/ d \in [pc : {"giveBack"}, n : Nat, excess : Nat]
  \/ d \in [pc : {"claim"}, n : Nat, excess : {0}]
  \/ d.pc = "load" /\ d = [pc |-> d.pc, n |-> d.n, index |-> d.index]
  \/ /\ d.pc \in {"locate", "move"}
     /\ d = [pc |-> d.pc, n |-> d.n, index |-> d.index, header |-> d.header, slot |-> d.slot]
  \/ /\ d.pc = "mark"
     /\ d = [pc |-> d.pc, n |-> d.n, index |-> d.index, header |-> d.header, slot |-> d.slot,
             block |-> d.block]

CallState(d) ==
  \/ d = Idle \/ d = [pc |-> "destroyed"]
  \/ /\ d = [pc |-> d.pc, bulk |-> d.bulk, n |-> d.n, base |-> d.base, toCome |-> d.toCome,
             first |-> d.first, startBlock |-> d.startBlock, grown |-> d.grown,
             front |-> d.front, slots |-> d.slots]
     /\ d.n \in Nat

TicketTypes ==
  /\ {tailIndex, headIndex, dequeueOptimisticCount, dequeueOvercommit} \subseteq Index
  /\ deq = [c \in Consumers |-> deq[c]] /\ \A c \in Consumers : DeqState(deq[c])
  /\ CallState(call)

Reservations == [c \in Consumers |-> HeldIn(deq[c])]

(* reserved, and neither given back nor claimed: that is in the hands of the consumers *)
Balanced ==
  \E k \in Int :
    dequeueOptimisticCount - dequeueOvercommit - headIndex
      = Total(Consumers, Reservations) + k * IndexMod

TicketInv == TicketTypes /\ Balanced

(* changing fields of a record gives a record of the same fields *)
LEMMA Located ==
  ASSUME NEW d, NEW p, NEW n, NEW i, NEW h, NEW s, NEW t,
         d = [pc |-> p, n |-> n, index |-> i, header |-> h, slot |-> s],
         NEW y, y = [d EXCEPT !.pc = "move", !.slot = t]
  PROVE  y = [pc |-> "move", n |-> n, index |-> i, header |-> h, slot |-> t]
<1> DEFINE e == [d EXCEPT !.pc = "move"]
<1>1. e = [pc |-> "move", n |-> n, index |-> i, header |-> h, slot |-> s]
  OBVIOUS
<1> HIDE DEF e
<1>2. [e EXCEPT !.slot = t] = [pc |-> "move", n |-> n, index |-> i, header |-> h, slot |-> t]
  BY <1>1
<1> QED BY <1>2 DEF e

LEMMA CallChanged ==
  ASSUME NEW d, CallState(d), d.pc \notin {"idle", "destroyed"},
         NEW p, NEW b, NEW t, NEW f, NEW g, NEW r,
         NEW e, e = [d EXCEPT !.pc = p, !.base = b, !.toCome = t, !.first = f, !.grown = g, !.front = r]
  PROVE  CallState(e)
<1>1. PICK p0, bulk0, n0, b0, t0, f0, s0, g0, r0, slots0 :
        /\ d = [pc |-> p0, bulk |-> bulk0, n |-> n0, base |-> b0, toCome |-> t0, first |-> f0,
                startBlock |-> s0, grown |-> g0, front |-> r0, slots |-> slots0]
        /\ n0 \in Nat
  BY DEF CallState, Idle
<1>2. e = [pc |-> p, bulk |-> bulk0, n |-> n0, base |-> b, toCome |-> t, first |-> f,
           startBlock |-> s0, grown |-> g, front |-> r, slots |-> slots0]
  BY <1>1
<1>3. e = [pc |-> e.pc, bulk |-> e.bulk, n |-> e.n, base |-> e.base, toCome |-> e.toCome,
           first |-> e.first, startBlock |-> e.startBlock, grown |-> e.grown, front |-> e.front,
           slots |-> e.slots]
  BY <1>2
<1>4. e.n \in Nat
  BY <1>1, <1>2
<1> QED BY <1>3, <1>4 DEF CallState

LEMMA HeldType == ASSUME NEW d, DeqState(d) PROVE HeldIn(d) \in Nat
BY DEF DeqState, HeldIn, Idle

(* one consumer changes its reservations by as much as the tickets change, up to wrapping *)
LEMMA TicketsMove ==
  ASSUME Wrapping, TicketInv, TicketTypes', NEW c \in Consumers, NEW x,
         deq' = [deq EXCEPT ![c] = x], NEW k \in Int,
         dequeueOptimisticCount' - dequeueOvercommit' - headIndex'
           = dequeueOptimisticCount - dequeueOvercommit - headIndex
               + HeldIn(x) - HeldIn(deq[c]) + k * IndexMod
  PROVE  Balanced'
<1> DEFINE e == Reservations
           f == [u \in Consumers |-> HeldIn(deq'[u])]
<1>1. deq'[c] = x /\ \A u \in Consumers \ {c} : deq'[u] = deq[u]
  BY DEF TicketInv, TicketTypes
<1>2. e \in [Consumers -> Nat] /\ f \in [Consumers -> Nat]
  <2>1. \A u \in Consumers : HeldIn(deq[u]) \in Nat
    BY HeldType DEF TicketInv, TicketTypes
  <2>2. \A u \in Consumers : HeldIn(deq'[u]) \in Nat
    BY HeldType DEF TicketTypes
  <2> QED BY <2>1, <2>2 DEF Reservations
<1>3. f = [e EXCEPT ![c] = f[c]] /\ e[c] = HeldIn(deq[c]) /\ f[c] = HeldIn(x)
  <2>1. ASSUME NEW u \in Consumers \ {c} PROVE f[u] = e[u]
    <3>1. deq'[u] = deq[u]
      BY <1>1
    <3>2. f[u] = HeldIn(deq'[u]) /\ e[u] = HeldIn(deq[u])
      BY DEF Reservations
    <3> QED BY <3>1, <3>2
  <2>2. e[c] = HeldIn(deq[c]) /\ f[c] = HeldIn(deq'[c])
    BY DEF Reservations
  <2>3. HeldIn(deq'[c]) = HeldIn(x)
    BY <1>1
  <2> HIDE DEF e, f
  <2>4. f = [e EXCEPT ![c] = f[c]]
    BY <1>2, <2>1
  <2> QED BY <2>2, <2>3, <2>4
<1>4. PICK j \in Int :
        dequeueOptimisticCount - dequeueOvercommit - headIndex = Total(Consumers, e) + j * IndexMod
  BY DEF TicketInv, Balanced
<1> HIDE DEF e, f
<1>5. Total(Consumers, e) \in Nat /\ Total(Consumers, f) = Total(Consumers, e) - e[c] + f[c]
  BY <1>2, <1>3, TotalsCompare DEF Wrapping
<1>6. e[c] \in Nat /\ f[c] \in Nat
  BY <1>2
<1>7. j + k \in Int /\ (j + k) * IndexMod = j * IndexMod + k * IndexMod
      /\ j * IndexMod \in Int /\ k * IndexMod \in Int
  BY DEF Wrapping
<1>8. dequeueOptimisticCount' - dequeueOvercommit' - headIndex' = Total(Consumers, f) + (j + k) * IndexMod
  BY <1>3, <1>4, <1>5, <1>6, <1>7
<1>9. Reservations' = f
  BY DEF Reservations, f
<1> QED BY <1>7, <1>8, <1>9 DEF Balanced, Total, MapThenSumSet, MapThenFoldSet

-----------------------------------------------------------------------------
Rest == <<tailIndex, headIndex, dequeueOptimisticCount, dequeueOvercommit>>

LEMMA IndexIsInt == ASSUME Wrapping PROVE Index \subseteq Nat
BY DEF Wrapping, Index

(* DequeueCall, Reserve: some are wanted, then reserved *)
LEMMA ReserveStep ==
  ASSUME Wrapping, TicketInv, NEW c \in Consumers,
         Reserve(c) \/ \E max \in Maxes : DequeueCall(c, max)
  PROVE  TicketInv'
<1> USE DEF TicketInv, TicketTypes
<1>0. Index \subseteq Nat
  BY IndexIsInt
<1>1. CASE \E max \in Maxes : DequeueCall(c, max)
  <2>1. PICK max \in Maxes : DequeueCall(c, max)
    BY <1>1
  <2> DEFINE desired == Sub(tailIndex, Sub(dequeueOptimisticCount, dequeueOvercommit))
             x == [pc |-> "reserve", want |-> Least(desired, max), overcommit |-> dequeueOvercommit]
  <2>2. desired \in Index /\ max \in Nat
    <3>1. Sub(dequeueOptimisticCount, dequeueOvercommit) \in Index
      BY <1>0, Wraps DEF Sub
    <3>2. desired \in Index
      BY <1>0, <3>1, Wraps DEF Sub
    <3>3. max \in Nat
      BY DEF Wrapping, IndexAssumption
    <3> QED BY <3>2, <3>3
  <2>3. deq' = [deq EXCEPT ![c] = x] /\ UNCHANGED <<Rest, call>> /\ deq[c].pc = "idle"
    BY <2>1 DEF DequeueCall, Rest, tickets
  <2>4. Least(desired, max) \in Nat
    BY <1>0, <2>2 DEF Least
  <2>5. DeqState(x) /\ HeldIn(x) = 0 /\ HeldIn(deq[c]) = 0
    <3> HIDE DEF desired
    <3>1. x \in [pc : {"reserve"}, want : Nat, overcommit : Index]
      BY <2>4
    <3> QED BY <2>3, <3>1 DEF DeqState, HeldIn
  <2> HIDE DEF x
  <2>6. TicketTypes'
    BY <2>3, <2>5 DEF Rest
  <2>7. dequeueOptimisticCount' - dequeueOvercommit' - headIndex'
          = dequeueOptimisticCount - dequeueOvercommit - headIndex
              + HeldIn(x) - HeldIn(deq[c]) + 0 * IndexMod
    BY <1>0, <2>3, <2>5 DEF Rest, Wrapping
  <2> QED BY <2>3, <2>6, <2>7, TicketsMove
<1>2. CASE Reserve(c)
  <2> DEFINE x == [pc |-> "check", want |-> deq[c].want,
                   first |-> Sub(dequeueOptimisticCount, deq[c].overcommit)]
  <2>1. /\ deq[c].pc = "reserve" /\ deq' = [deq EXCEPT ![c] = x]
        /\ dequeueOptimisticCount' = Add(dequeueOptimisticCount, deq[c].want)
        /\ UNCHANGED <<tailIndex, headIndex, dequeueOvercommit, call>>
    BY <1>2 DEF Reserve
  <2>2. deq[c].want \in Nat /\ deq[c].overcommit \in Index
    BY <2>1 DEF DeqState, Idle
  <2>3. Sub(dequeueOptimisticCount, deq[c].overcommit) \in Index
    BY <1>0, <2>2, Wraps DEF Sub
  <2>4. DeqState(x) /\ HeldIn(x) = deq[c].want /\ HeldIn(deq[c]) = 0
    <3>1. x \in [pc : {"check"}, want : Nat, first : Index]
      BY <2>2, <2>3
    <3> QED BY <2>1, <3>1 DEF DeqState, HeldIn
  <2>5. dequeueOptimisticCount + deq[c].want \in Int
    BY <1>0, <2>2
  <2>6. PICK q \in Int : /\ dequeueOptimisticCount' \in Index
                         /\ dequeueOptimisticCount' = dequeueOptimisticCount + deq[c].want + q * IndexMod
    BY <2>1, <2>5, Wraps DEF Add
  <2> HIDE DEF x
  <2>7. TicketTypes'
    BY <2>1, <2>4, <2>6
  <2>8. dequeueOptimisticCount' - dequeueOvercommit' - headIndex'
          = dequeueOptimisticCount - dequeueOvercommit - headIndex
              + HeldIn(x) - HeldIn(deq[c]) + q * IndexMod
    BY <1>0, <2>1, <2>2, <2>4, <2>6 DEF Wrapping
  <2> QED BY <2>1, <2>7, <2>8, TicketsMove
<1> QED BY <1>1, <1>2

(* Check, GiveBack: those that are not there go back to the overcommit *)
LEMMA GiveBackStep ==
  ASSUME Wrapping, TicketInv, NEW c \in Consumers, Check(c) \/ GiveBack(c)
  PROVE  TicketInv'
<1> USE DEF TicketInv, TicketTypes
<1>0. Index \subseteq Nat
  BY IndexIsInt
<1>1. CASE Check(c)
  <2> DEFINE there == Sub(tailIndex, deq[c].first)
             actual == IF Positive(there) THEN Least(there, deq[c].want) ELSE 0
             x == [pc |-> IF actual < deq[c].want THEN "giveBack" ELSE "claim",
                   n |-> actual, excess |-> deq[c].want - actual]
  <2>1. deq[c].pc = "check" /\ deq' = [deq EXCEPT ![c] = x] /\ UNCHANGED <<Rest, call>>
    BY <1>1 DEF Check, Rest, tickets
  <2>2. deq[c].want \in Nat /\ deq[c].first \in Index
    BY <2>1 DEF DeqState, Idle
  <2>3. there \in Nat
    BY <1>0, <2>2, Wraps DEF Sub
  <2>4. actual \in Nat /\ actual <= deq[c].want
    <3> HIDE DEF there
    <3> QED BY <2>2, <2>3 DEF Least
  <2>5. HeldIn(deq[c]) = deq[c].want
    BY <2>1 DEF HeldIn
  <2> HIDE DEF actual
  <2>6. DeqState(x) /\ HeldIn(x) = deq[c].want
    <3>1. CASE actual < deq[c].want
      <4>1. x \in [pc : {"giveBack"}, n : Nat, excess : Nat]
        BY <2>2, <2>4, <3>1
      <4> QED BY <2>2, <2>4, <4>1 DEF DeqState, HeldIn
    <3>2. CASE ~(actual < deq[c].want)
      <4>1. x \in [pc : {"claim"}, n : Nat, excess : {0}]
        BY <2>2, <2>4, <3>2
      <4> QED BY <2>2, <2>4, <4>1 DEF DeqState, HeldIn
    <3> QED BY <3>1, <3>2
  <2> HIDE DEF x
  <2>7. TicketTypes'
    BY <2>1, <2>6 DEF Rest
  <2>8. dequeueOptimisticCount' - dequeueOvercommit' - headIndex'
          = dequeueOptimisticCount - dequeueOvercommit - headIndex
              + HeldIn(x) - HeldIn(deq[c]) + 0 * IndexMod
    BY <1>0, <2>1, <2>2, <2>5, <2>6 DEF Rest, Wrapping
  <2> QED BY <2>1, <2>7, <2>8, TicketsMove
<1>2. CASE GiveBack(c)
  <2> DEFINE x == IF deq[c].n = 0 THEN Idle ELSE [deq[c] EXCEPT !.pc = "claim", !.excess = 0]
  <2>1. /\ deq[c].pc = "giveBack" /\ deq' = [deq EXCEPT ![c] = x]
        /\ dequeueOvercommit' = Add(dequeueOvercommit, deq[c].excess)
        /\ UNCHANGED <<tailIndex, headIndex, dequeueOptimisticCount, call>>
    BY <1>2 DEF GiveBack
  <2>2. deq[c] \in [pc : {"giveBack"}, n : Nat, excess : Nat]
    BY <2>1 DEF DeqState, Idle
  <2>3. HeldIn(deq[c]) = deq[c].n + deq[c].excess
    BY <2>1 DEF HeldIn
  <2>4. DeqState(x) /\ HeldIn(x) = deq[c].n
    <3>1. CASE deq[c].n = 0
      BY <3>1 DEF DeqState, HeldIn, Idle
    <3>2. CASE deq[c].n # 0
      <4>1. x \in [pc : {"claim"}, n : Nat, excess : {0}] /\ x.n = deq[c].n
        BY <2>2, <3>2
      <4> HIDE DEF x
      <4> QED BY <2>2, <4>1 DEF DeqState, HeldIn
    <3> QED BY <3>1, <3>2
  <2>5. dequeueOvercommit + deq[c].excess \in Int
    BY <1>0, <2>2
  <2>6. PICK q \in Int : /\ dequeueOvercommit' \in Index
                         /\ dequeueOvercommit' = dequeueOvercommit + deq[c].excess + q * IndexMod
    BY <2>1, <2>5, Wraps DEF Add
  <2> HIDE DEF x
  <2>7. TicketTypes'
    BY <2>1, <2>4, <2>6
  <2>8. -q \in Int /\ (-q) * IndexMod = -(q * IndexMod) /\ q * IndexMod \in Int
    BY DEF Wrapping
  <2>9. dequeueOptimisticCount' - dequeueOvercommit' - headIndex'
          = dequeueOptimisticCount - dequeueOvercommit - headIndex
              + HeldIn(x) - HeldIn(deq[c]) + (-q) * IndexMod
    BY <1>0, <2>1, <2>2, <2>3, <2>4, <2>6, <2>8
  <2> QED BY <2>1, <2>7, <2>8, <2>9, TicketsMove
<1> QED BY <1>1, <1>2

(* ClaimElements: the rest goes to the head *)
LEMMA ClaimStep ==
  ASSUME Wrapping, TicketInv, NEW c \in Consumers, ClaimElements(c)
  PROVE  TicketInv'
<1> USE DEF TicketInv, TicketTypes
<1> DEFINE x == [pc |-> "load", n |-> deq[c].n, index |-> headIndex]
<1>0. Index \subseteq Nat
  BY IndexIsInt
<1>1. /\ deq[c].pc = "claim" /\ deq' = [deq EXCEPT ![c] = x]
      /\ headIndex' = Add(headIndex, deq[c].n)
      /\ UNCHANGED <<tailIndex, dequeueOptimisticCount, dequeueOvercommit, call>>
  BY DEF ClaimElements
<1>2. deq[c] \in [pc : {"claim"}, n : Nat, excess : {0}]
  BY <1>1 DEF DeqState, Idle
<1>3. HeldIn(deq[c]) = deq[c].n /\ HeldIn(x) = 0 /\ DeqState(x)
  BY <1>1, <1>2 DEF HeldIn, DeqState
<1>4. headIndex + deq[c].n \in Int
  BY <1>0, <1>2
<1>5. PICK q \in Int : headIndex' \in Index /\ headIndex' = headIndex + deq[c].n + q * IndexMod
  BY <1>1, <1>4, Wraps DEF Add
<1> HIDE DEF x
<1>6. TicketTypes'
  BY <1>1, <1>3, <1>5
<1>7. -q \in Int /\ (-q) * IndexMod = -(q * IndexMod) /\ q * IndexMod \in Int
  BY DEF Wrapping
<1>8. dequeueOptimisticCount' - dequeueOvercommit' - headIndex'
        = dequeueOptimisticCount - dequeueOvercommit - headIndex
            + HeldIn(x) - HeldIn(deq[c]) + (-q) * IndexMod
  BY <1>0, <1>1, <1>2, <1>3, <1>5, <1>7
<1> QED BY <1>1, <1>6, <1>7, <1>8, TicketsMove

(* the search for the block: what was claimed is no longer a reservation *)
LEMMA SearchStep ==
  ASSUME Wrapping, TicketInv, NEW c \in Consumers,
         LoadIndex(c) \/ Locate(c) \/ MoveOut(c) \/ MarkEmpty(c)
  PROVE  TicketInv'
<1> USE DEF TicketInv, TicketTypes
<1>0. Index \subseteq Nat
  BY IndexIsInt
<1>1. UNCHANGED <<Rest, call>>
  BY DEF LoadIndex, Locate, MoveOut, MarkEmpty, Rest, tickets
<1>2. DeqState(deq[c])
  OBVIOUS
<1>3. PICK x : deq' = [deq EXCEPT ![c] = x] /\ DeqState(x) /\ HeldIn(x) = 0 /\ HeldIn(deq[c]) = 0
  <2>1. CASE LoadIndex(c)
    <3> DEFINE y == [pc |-> "locate", n |-> deq[c].n, index |-> deq[c].index,
                     header |-> Len(blockIndex), slot |-> blockIndex[Len(blockIndex)].front]
    <3>1. deq' = [deq EXCEPT ![c] = y] /\ deq[c].pc = "load"
      BY <2>1 DEF LoadIndex
    <3>2. DeqState(y) /\ HeldIn(y) = 0 /\ HeldIn(deq[c]) = 0
      BY <3>1 DEF DeqState, HeldIn
    <3> QED BY <3>1, <3>2
  <2>2. CASE Locate(c)
    <3> DEFINE y == [deq[c] EXCEPT !.pc = "move", !.slot = SlotFor(deq[c])]
    <3>1. deq' = [deq EXCEPT ![c] = y] /\ deq[c].pc = "locate"
      BY <2>2 DEF Locate
    <3>2. deq[c] = [pc |-> deq[c].pc, n |-> deq[c].n, index |-> deq[c].index,
                    header |-> deq[c].header, slot |-> deq[c].slot]
      BY <1>2, <3>1 DEF DeqState, Idle
    <3>3. y = [pc |-> "move", n |-> deq[c].n, index |-> deq[c].index,
               header |-> deq[c].header, slot |-> SlotFor(deq[c])]
      <4>1. PICK z : z = y
        OBVIOUS
      <4>2. z = [deq[c] EXCEPT !.pc = "move", !.slot = SlotFor(deq[c])]
        BY <4>1
      <4> HIDE DEF y
      <4> QED BY <3>2, <4>1, <4>2, Located
    <3> HIDE DEF y
    <3>4. DeqState(y) /\ HeldIn(y) = 0 /\ HeldIn(deq[c]) = 0
      BY <3>1, <3>3 DEF DeqState, HeldIn
    <3> QED BY <3>1, <3>4
  <2>3. CASE MoveOut(c)
    <3> DEFINE y == [pc |-> "mark", n |-> deq[c].n, index |-> deq[c].index,
                     header |-> deq[c].header, slot |-> deq[c].slot, block |-> BlockOf(deq[c])]
    <3>1. deq' = [deq EXCEPT ![c] = y] /\ deq[c].pc = "move"
      BY <2>3 DEF MoveOut
    <3>2. DeqState(y) /\ HeldIn(y) = 0 /\ HeldIn(deq[c]) = 0
      BY <3>1 DEF DeqState, HeldIn
    <3> QED BY <3>1, <3>2
  <2>4. CASE MarkEmpty(c)
    <3> DEFINE d == deq[c]
               k == InBlock(d)
               z == [pc |-> "move", n |-> d.n - k, index |-> Add(d.index, k), header |-> d.header,
                     slot |-> (d.slot + 1) % blockIndex[d.header].size]
               y == IF k = d.n THEN Idle ELSE z
    <3>1. deq' = [deq EXCEPT ![c] = y] /\ deq[c].pc = "mark"
      BY <2>4 DEF MarkEmpty
    <3>2. DeqState(z) /\ HeldIn(z) = 0 /\ HeldIn(deq[c]) = 0
      BY <3>1 DEF DeqState, HeldIn
    <3>3. DeqState(Idle) /\ HeldIn(Idle) = 0
      BY DEF DeqState, HeldIn, Idle
    <3> HIDE DEF z, k
    <3>4. DeqState(y) /\ HeldIn(y) = 0
      BY <3>2, <3>3
    <3> HIDE DEF y
    <3> QED BY <3>1, <3>2, <3>4
  <2> QED BY <2>1, <2>2, <2>3, <2>4
<1>4. TicketTypes'
  BY <1>1, <1>3 DEF Rest
<1>5. dequeueOptimisticCount' - dequeueOvercommit' - headIndex'
        = dequeueOptimisticCount - dequeueOvercommit - headIndex
            + HeldIn(x) - HeldIn(deq[c]) + 0 * IndexMod
  BY <1>0, <1>1, <1>3 DEF Rest, Wrapping
<1> QED BY <1>3, <1>4, <1>5, TicketsMove

(* the producer moves the tail and no ticket *)
LEMMA ProducerStep ==
  ASSUME Wrapping, TicketInv, Enqueue \/ Destroy
  PROVE  TicketInv'
<1> USE DEF TicketInv, TicketTypes
<1>0. Index \subseteq Nat
  BY IndexIsInt
<1>1. UNCHANGED <<headIndex, dequeueOptimisticCount, dequeueOvercommit, deq>>
  BY DEF Enqueue, EnqueueCall, TakeAhead, NoneAhead, NewBlockIndex, InsertBlock, EnqueueFails,
         Ready, Construct, ConstructorThrows, Enter, Publish, Destroy, tickets
<1>2. CASE Publish
  <2>1. call.n \in Nat
    BY <1>2 DEF Publish, CallState, Idle
  <2>2. tailIndex + call.n \in Int
    BY <1>0, <2>1
  <2>3. tailIndex' \in Index /\ call' = Idle
    BY <1>2, <2>2, Wraps DEF Publish, Add
  <2>4. CallState(call')
    BY <2>3 DEF CallState
  <2> QED BY <1>1, <2>3, <2>4 DEF Balanced, Reservations
<1>3. CASE ~Publish
  <2>1. tailIndex' = tailIndex
    BY <1>3 DEF Enqueue, EnqueueCall, TakeAhead, NoneAhead, NewBlockIndex, InsertBlock, EnqueueFails,
         Ready, Construct, ConstructorThrows, Enter, Destroy
  <2>2. CallState(call')
    <3>1. CASE \E n \in {1} \cup Counts, bulk \in BOOLEAN : EnqueueCall(n, bulk)
      <4>1. PICK n \in {1} \cup Counts, bulk \in BOOLEAN : EnqueueCall(n, bulk)
        BY <3>1
      <4>2. n \in Nat
        BY DEF Wrapping, IndexAssumption
      <4> QED BY <4>1, <4>2 DEF EnqueueCall, CallState
    <3>2. CASE EnqueueFails \/ ConstructorThrows \/ Destroy
      BY <3>2 DEF EnqueueFails, ConstructorThrows, Restore, Destroy, CallState
    <3>3. ASSUME call.pc \notin {"idle", "destroyed"},
                 NEW p, NEW b, NEW t, NEW f, NEW g, NEW r,
                 call' = [call EXCEPT !.pc = p, !.base = b, !.toCome = t, !.first = f, !.grown = g, !.front = r]
          PROVE  CallState(call')
      BY <3>3, CallChanged
    <3>4. CASE TakeAhead \/ NoneAhead \/ NewBlockIndex \/ InsertBlock \/ Ready \/ Construct \/ Enter
      <4>1. call.pc \in {"ahead", "room", "block", "ready", "construct", "enter"}
        BY <3>4 DEF TakeAhead, NoneAhead, NewBlockIndex, InsertBlock, Ready, Construct, Enter
      <4>2. call = [pc |-> call.pc, bulk |-> call.bulk, n |-> call.n, base |-> call.base,
                    toCome |-> call.toCome, first |-> call.first, startBlock |-> call.startBlock,
                    grown |-> call.grown, front |-> call.front, slots |-> call.slots]
        BY <4>1 DEF CallState, Idle
      <4>3. ASSUME NEW b, NEW more, Found(b, more)
            PROVE  CallState(call')
        <5> DEFINE p == IF call.toCome = 1 THEN "ready" ELSE more
                   base == Add(call.base, BlockSize)
                   first == IF call.first = None THEN b ELSE call.first
        <5>1. call' = [call EXCEPT !.pc = p, !.base = base, !.toCome = call.toCome - 1, !.first = first,
                                   !.grown = call.grown, !.front = call.front]
          BY <4>2, <4>3 DEF Found
        <5> HIDE DEF p, base, first
        <5> QED BY <3>3, <4>1, <5>1
      <4>4. ASSUME NEW p, call' = [call EXCEPT !.pc = p]
            PROVE  CallState(call')
        <5>1. call' = [call EXCEPT !.pc = p, !.base = call.base, !.toCome = call.toCome,
                                   !.first = call.first, !.grown = call.grown, !.front = call.front]
          BY <4>2, <4>4
        <5> QED BY <3>3, <4>1, <5>1
      <4>5. CASE TakeAhead \/ InsertBlock
        BY <4>3, <4>5 DEF TakeAhead, InsertBlock
      <4>6. CASE NoneAhead \/ Ready \/ Construct \/ Enter
        BY <4>4, <4>6 DEF NoneAhead, Ready, Construct, Enter
      <4>7. CASE NewBlockIndex
        <5>1. call' = [call EXCEPT !.pc = "block", !.base = call.base, !.toCome = call.toCome,
                                   !.first = call.first, !.grown = TRUE, !.front = call.slots]
          BY <4>2, <4>7 DEF NewBlockIndex
        <5> QED BY <3>3, <4>1, <5>1
      <4> QED BY <3>4, <4>5, <4>6, <4>7
    <3> QED BY <1>3, <3>1, <3>2, <3>4 DEF Enqueue
  <2> QED BY <1>1, <2>1, <2>2 DEF Balanced, Reservations
<1> QED BY <1>2, <1>3

LEMMA TicketsInductive ==
  ASSUME Wrapping
  PROVE  Spec => []TicketInv
<1>0. Index \subseteq Nat
  BY IndexIsInt
<1>1. Init => TicketInv
  <2> SUFFICES ASSUME Init PROVE TicketInv
    OBVIOUS
  <2>1. 0 \in Index /\ Age \in Index
    BY DEF Wrapping, IndexAssumption, Index
  <2>2. tailIndex \in Index
    BY <2>1 DEF Init, Constructed, Aged
  <2>3. TicketTypes
    BY <2>1, <2>2 DEF Init, TicketTypes, DeqState, CallState
  <2>4. Reservations \in [Consumers -> Nat] /\ \A c \in Consumers : Reservations[c] = 0
    BY DEF Init, Reservations, HeldIn, Idle
  <2>5. Total(Consumers, Reservations) = 0
    BY <2>4, TotalsCompare DEF Wrapping
  <2>6. /\ dequeueOptimisticCount - dequeueOvercommit - headIndex
             = Total(Consumers, Reservations) + 0 * IndexMod
        /\ 0 \in Int
    BY <1>0, <2>2, <2>5 DEF Init, Wrapping
  <2> QED BY <2>3, <2>6 DEF TicketInv, Balanced
<1>2. TicketInv /\ [Next]_vars => TicketInv'
  <2> SUFFICES ASSUME TicketInv, [Next]_vars PROVE TicketInv'
    OBVIOUS
  <2>1. CASE UNCHANGED vars
    BY <2>1 DEF vars, tickets, TicketInv, TicketTypes, Balanced, Reservations
  <2>2. CASE Enqueue \/ Destroy
    BY <2>2, ProducerStep
  <2>3. ASSUME NEW c \in Consumers, Dequeue(c) PROVE TicketInv'
    BY <2>3, ReserveStep, GiveBackStep, ClaimStep, SearchStep DEF Dequeue
  <2> QED BY <2>1, <2>2, <2>3 DEF Next, Destroyed
<1> QED BY <1>1, <1>2, PTL DEF Spec

(* However dequeues of one producer overtake each other (ExplicitProducer::dequeue, dequeue_bulk),
   what is reserved beyond the overcommit and the head is in the hands of consumers: when they
   are done, the next one finds exactly the elements there are, also after the counters wrapped. *)
THEOREM TicketsAlwaysBalance ==
  ASSUME IndexMod \in Nat \ {0}, IsFiniteSet(Consumers), IndexAssumption
  PROVE  Spec => []TicketsBalance
<1>0. Wrapping /\ Index \subseteq Nat
  BY IndexIsInt DEF Wrapping
<1>1. TicketInv => TicketsBalance
  <2> SUFFICES ASSUME TicketInv PROVE TicketsBalance
    OBVIOUS
  <2> DEFINE e == Reservations
             a == dequeueOptimisticCount - dequeueOvercommit
             total == Total(Consumers, e)
  <2>1. e \in [Consumers -> Nat] /\ \A c \in Consumers : e[c] = Reserved(c)
    BY HeldType DEF TicketInv, TicketTypes, Reservations, HeldIn, Reserved
  <2>2. MapThenSumSet(Reserved, Consumers) = total
    <3> DEFINE Iter(g) == [s \in SUBSET Consumers |->
                             IF s = {} THEN 0 ELSE Reserved(First(s)) + g[s \ {First(s)}]]
               f == CHOOSE g : g = Iter(g)
    <3> HIDE DEF e
    <3>1. MapThenSumSet(Reserved, Consumers) = f[Consumers]
      BY DEF MapThenSumSet, MapThenFoldSet, First
    <3>2. PICK sum \in [SUBSET Consumers -> Nat] : Sums(Consumers, e, sum)
      BY <2>1, SumsExist
    <3>3. ASSUME NEW s \in SUBSET Consumers, s # {} PROVE e[First(s)] = Reserved(First(s))
      BY <2>1, <3>3 DEF First
    <3>4. sum = Iter(sum)
      BY <3>2, <3>3 DEF Sums
    <3>5. f = Iter(f)
      BY <3>4
    <3> HIDE DEF f
    <3>6. \A s \in SUBSET Consumers : f[s] = Iter(f)[s]
      BY <3>5
    <3>7. Sums(Consumers, e, f)
      BY <3>3, <3>6 DEF Sums
    <3> QED BY <2>1, <3>1, <3>7, SumIsTotal
  <2>3. PICK k \in Int : a - headIndex = total + k * IndexMod
    BY DEF TicketInv, Balanced
  <2>4. total \in Nat
    BY <2>1, TotalsCompare
  <2>5. a \in Int /\ headIndex \in Int
    BY <1>0 DEF TicketInv, TicketTypes
  <2> HIDE DEF a, e, total
  <2>6. PICK q \in Int : a % IndexMod \in Index /\ a % IndexMod = a + q * IndexMod
    BY <1>0, <2>5, Wraps
  <2>7. k + q \in Int /\ (k + q) * IndexMod = k * IndexMod + q * IndexMod
        /\ k * IndexMod \in Int /\ q * IndexMod \in Int
    BY DEF Wrapping
  <2>8. /\ (a % IndexMod) - headIndex = total + (k + q) * IndexMod
        /\ (a % IndexMod) - headIndex \in Int /\ total \in Int
    BY <1>0, <2>3, <2>4, <2>5, <2>6, <2>7
  <2>9. ((a % IndexMod) - headIndex) % IndexMod = total % IndexMod
    BY <1>0, <2>7, <2>8, SameRemainder
  <2> QED BY <2>2, <2>9 DEF TicketsBalance, Sub, a
<1> QED BY <1>0, <1>1, TicketsInductive, PTL

-----------------------------------------------------------------------------
(* The list of producers and the tables that lead a thread to its own: XProducers *)

(* ids are hashed, may collide, and are none of the two that are not threads *)
Hashed ==
  /\ IsFiniteSet(Enqueuers) /\ MaxProducers \in Nat /\ InitialSize \in Nat \ {0}
  /\ HashOf \in [Enqueuers -> Nat] /\ Producers!Empty \notin Enqueuers /\ Producers!Reusable \notin Enqueuers

ProducerKinds == [isExplicit : BOOLEAN, inactive : BOOLEAN]
HashSlots == [key : {Producers!Empty, Producers!Reusable} \cup Enqueuers, value : Nat]
HashTables == UNION {[0..(c - 1) -> HashSlots] : c \in Nat \ {0}}

Taking == {"recycle", "take", "link", "got"}
Takers ==
  [pc : Taking, isExplicit : {TRUE}, ptr : Nat, result : Nat]
    \cup [pc : Taking, isExplicit : {FALSE}, main : Nat, ptr : Nat, result : Nat]
Growers == [pc : {"full", "resize", "grown", "admit"}, isExplicit : {FALSE}, main : Nat, newCount : Nat]
Inserters == [pc : {"insert"}, isExplicit : {FALSE}, main : Nat, step : Nat, again : BOOLEAN, result : Nat]
Leavers == [pc : {"exit"}, main : Nat]

ProducerTypes ==
  /\ producerList \in Seq(ProducerKinds) /\ Len(producerList) <= MaxProducers
  /\ holders \in [1..MaxProducers -> SUBSET Enqueuers]
  /\ tables \in Seq(HashTables) /\ tables # <<>> /\ hashCount \in Nat
  /\ listeners \in [Enqueuers -> SUBSET Nat] /\ tokenOf \in [Enqueuers -> Nat]
  /\ thread \in [Enqueuers -> {Producers!Idle} \cup Takers \cup Growers \cup Inserters \cup Leavers]

(* who has no implicit producer yet, and whose id will fill a slot *)
Seeks(t) ==
  \/ thread[t].pc \in {"full", "resize", "grown", "admit"}
  \/ thread[t].pc \in Taking /\ ~thread[t].isExplicit
Inserts(t) == thread[t].pc = "insert" /\ ~thread[t].again
ToBeCounted == {t \in Enqueuers : Seeks(t) \/ Inserts(t)}

RoomInv ==
  /\ Len(producerList) + Cardinality(Producers!Pending) <= MaxProducers
  /\ Cardinality(ToBeCounted) <= hashCount

(* a producer in use is active, and one thread's *)
HeldInv ==
  \A p \in 1..MaxProducers :
    /\ \A t, u \in holders[p] : t = u
    /\ holders[p] # {} => p \in DOMAIN producerList /\ ~producerList[p].inactive

Allocates(t) == thread[t].pc \in {"resize", "grown"}
ResizeInv ==
  /\ \A t, u \in Enqueuers : Allocates(t) /\ Allocates(u) => t = u
  /\ resizing <=> \E t \in Enqueuers : Allocates(t)

(* what a thread is about to take, or has taken *)
TakerInv(t) ==
  LET d == thread[t] IN
    /\ tokenOf[t] # 0 => /\ tokenOf[t] \in DOMAIN producerList /\ producerList[tokenOf[t]].isExplicit
                       /\ t \in holders[tokenOf[t]]
    /\ d.pc = "recycle" => d.ptr \in 0..Len(producerList)
    /\ d.pc = "take" => d.ptr \in DOMAIN producerList /\ producerList[d.ptr].isExplicit = d.isExplicit
    /\ d.pc = "got" => /\ d.result \in DOMAIN producerList /\ producerList[d.result].isExplicit = d.isExplicit
                       /\ t \in holders[d.result]

(* the implicit producer of a thread: the one that will hear of its end, and that its slots lead to *)
Mine(t) == {p \in DOMAIN producerList : ~producerList[p].isExplicit /\ t \in holders[p]}
HasSlot(t) == \E m \in DOMAIN tables : \E s \in DOMAIN tables[m] : tables[m][s].key = t

MineInv(t) ==
  LET d == thread[t] IN
    /\ \A p, q \in Mine(t) : p = q
    /\ IF d.pc = "got" /\ ~d.isExplicit THEN d.result \in Mine(t) ELSE Mine(t) = listeners[t]
    /\ Seeks(t) => listeners[t] = {}
    /\ d.pc = "insert" => d.result \in listeners[t]
    /\ listeners[t] # {} => d.pc = "exit" \/ Inserts(t) \/ HasSlot(t)

(* its slots are where the search finds them; one that ends has left the newer tables *)
SlotInv(t) ==
  \A m \in DOMAIN tables : \A s \in DOMAIN tables[m] : tables[m][s].key = t =>
    /\ tables[m][s].value \in listeners[t] /\ s \in Producers!Found(m, t)
    /\ thread[t].pc = "exit" => m <= thread[t].main

PathInv(t) ==
  LET d == thread[t] IN
    /\ d.pc \in {"full", "resize", "grown", "admit", "insert"} \/ (d.pc \in Taking /\ ~d.isExplicit) =>
         d.main \in DOMAIN tables
    /\ d.pc = "exit" => d.main \in 0..Len(tables)
    /\ d.pc = "insert" => \A k \in Nat : k < d.step =>
         tables[d.main][Producers!Probe(d.main, t, k)].key # Producers!Empty

ProducersInv ==
  /\ ProducerTypes /\ RoomInv /\ HeldInv /\ ResizeInv
  /\ \A t \in Enqueuers : TakerInv(t) /\ MineInv(t) /\ SlotInv(t) /\ PathInv(t)

-----------------------------------------------------------------------------
(* The doubling of the capacity ends. *)
LEMMA TwiceExists ==
  \E f \in [Nat -> Nat] : \A k \in Nat : f[k] = IF k = 0 THEN 1 ELSE 2 * f[k - 1]
<1> DEFINE Rec(f, n) == \A k \in 0..n : f[k] = IF k = 0 THEN 1 ELSE 2 * f[k - 1]
           E == {n \in Nat : \E f \in [Nat -> Nat] : Rec(f, n)}
           U == {n \in Nat : \A f, g \in [Nat -> Nat] : Rec(f, n) /\ Rec(g, n) => f[n] = g[n]}
<1>1. \A n \in Nat : n \in E
  <2>1. 0 \in E
    <3>1. [k \in Nat |-> 1] \in [Nat -> Nat] /\ Rec([k \in Nat |-> 1], 0)
      OBVIOUS
    <3> QED BY <3>1
  <2>2. ASSUME NEW n \in Nat, n \in E PROVE n + 1 \in E
    <3>1. PICK f \in [Nat -> Nat] : Rec(f, n)
      BY <2>2
    <3> DEFINE g == [f EXCEPT ![n + 1] = 2 * f[n]]
    <3>2. g \in [Nat -> Nat] /\ g[n + 1] = 2 * f[n] /\ \A k \in 0..n : g[k] = f[k]
      BY <3>1
    <3> HIDE DEF g
    <3>3. Rec(g, n + 1)
      <4> SUFFICES ASSUME NEW k \in 0..(n + 1) PROVE g[k] = IF k = 0 THEN 1 ELSE 2 * g[k - 1]
        OBVIOUS
      <4>1. CASE k = n + 1
        <5>1. (n + 1) - 1 = n /\ n \in 0..n /\ n + 1 # 0
          OBVIOUS
        <5> QED BY <3>2, <4>1, <5>1
      <4>2. CASE k \in 0..n
        <5>1. k # 0 => k - 1 \in 0..n
          BY <4>2
        <5> QED BY <3>1, <3>2, <4>2, <5>1
      <4> QED BY <4>1, <4>2
    <3> QED BY <3>2, <3>3
  <2> HIDE DEF E
  <2> QED BY <2>1, <2>2, InductionOnNat
<1>2. \A n \in Nat : n \in U
  <2>1. 0 \in U
    OBVIOUS
  <2>2. ASSUME NEW n \in Nat, n \in U PROVE n + 1 \in U
    <3> SUFFICES ASSUME NEW f \in [Nat -> Nat], NEW g \in [Nat -> Nat], Rec(f, n + 1), Rec(g, n + 1)
                 PROVE  f[n + 1] = g[n + 1]
      OBVIOUS
    <3>1. Rec(f, n) /\ Rec(g, n)
      OBVIOUS
    <3>2. f[n] = g[n]
      BY <2>2, <3>1
    <3>3. f[n + 1] = 2 * f[n] /\ g[n + 1] = 2 * g[n]
      OBVIOUS
    <3> QED BY <3>2, <3>3
  <2> HIDE DEF U
  <2> QED BY <2>1, <2>2, InductionOnNat
<1> DEFINE F(n) == CHOOSE f \in [Nat -> Nat] : Rec(f, n)
           h == [n \in Nat |-> F(n)[n]]
<1>3. \A n \in Nat : F(n) \in [Nat -> Nat] /\ Rec(F(n), n)
  BY <1>1
<1>4. h \in [Nat -> Nat]
  BY <1>3
<1>5. ASSUME NEW n \in Nat PROVE h[n] = IF n = 0 THEN 1 ELSE 2 * h[n - 1]
  <2>0. h[n] = F(n)[n] /\ n \in 0..n
    OBVIOUS
  <2>1. CASE n = 0
    <3> HIDE DEF F, h
    <3> QED BY <1>3, <2>0, <2>1
  <2>2. CASE n # 0
    <3>0. n - 1 \in Nat /\ n \in 0..n /\ 0..(n - 1) \subseteq 0..n
      BY <2>2
    <3>1. n - 1 \in Nat /\ n \in 0..n /\ 0..(n - 1) \subseteq 0..n /\ n - 1 \in U /\ h[n - 1] = F(n - 1)[n - 1]
      <4> HIDE DEF U, F
      <4> QED BY <1>2, <3>0
    <3> HIDE DEF F, h
    <3>2. Rec(F(n), n - 1) /\ Rec(F(n - 1), n - 1) /\ F(n) \in [Nat -> Nat] /\ F(n - 1) \in [Nat -> Nat]
      BY <1>3, <3>1
    <3>3. F(n)[n - 1] = F(n - 1)[n - 1]
      BY <3>1, <3>2
    <3>4. F(n)[n] = 2 * F(n)[n - 1]
      BY <1>3, <2>2, <3>1
    <3> QED BY <2>0, <2>2, <3>1, <3>3, <3>4
  <2> QED BY <2>1, <2>2
<1> HIDE DEF h
<1> QED BY <1>4, <1>5

LEMMA TwiceGrows ==
  \A k \in Nat : /\ Producers!Twice[k] \in Nat /\ k < Producers!Twice[k]
                 /\ Producers!Twice[k + 1] = 2 * Producers!Twice[k]
<1> DEFINE f == Producers!Twice
           G == {k \in Nat : f[k] \in Nat /\ k < f[k]}
<1>1. \A k \in Nat : f[k] = IF k = 0 THEN 1 ELSE 2 * f[k - 1]
  <2>1. PICK g \in [Nat -> Nat] : \A k \in Nat : g[k] = IF k = 0 THEN 1 ELSE 2 * g[k - 1]
    BY TwiceExists
  <2>2. g = [k \in Nat |-> IF k = 0 THEN 1 ELSE 2 * g[k - 1]]
    BY <2>1
  <2>3. f = [k \in Nat |-> IF k = 0 THEN 1 ELSE 2 * f[k - 1]]
    BY <2>2 DEF Producers!Twice
  <2> HIDE DEF f
  <2> QED BY <2>3
<1> HIDE DEF f
<1>2. 0 \in G
  BY <1>1
<1>3. \A k \in Nat : f[k + 1] = 2 * f[k]
  <2> SUFFICES ASSUME NEW k \in Nat PROVE f[k + 1] = 2 * f[k]
    OBVIOUS
  <2>1. k + 1 # 0 /\ (k + 1) - 1 = k
    OBVIOUS
  <2> QED BY <1>1, <2>1
<1>4. ASSUME NEW k \in Nat, k \in G PROVE k + 1 \in G
  BY <1>3, <1>4
<1>5. \A k \in Nat : k \in G
  <2> HIDE DEF G
  <2> QED BY <1>2, <1>4, InductionOnNat
<1> QED BY <1>3, <1>5 DEF f

(* Sets of numbers up to n have a smallest and a largest member. *)
LEMMA Extremes ==
  ASSUME NEW n \in Nat, NEW S, S \subseteq 1..n, S # {}
  PROVE  Producers!Min(S) \in S /\ Producers!Max(S) \in S /\ \A x \in S : x <= Producers!Max(S)
<1> DEFINE T == {k \in Nat : \A R \in SUBSET (1..k) : R # {} =>
                    (\E x \in R : \A y \in R : x <= y) /\ (\E x \in R : \A y \in R : y <= x)}
<1>1. 0 \in T
  <2>1. \A R \in SUBSET (1..0) : R = {}
    OBVIOUS
  <2> QED BY <2>1
<1>2. ASSUME NEW k \in Nat, k \in T PROVE k + 1 \in T
  <2> SUFFICES ASSUME NEW R \in SUBSET (1..(k + 1)), R # {}
               PROVE  (\E x \in R : \A y \in R : x <= y) /\ (\E x \in R : \A y \in R : y <= x)
    OBVIOUS
  <2> DEFINE Q == R \ {k + 1}
  <2>1. Q \in SUBSET (1..k) /\ \A x \in R : x \in Nat /\ (x \in Q \/ x = k + 1)
    OBVIOUS
  <2>2. CASE Q = {}
    <3>1. R = {k + 1}
      BY <2>1, <2>2
    <3> QED BY <3>1
  <2>3. CASE Q # {}
    <3>1. PICK x \in Q : \A y \in Q : x <= y
      BY <1>2, <2>1, <2>3
    <3>2. PICK z \in Q : \A y \in Q : y <= z
      BY <1>2, <2>1, <2>3
    <3>3. \A y \in R : x <= y
      BY <2>1, <3>1
    <3>4. \E w \in R : \A y \in R : y <= w
      <4>1. CASE k + 1 \in R
        BY <2>1, <4>1
      <4>2. CASE k + 1 \notin R
        BY <2>1, <3>2, <4>2
      <4> QED BY <4>1, <4>2
    <3> QED BY <3>3, <3>4
  <2> QED BY <2>2, <2>3
<1>3. n \in T
  <2> HIDE DEF T
  <2> QED BY <1>1, <1>2, InductionOnNat
<1>4. (\E x \in S : \A y \in S : x <= y) /\ (\E x \in S : \A y \in S : y <= x)
  BY <1>3
<1>5. Producers!Min(S) \in S
  BY <1>4 DEF Producers!Min
<1>6. Producers!Max(S) \in S /\ \A x \in S : x <= Producers!Max(S)
  <2>1. \E x \in S : \A y \in S : x >= y
    BY <1>4
  <2>2. Producers!Max(S) \in S /\ \A y \in S : Producers!Max(S) >= y
    BY <2>1 DEF Producers!Max
  <2>3. \A y \in S : y \in Int
    OBVIOUS
  <2> QED BY <2>2, <2>3
<1> QED BY <1>5, <1>6

LEMMA DoublingEnds ==
  ASSUME NEW n \in Nat, NEW size \in Nat \ {0}
  PROVE  Producers!Doubled(n, size) \in Nat \ {0}
<1> DEFINE T == {k \in 1..(n + 1) : n < (size * Producers!Twice[k]) \div 2}
<1>1. n + 1 \in T
  <2> DEFINE a == Producers!Twice[n]
  <2>1. Producers!Twice[n + 1] = 2 * a /\ a \in Nat /\ n < a
    BY TwiceGrows
  <2> HIDE DEF a
  <2>2. a <= size * a
    BY <2>1
  <2>3. size * (2 * a) = 2 * (size * a) /\ size * a \in Nat
    BY <2>1
  <2>4. \A b \in Nat : (2 * b) \div 2 = b
    OBVIOUS
  <2>5. (size * (2 * a)) \div 2 = size * a
    BY <2>3, <2>4
  <2> QED BY <2>1, <2>2, <2>3, <2>5
<1>2. T \subseteq 1..(n + 1) /\ T # {} /\ n + 1 \in Nat
  BY <1>1
<1>3. Producers!Min(T) \in 1..(n + 1)
  <2> HIDE DEF T
  <2> QED BY <1>2, Extremes
<1> DEFINE k == Producers!Min(T)
<1>4. Producers!Twice[k] \in Nat \ {0}
  <2>1. k \in Nat
    BY <1>3
  <2> HIDE DEF k
  <2> QED BY <2>1, TwiceGrows
<1>5. Producers!Doubled(n, size) = size * Producers!Twice[k]
  BY DEF Producers!Doubled
<1> HIDE DEF k
<1>6. \A a \in Nat \ {0} : size * a \in Nat \ {0}
  OBVIOUS
<1> QED BY <1>4, <1>5, <1>6

-----------------------------------------------------------------------------
(* What the step of one thread leaves of the others' *)
ListGrows ==
  \A p \in DOMAIN producerList : p \in DOMAIN producerList' /\ producerList'[p].isExplicit = producerList[p].isExplicit

HoldersStay(t) == \A p \in 1..MaxProducers : \A u \in Enqueuers \ {t} : u \in holders'[p] <=> u \in holders[p]

TablesStay(t) ==
  /\ \A m \in DOMAIN tables : m \in DOMAIN tables' /\ DOMAIN tables'[m] = DOMAIN tables[m]
  /\ \A m \in DOMAIN tables : \A s \in DOMAIN tables[m] :
       /\ tables[m][s].key # Producers!Empty => tables'[m][s].key # Producers!Empty
       /\ \A u \in Enqueuers \ {t} : tables[m][s].key = u \/ tables'[m][s].key = u => tables'[m][s] = tables[m][s]
  /\ \A m \in DOMAIN tables' \ DOMAIN tables : \A s \in DOMAIN tables'[m] : tables'[m][s].key = Producers!Empty

OthersUntouched(t) ==
  /\ \A u \in Enqueuers \ {t} : thread'[u] = thread[u] /\ tokenOf'[u] = tokenOf[u] /\ listeners'[u] = listeners[u]
  /\ ListGrows /\ HoldersStay(t) /\ TablesStay(t)

ThreadInv(t) == TakerInv(t) /\ MineInv(t) /\ SlotInv(t) /\ PathInv(t)

LEMMA TableOf ==
  ASSUME ProducerTypes, NEW m \in DOMAIN tables
  PROVE  \E c \in Nat \ {0} : tables[m] \in [0..(c - 1) -> HashSlots] /\ Producers!Capacity(m) = c
<1>1. PICK c \in Nat \ {0} : tables[m] \in [0..(c - 1) -> HashSlots]
  BY DEF ProducerTypes, HashTables
<1>2. Cardinality(0..(c - 1)) = c
  BY <1>1, FS_Interval
<1>3. DOMAIN tables[m] = 0..(c - 1)
  BY <1>1
<1>4. Producers!Capacity(m) = Cardinality(0..(c - 1))
  BY <1>3 DEF Producers!Capacity, Producers!Cardinality, Cardinality
<1> QED BY <1>1, <1>2, <1>4

LEMMA ProbesMeetSlots ==
  ASSUME Hashed, ProducerTypes, NEW m \in DOMAIN tables, NEW u \in Enqueuers
  PROVE  /\ Producers!Capacity(m) \in Nat \ {0}
         /\ \A k \in Nat : Producers!Probe(m, u, k) \in DOMAIN tables[m]
<1>1. PICK c \in Nat \ {0} : tables[m] \in [0..(c - 1) -> HashSlots] /\ Producers!Capacity(m) = c
  BY TableOf
<1>2. \A h, k \in Nat : (h + k) % c \in 0..(c - 1)
  BY <1>1
<1>3. HashOf[u] \in Nat
  BY DEF Hashed
<1>4. DOMAIN tables[m] = 0..(c - 1)
  BY <1>1
<1> QED BY <1>1, <1>2, <1>3, <1>4 DEF Producers!Probe

(* A search that met no empty slot meets none later. *)
LEMMA FoundStays ==
  ASSUME Hashed, ProducerTypes, NEW t, TablesStay(t), NEW m \in DOMAIN tables, NEW u \in Enqueuers,
         NEW s \in Producers!Found(m, u), tables'[m][s].key = u
  PROVE  s \in Producers!Found(m, u)'
<1> DEFINE P(k) == (HashOf[u] + k) % Producers!Capacity(m)
<1>1. DOMAIN tables'[m] = DOMAIN tables[m]
  BY DEF TablesStay
<1>2. Producers!Capacity(m)' = Producers!Capacity(m)
  BY <1>1 DEF Producers!Capacity, Producers!Cardinality, Cardinality
<1> DEFINE c == Producers!Capacity(m)
<1>3. \A k : Producers!Probe(m, u, k) = (HashOf[u] + k) % c /\ Producers!Probe(m, u, k)' = (HashOf[u] + k) % c
  BY <1>2 DEF Producers!Probe
<1>4. c \in Nat \ {0} /\ \A k \in Nat : (HashOf[u] + k) % c \in DOMAIN tables[m]
  BY <1>3, ProbesMeetSlots
<1>5. s \in DOMAIN tables[m] /\ \A k \in 0..(c - 1) :
        (\A j \in 0..k : (HashOf[u] + j) % c # s) => tables[m][(HashOf[u] + k) % c].key # Producers!Empty
  BY <1>3 DEF Producers!Found
<1>6. \A x \in DOMAIN tables[m] : tables[m][x].key # Producers!Empty => tables'[m][x].key # Producers!Empty
  BY DEF TablesStay
<1>7. \A k \in 0..(c - 1) :
        (\A j \in 0..k : (HashOf[u] + j) % c # s) => tables'[m][(HashOf[u] + k) % c].key # Producers!Empty
  BY <1>4, <1>5, <1>6
<1>8. Producers!Empty' = Producers!Empty
  BY DEF Producers!Empty
<1> HIDE DEF c
<1> QED BY <1>1, <1>2, <1>3, <1>5, <1>7, <1>8 DEF Producers!Found, c

(* What holds of the others holds after the step. *)
LEMMA OthersStay ==
  ASSUME Hashed, ProducersInv, ProducerTypes', NEW t \in Enqueuers, OthersUntouched(t), NEW u \in Enqueuers \ {t}
  PROVE  ThreadInv(u)'
<1>0. ProducerTypes /\ HeldInv /\ TakerInv(u) /\ MineInv(u) /\ SlotInv(u) /\ PathInv(u)
  BY DEF ProducersInv
<1>1. thread'[u] = thread[u] /\ tokenOf'[u] = tokenOf[u] /\ listeners'[u] = listeners[u]
  BY DEF OthersUntouched
<1>2. /\ \A p \in DOMAIN producerList : p \in DOMAIN producerList' /\ p \in 1..MaxProducers
                                         /\ producerList'[p].isExplicit = producerList[p].isExplicit
      /\ Len(producerList) <= Len(producerList') /\ Len(producerList) \in Nat /\ Len(producerList') \in Nat
      /\ DOMAIN producerList' \subseteq 1..MaxProducers
  <2>1. \A p \in DOMAIN producerList : p \in DOMAIN producerList'
                                         /\ producerList'[p].isExplicit = producerList[p].isExplicit
    BY DEF OthersUntouched, ListGrows
  <2>2. /\ Len(producerList) \in Nat /\ DOMAIN producerList = 1..Len(producerList) /\ Len(producerList) <= MaxProducers
        /\ Len(producerList') \in Nat /\ DOMAIN producerList' = 1..Len(producerList') /\ Len(producerList') <= MaxProducers
        /\ MaxProducers \in Nat
    BY <1>0 DEF ProducerTypes, Hashed
  <2>3. Len(producerList) <= Len(producerList')
    <3>1. CASE Len(producerList) = 0
      BY <2>2, <3>1
    <3>2. CASE Len(producerList) # 0
      <4>1. Len(producerList) \in 1..Len(producerList)
        BY <2>2, <3>2
      <4>2. Len(producerList) \in 1..Len(producerList')
        BY <2>1, <2>2, <4>1
      <4> QED BY <2>2, <4>2
    <3> QED BY <3>1, <3>2
  <2> QED BY <2>1, <2>2, <2>3
<1>3. \A p \in 1..MaxProducers : u \in holders'[p] <=> u \in holders[p]
  BY DEF OthersUntouched, HoldersStay
<1>4. TakerInv(u)'
  BY <1>0, <1>1, <1>2, <1>3 DEF TakerInv
<1>5. Mine(u)' = Mine(u)
  <2>1. ASSUME NEW p \in DOMAIN producerList', u \in holders'[p] PROVE p \in DOMAIN producerList
    BY <1>0, <1>2, <1>3, <2>1 DEF HeldInv
  <2> QED BY <1>2, <1>3, <2>1 DEF Mine
<1>6. TablesStay(t)
  BY DEF OthersUntouched
<1>7. HasSlot(u) => HasSlot(u)'
  BY <1>6 DEF HasSlot, TablesStay
<1>8. (Seeks(u)' <=> Seeks(u)) /\ (Inserts(u)' <=> Inserts(u))
  BY <1>1 DEF Seeks, Inserts
<1>9. MineInv(u)'
  BY <1>0, <1>1, <1>5, <1>7, <1>8 DEF MineInv
<1>10. u # Producers!Empty
  BY DEF Hashed
<1>11. SlotInv(u)'
  <2> SUFFICES ASSUME NEW m \in DOMAIN tables', NEW s \in DOMAIN tables'[m], tables'[m][s].key = u
               PROVE  /\ tables'[m][s].value \in listeners'[u] /\ s \in Producers!Found(m, u)'
                      /\ thread'[u].pc = "exit" => m <= thread'[u].main
    BY DEF SlotInv
  <2>1. m \in DOMAIN tables /\ s \in DOMAIN tables[m] /\ tables'[m][s] = tables[m][s]
    <3>1. m \in DOMAIN tables
      BY <1>6, <1>10 DEF TablesStay
    <3> QED BY <1>6, <3>1 DEF TablesStay
  <2>2. /\ tables[m][s].value \in listeners[u] /\ s \in Producers!Found(m, u)
        /\ thread[u].pc = "exit" => m <= thread[u].main
    BY <1>0, <2>1 DEF SlotInv
  <2>3. s \in Producers!Found(m, u)'
    BY <1>0, <1>6, <2>1, <2>2, FoundStays
  <2> QED BY <1>1, <2>1, <2>2, <2>3
<1>12. Len(tables) \in Nat /\ Len(tables') \in Nat /\ Len(tables) <= Len(tables')
       /\ DOMAIN tables = 1..Len(tables) /\ DOMAIN tables' = 1..Len(tables')
  <2>1. Len(tables) \in Nat /\ Len(tables') \in Nat /\ DOMAIN tables = 1..Len(tables) /\ DOMAIN tables' = 1..Len(tables')
        /\ Len(tables) # 0
    BY <1>0 DEF ProducerTypes
  <2>2. Len(tables) \in DOMAIN tables'
    BY <1>6, <2>1 DEF TablesStay
  <2> QED BY <2>1, <2>2
<1>13. PathInv(u)'
  <2>1. thread[u].pc \in {"full", "resize", "grown", "admit", "insert"} \/ (thread[u].pc \in Taking /\ ~thread[u].isExplicit) =>
         thread[u].main \in DOMAIN tables'
    BY <1>0, <1>12 DEF PathInv
  <2>2. thread[u].pc = "exit" => thread[u].main \in 0..Len(tables')
    BY <1>0, <1>12 DEF PathInv
  <2>3. ASSUME thread[u].pc = "insert", NEW k \in Nat, k < thread[u].step
        PROVE  tables'[thread'[u].main][Producers!Probe(thread[u].main, u, k)'].key # Producers!Empty
    <3>0. PICK m : m = thread[u].main
      OBVIOUS
    <3>1. m \in DOMAIN tables /\ tables[m][Producers!Probe(m, u, k)].key # Producers!Empty
      BY <1>0, <2>3, <3>0 DEF PathInv
    <3>2. Producers!Probe(m, u, k) \in DOMAIN tables[m]
      BY <1>0, <3>1, ProbesMeetSlots
    <3>3. DOMAIN tables'[m] = DOMAIN tables[m] /\ tables'[m][Producers!Probe(m, u, k)].key # Producers!Empty
      BY <1>6, <3>1, <3>2 DEF TablesStay
    <3>4. Producers!Capacity(m)' = Producers!Capacity(m)
      BY <3>3 DEF Producers!Capacity, Producers!Cardinality, Cardinality
    <3>5. Producers!Probe(m, u, k)' = Producers!Probe(m, u, k)
      BY <3>4 DEF Producers!Probe
    <3>6. Producers!Probe(thread[u].main, u, k)' = Producers!Probe(m, u, k)'
      BY <1>1, <3>0
    <3> QED BY <1>1, <3>0, <3>3, <3>5, <3>6
  <2>4. Producers!Empty' = Producers!Empty
    BY DEF Producers!Empty
  <2> QED BY <1>1, <2>1, <2>2, <2>3, <2>4 DEF PathInv
<1> QED BY <1>4, <1>9, <1>11, <1>13 DEF ThreadInv

-----------------------------------------------------------------------------
(* How one thread's step changes the numbers of threads *)
LEMMA OneMember ==
  ASSUME NEW S, IsFiniteSet(S), NEW A, NEW B, A \subseteq S, B \subseteq S, NEW t \in S, A \ {t} = B \ {t}
  PROVE  /\ Cardinality(A) \in Nat /\ Cardinality(B) \in Nat
         /\ Cardinality(B) = Cardinality(A) - (IF t \in A THEN 1 ELSE 0) + (IF t \in B THEN 1 ELSE 0)
<1>1. IsFiniteSet(A) /\ IsFiniteSet(B) /\ Cardinality(A) \in Nat /\ Cardinality(B) \in Nat
  BY FS_Subset, FS_CardinalityType
<1> DEFINE a == Cardinality(A)
           b == Cardinality(B)
           c == Cardinality(A \ {t})
<1>2. (t \in A => c = a - 1) /\ (t \in B => Cardinality(B \ {t}) = b - 1)
  BY <1>1, FS_RemoveElement
<1>3. (t \notin A => A \ {t} = A) /\ (t \notin B => B \ {t} = B)
  OBVIOUS
<1>4. (t \notin A => c = a) /\ (t \notin B => c = b) /\ (t \in B => c = b - 1) /\ (t \in A => c = a - 1)
  BY <1>2, <1>3
<1>5. a \in Nat /\ b \in Nat
  BY <1>1
<1> HIDE DEF a, b, c
<1>6. b = a - (IF t \in A THEN 1 ELSE 0) + (IF t \in B THEN 1 ELSE 0)
  <2>1. CASE t \in A /\ t \in B
    BY <1>4, <1>5, <2>1
  <2>2. CASE t \in A /\ t \notin B
    BY <1>4, <1>5, <2>2
  <2>3. CASE t \notin A /\ t \in B
    BY <1>4, <1>5, <2>3
  <2>4. CASE t \notin A /\ t \notin B
    BY <1>4, <1>5, <2>4
  <2> QED BY <2>1, <2>2, <2>3, <2>4
<1> QED BY <1>5, <1>6 DEF a, b

Links(t) == thread[t].pc = "link"
ToCount(t) == Seeks(t) \/ Inserts(t)

LEMMA NumbersChange ==
  ASSUME Hashed, NEW t \in Enqueuers, \A u \in Enqueuers \ {t} : thread'[u] = thread[u]
  PROVE  /\ Cardinality(Producers!Pending) \in Nat /\ Cardinality(ToBeCounted) \in Nat
         /\ Cardinality(Producers!Pending)' =
              Cardinality(Producers!Pending) - (IF Links(t) THEN 1 ELSE 0) + (IF Links(t)' THEN 1 ELSE 0)
         /\ Cardinality(ToBeCounted)' =
              Cardinality(ToBeCounted) - (IF ToCount(t) THEN 1 ELSE 0) + (IF ToCount(t)' THEN 1 ELSE 0)
<1>1. Producers!Pending = {u \in Enqueuers : Links(u)} /\ ToBeCounted = {u \in Enqueuers : ToCount(u)}
  BY DEF Producers!Pending, Producers!At, Links, ToBeCounted, ToCount
<1>2. \A u \in Enqueuers \ {t} : (Links(u)' <=> Links(u)) /\ (ToCount(u)' <=> ToCount(u))
  BY DEF Links, ToCount, Seeks, Inserts
<1>3. Producers!Pending' = {u \in Enqueuers : Links(u)'} /\ ToBeCounted' = {u \in Enqueuers : ToCount(u)'}
  BY DEF Producers!Pending, Producers!At, Links, ToBeCounted, ToCount
<1>4. IsFiniteSet(Enqueuers)
  BY DEF Hashed
<1>5. Producers!Pending \ {t} = Producers!Pending' \ {t} /\ ToBeCounted \ {t} = ToBeCounted' \ {t}
  BY <1>1, <1>2, <1>3
<1>6. /\ Producers!Pending \subseteq Enqueuers /\ Producers!Pending' \subseteq Enqueuers
      /\ ToBeCounted \subseteq Enqueuers /\ ToBeCounted' \subseteq Enqueuers
      /\ (t \in Producers!Pending <=> Links(t)) /\ (t \in Producers!Pending' <=> Links(t)')
      /\ (t \in ToBeCounted <=> ToCount(t)) /\ (t \in ToBeCounted' <=> ToCount(t)')
  BY <1>1, <1>3
<1>7. /\ Cardinality(Producers!Pending) \in Nat
      /\ Cardinality(Producers!Pending') =
           Cardinality(Producers!Pending) - (IF t \in Producers!Pending THEN 1 ELSE 0) + (IF t \in Producers!Pending' THEN 1 ELSE 0)
  BY <1>4, <1>5, <1>6, OneMember
<1>8. /\ Cardinality(ToBeCounted) \in Nat
      /\ Cardinality(ToBeCounted') =
           Cardinality(ToBeCounted) - (IF t \in ToBeCounted THEN 1 ELSE 0) + (IF t \in ToBeCounted' THEN 1 ELSE 0)
  BY <1>4, <1>5, <1>6, OneMember
<1> QED BY <1>6, <1>7, <1>8

-----------------------------------------------------------------------------
(* What a thread can be doing *)
ThreadStates == {Producers!Idle} \cup Takers \cup Growers \cup Inserters \cup Leavers

LEMMA StateOf ==
  ASSUME ProducerTypes, NEW t \in Enqueuers
  PROVE  /\ thread[t].pc \in Taking => thread[t] \in Takers
         /\ thread[t].pc \in {"full", "resize", "grown", "admit"} => thread[t] \in Growers
         /\ thread[t].pc = "insert" => thread[t] \in Inserters
         /\ thread[t].pc = "exit" => thread[t] \in Leavers
         /\ thread[t].pc = "idle" => thread[t] = Producers!Idle
         /\ thread[t].pc \in Taking \cup {"full", "resize", "grown", "admit", "insert", "exit", "idle"}
<1>1. thread[t] \in ThreadStates
  BY DEF ProducerTypes, ThreadStates
<1>2. \A d \in Takers : d.pc \in Taking
  BY DEF Takers
<1>3. \A d \in Growers : d.pc \in {"full", "resize", "grown", "admit"}
  BY DEF Growers
<1>4. \A d \in Inserters : d.pc = "insert"
  BY DEF Inserters
<1>5. \A d \in Leavers : d.pc = "exit"
  BY DEF Leavers
<1>6. Producers!Idle.pc = "idle"
  BY DEF Producers!Idle
<1>7. CASE thread[t] \in Takers
  BY <1>2, <1>7 DEF Taking
<1>8. CASE thread[t] \in Growers
  BY <1>3, <1>8 DEF Taking
<1>9. CASE thread[t] \in Inserters
  BY <1>4, <1>9 DEF Taking
<1>10. CASE thread[t] \in Leavers
  BY <1>5, <1>10 DEF Taking
<1>11. CASE thread[t] = Producers!Idle
  BY <1>6, <1>11 DEF Taking
<1> QED BY <1>1, <1>7, <1>8, <1>9, <1>10, <1>11 DEF ThreadStates

SameTaker(d, e) == e \in Takers /\ e.isExplicit = d.isExplicit /\ (~d.isExplicit => e.main = d.main)

LEMMA TakerFields ==
  ASSUME NEW d \in Takers, NEW l \in Taking, NEW p \in Nat
  PROVE  /\ LET e == [d EXCEPT !.pc = l] IN SameTaker(d, e) /\ e.pc = l /\ e.ptr = d.ptr /\ e.result = d.result
         /\ LET e == [d EXCEPT !.ptr = p] IN SameTaker(d, e) /\ e.pc = d.pc /\ e.ptr = p /\ e.result = d.result
         /\ LET e == [d EXCEPT !.result = p] IN SameTaker(d, e) /\ e.pc = d.pc /\ e.ptr = d.ptr /\ e.result = p
<1> DEFINE E == [pc : Taking, isExplicit : {TRUE}, ptr : Nat, result : Nat]
           I == [pc : Taking, isExplicit : {FALSE}, main : Nat, ptr : Nat, result : Nat]
<1>1. CASE d \in E
  <2>1. d.isExplicit \in {TRUE} /\ d.pc \in Taking /\ d.ptr \in Nat /\ d.result \in Nat
    BY <1>1
  <2>2. \A x \in Taking, y, z \in Nat :
          LET e == [pc |-> x, isExplicit |-> d.isExplicit, ptr |-> y, result |-> z]
          IN  SameTaker(d, e) /\ e.pc = x /\ e.ptr = y /\ e.result = z
    BY <2>1 DEF SameTaker, Takers
  <2>3. [d EXCEPT !.pc = l] = [pc |-> l, isExplicit |-> d.isExplicit, ptr |-> d.ptr, result |-> d.result]
    BY <1>1
  <2>4. [d EXCEPT !.ptr = p] = [pc |-> d.pc, isExplicit |-> d.isExplicit, ptr |-> p, result |-> d.result]
    BY <1>1
  <2>5. [d EXCEPT !.result = p] = [pc |-> d.pc, isExplicit |-> d.isExplicit, ptr |-> d.ptr, result |-> p]
    BY <1>1
  <2> QED BY <2>1, <2>2, <2>3, <2>4, <2>5
<1>2. CASE d \in I
  <2>1. d.isExplicit \in {FALSE} /\ d.pc \in Taking /\ d.ptr \in Nat /\ d.result \in Nat /\ d.main \in Nat
    BY <1>2
  <2>2. \A x \in Taking, y, z \in Nat :
          LET e == [pc |-> x, isExplicit |-> d.isExplicit, main |-> d.main, ptr |-> y, result |-> z]
          IN  SameTaker(d, e) /\ e.pc = x /\ e.ptr = y /\ e.result = z
    BY <2>1 DEF SameTaker, Takers
  <2>3. [d EXCEPT !.pc = l] = [pc |-> l, isExplicit |-> d.isExplicit, main |-> d.main, ptr |-> d.ptr, result |-> d.result]
    BY <1>2
  <2>4. [d EXCEPT !.ptr = p] = [pc |-> d.pc, isExplicit |-> d.isExplicit, main |-> d.main, ptr |-> p, result |-> d.result]
    BY <1>2
  <2>5. [d EXCEPT !.result = p] = [pc |-> d.pc, isExplicit |-> d.isExplicit, main |-> d.main, ptr |-> d.ptr, result |-> p]
    BY <1>2
  <2> QED BY <2>1, <2>2, <2>3, <2>4, <2>5
<1> QED BY <1>1, <1>2 DEF Takers

Changes(d, e, l, p, r) ==
  SameTaker(d, e) /\ e.pc = l /\ e.ptr = p /\ e.result = r

LEMMA PcChanges ==
  ASSUME ProducerTypes, NEW t \in Enqueuers, thread[t].pc \in Taking, NEW l \in Taking, thread' = [thread EXCEPT ![t].pc = l]
  PROVE  \E e : Changes(thread[t], e, l, thread[t].ptr, thread[t].result) /\ thread' = [thread EXCEPT ![t] = e]
<1>1. PICK d : d = thread[t]
  OBVIOUS
<1>2. d \in Takers
  BY <1>1, StateOf
<1>3. PICK e : e = [d EXCEPT !.pc = l]
  OBVIOUS
<1>4. Changes(d, e, l, d.ptr, d.result)
  BY <1>2, <1>3, TakerFields DEF Changes
<1>5. thread' = [thread EXCEPT ![t] = e]
  BY <1>1, <1>3
<1> QED BY <1>1, <1>4, <1>5

LEMMA PtrChanges ==
  ASSUME ProducerTypes, NEW t \in Enqueuers, thread[t].pc \in Taking, NEW p \in Nat, thread' = [thread EXCEPT ![t].ptr = p]
  PROVE  \E e : Changes(thread[t], e, thread[t].pc, p, thread[t].result) /\ thread' = [thread EXCEPT ![t] = e]
<1>1. PICK d : d = thread[t]
  OBVIOUS
<1>2. d \in Takers
  BY <1>1, StateOf
<1>3. PICK e : e = [d EXCEPT !.ptr = p]
  OBVIOUS
<1>4. Changes(d, e, d.pc, p, d.result)
  <2>1. \A l \in Taking : LET f == [d EXCEPT !.ptr = p] IN SameTaker(d, f) /\ f.pc = d.pc /\ f.ptr = p /\ f.result = d.result
    BY <1>2, TakerFields
  <2>2. d.pc \in Taking
    BY <1>1
  <2> QED BY <1>3, <2>1, <2>2 DEF Changes
<1>5. thread' = [thread EXCEPT ![t] = e]
  BY <1>1, <1>3
<1> QED BY <1>1, <1>4, <1>5

LEMMA PcPtrChange ==
  ASSUME ProducerTypes, NEW t \in Enqueuers, thread[t].pc \in Taking, NEW l \in Taking, NEW p \in Nat, thread' = [thread EXCEPT ![t].pc = l, ![t].ptr = p]
  PROVE  \E e : Changes(thread[t], e, l, p, thread[t].result) /\ thread' = [thread EXCEPT ![t] = e]
<1>1. PICK d : d = thread[t]
  OBVIOUS
<1>2. d \in Takers
  BY <1>1, StateOf
<1>3. PICK e : e = [d EXCEPT !.pc = l, !.ptr = p]
  OBVIOUS
<1>4. Changes(d, e, l, p, d.result)
  <2>1. PICK f : f = [d EXCEPT !.pc = l]
    OBVIOUS
  <2>2. SameTaker(d, f) /\ f.pc = l /\ f.ptr = d.ptr /\ f.result = d.result /\ f \in Takers
    BY <1>2, <2>1, TakerFields DEF SameTaker
  <2>3. e = [f EXCEPT !.ptr = p]
    BY <1>3, <2>1
  <2>4. SameTaker(f, e) /\ e.pc = l /\ e.ptr = p /\ e.result = d.result
    BY <2>2, <2>3, TakerFields
  <2> QED BY <2>2, <2>4 DEF Changes, SameTaker
<1>5. thread' = [thread EXCEPT ![t] = e]
  BY <1>1, <1>3 DEF ProducerTypes
<1> QED BY <1>1, <1>4, <1>5

LEMMA PcResultChange ==
  ASSUME ProducerTypes, NEW t \in Enqueuers, thread[t].pc \in Taking, NEW l \in Taking, NEW p \in Nat, thread' = [thread EXCEPT ![t].pc = l, ![t].result = p]
  PROVE  \E e : Changes(thread[t], e, l, thread[t].ptr, p) /\ thread' = [thread EXCEPT ![t] = e]
<1>1. PICK d : d = thread[t]
  OBVIOUS
<1>2. d \in Takers
  BY <1>1, StateOf
<1>3. PICK e : e = [d EXCEPT !.pc = l, !.result = p]
  OBVIOUS
<1>4. Changes(d, e, l, d.ptr, p)
  <2>1. PICK f : f = [d EXCEPT !.pc = l]
    OBVIOUS
  <2>2. SameTaker(d, f) /\ f.pc = l /\ f.ptr = d.ptr /\ f.result = d.result /\ f \in Takers
    BY <1>2, <2>1, TakerFields DEF SameTaker
  <2>3. e = [f EXCEPT !.result = p]
    BY <1>3, <2>1
  <2>4. SameTaker(f, e) /\ e.pc = l /\ e.ptr = d.ptr /\ e.result = p
    BY <2>2, <2>3, TakerFields
  <2> QED BY <2>2, <2>4 DEF Changes, SameTaker
<1>5. thread' = [thread EXCEPT ![t] = e]
  BY <1>1, <1>3 DEF ProducerTypes
<1> QED BY <1>1, <1>4, <1>5

LEMMA ThreadBecomes ==
  ASSUME ProducerTypes, NEW t \in Enqueuers, NEW e \in ThreadStates, thread' = [thread EXCEPT ![t] = e]
  PROVE  /\ thread' \in [Enqueuers -> ThreadStates] /\ thread'[t] = e
         /\ \A u \in Enqueuers \ {t} : thread'[u] = thread[u]
  BY DEF ProducerTypes, ThreadStates

-----------------------------------------------------------------------------
(* Steps that leave the tables, or the list of producers, alone *)
LEMMA TablesAlone ==
  ASSUME Hashed, ProducersInv, NEW t \in Enqueuers, UNCHANGED <<tables, listeners, resizing>>,
         \A u \in Enqueuers \ {t} : thread'[u] = thread[u], Allocates(t)' <=> Allocates(t), thread'[t].pc # "exit"
  PROVE  TablesStay(t) /\ SlotInv(t)' /\ ResizeInv' /\ (HasSlot(t)' <=> HasSlot(t))
<1>1. TablesStay(t)
  BY DEF TablesStay
<1>2. SlotInv(t)
  BY DEF ProducersInv
<1>3. \A m : Producers!Found(m, t)' = Producers!Found(m, t)
  BY DEF Producers!Found, Producers!Probe, Producers!Capacity, Producers!Empty, Producers!Cardinality
<1>4. SlotInv(t)'
  BY <1>2, <1>3 DEF SlotInv
<1>5. \A u \in Enqueuers : Allocates(u)' <=> Allocates(u)
  BY DEF Allocates
<1>6. ResizeInv'
  BY <1>5 DEF ProducersInv, ResizeInv
<1>7. HasSlot(t)' <=> HasSlot(t)
  BY DEF HasSlot
<1> QED BY <1>1, <1>4, <1>6, <1>7

LEMMA ListAlone ==
  ASSUME ProducersInv, NEW t \in Enqueuers, UNCHANGED <<producerList, holders>>
  PROVE  HeldInv' /\ ListGrows /\ HoldersStay(t) /\ Mine(t)' = Mine(t)
<1>1. HeldInv'
  BY DEF ProducersInv, HeldInv
<1> QED BY <1>1 DEF ListGrows, HoldersStay, Mine

LEMMA StepKeeps ==
  ASSUME Hashed, ProducersInv, NEW t \in Enqueuers, ProducerTypes', RoomInv', HeldInv', ResizeInv',
         OthersUntouched(t), ThreadInv(t)'
  PROVE  ProducersInv'
<1>1. \A u \in Enqueuers \ {t} : ThreadInv(u)'
  BY OthersStay
<1>2. \A u \in Enqueuers : ThreadInv(u)'
  BY <1>1
<1> QED BY <1>2 DEF ProducersInv, ThreadInv

-----------------------------------------------------------------------------
(* The steps of recycle_or_create_producer *)
LEMMA TakingStep ==
  ASSUME Hashed, ProducersInv, NEW t \in Enqueuers, NEW e, UNCHANGED <<tables, listeners, resizing>>,
         thread[t].pc \in Taking, SameTaker(thread[t], e), thread' = [thread EXCEPT ![t] = e]
  PROVE  /\ thread[t] \in Takers /\ e \in Takers /\ e.pc \in Taking
         /\ thread' \in [Enqueuers -> ThreadStates] /\ thread'[t] = e
         /\ \A u \in Enqueuers \ {t} : thread'[u] = thread[u]
         /\ TablesStay(t) /\ SlotInv(t)' /\ PathInv(t)' /\ ResizeInv'
         /\ (HasSlot(t)' <=> HasSlot(t)) /\ (Seeks(t)' <=> Seeks(t)) /\ ~Inserts(t)' /\ ~Inserts(t)
         /\ (ToCount(t)' <=> ToCount(t))
<1> DEFINE d == thread[t]
<1>0. ProducerTypes /\ PathInv(t)
  BY DEF ProducersInv
<1>1. d \in Takers /\ e \in Takers /\ e.isExplicit = d.isExplicit /\ (~d.isExplicit => e.main = d.main)
  BY <1>0, StateOf DEF SameTaker
<1>2. d.pc \in Taking /\ e.pc \in Taking
  BY <1>1 DEF Takers
<1>3. e \in ThreadStates
  BY <1>1 DEF ThreadStates
<1>4. thread' \in [Enqueuers -> ThreadStates] /\ thread'[t] = e /\ \A u \in Enqueuers \ {t} : thread'[u] = thread[u]
  BY <1>0, <1>3, ThreadBecomes
<1>5. (Allocates(t)' <=> Allocates(t)) /\ e.pc # "exit" /\ e.pc # "insert" /\ d.pc # "insert"
  BY <1>2, <1>4 DEF Allocates, Taking
<1>6. TablesStay(t) /\ SlotInv(t)' /\ ResizeInv' /\ (HasSlot(t)' <=> HasSlot(t))
  BY <1>4, <1>5, TablesAlone
<1>7. (Seeks(t)' <=> Seeks(t)) /\ ~Inserts(t)' /\ ~Inserts(t)
  BY <1>1, <1>2, <1>4, <1>5 DEF Seeks, Inserts, Taking
<1>8. PathInv(t)'
  BY <1>0, <1>1, <1>2, <1>4, <1>5 DEF PathInv, Taking
<1> QED BY <1>1, <1>2, <1>4, <1>6, <1>7, <1>8 DEF ToCount

(* A search goes on, or ends without a producer to take. *)
LEMMA SearchKeeps ==
  ASSUME Hashed, ProducersInv, NEW t \in Enqueuers, NEW e,
         UNCHANGED <<producerList, tables, hashCount, resizing, listeners, tokenOf, holders>>,
         thread[t].pc \in {"recycle", "take"}, SameTaker(thread[t], e), thread' = [thread EXCEPT ![t] = e],
         \/ e.pc = "take" /\ Producers!Fits(t, e.ptr) /\ e.ptr \in DOMAIN producerList
         \/ e.pc = "recycle" /\ e.ptr \in 0..Len(producerList)
         \/ e.pc = "link" /\ Len(producerList) + Cardinality(Producers!Pending) < MaxProducers
  PROVE  ProducersInv'
<1> DEFINE d == thread[t]
<1>0. ProducerTypes /\ RoomInv /\ TakerInv(t) /\ MineInv(t)
  BY DEF ProducersInv
<1>1. d.pc \in Taking
  BY DEF Taking
<1>2. /\ e \in Takers /\ thread' \in [Enqueuers -> ThreadStates] /\ thread'[t] = e
      /\ \A u \in Enqueuers \ {t} : thread'[u] = thread[u]
      /\ TablesStay(t) /\ SlotInv(t)' /\ PathInv(t)' /\ ResizeInv'
      /\ (HasSlot(t)' <=> HasSlot(t)) /\ (Seeks(t)' <=> Seeks(t)) /\ ~Inserts(t)' /\ ~Inserts(t)
      /\ (ToCount(t)' <=> ToCount(t))
  BY <1>1, TakingStep
<1>3. ProducerTypes'
  BY <1>0, <1>2 DEF ProducerTypes, ThreadStates
<1>4. HeldInv' /\ ListGrows /\ HoldersStay(t) /\ Mine(t)' = Mine(t)
  BY ListAlone
<1>5. ~Links(t) /\ (Links(t)' <=> e.pc = "link")
  BY <1>2 DEF Links
<1>6. RoomInv'
  <2>1. Len(producerList) \in Nat /\ MaxProducers \in Nat
    BY <1>0 DEF ProducerTypes, Hashed
  <2>2. CASE e.pc = "link"
    <3>1. /\ Cardinality(Producers!Pending)' = Cardinality(Producers!Pending) + 1 /\ Cardinality(Producers!Pending) \in Nat
          /\ Cardinality(ToBeCounted)' = Cardinality(ToBeCounted)
      BY <1>2, <1>5, <2>2, NumbersChange
    <3> QED BY <1>0, <2>1, <2>2, <3>1 DEF RoomInv
  <2>3. CASE e.pc # "link"
    <3>1. Cardinality(Producers!Pending)' = Cardinality(Producers!Pending) /\ Cardinality(ToBeCounted)' = Cardinality(ToBeCounted)
      BY <1>2, <1>5, <2>3, NumbersChange
    <3> QED BY <1>0, <3>1 DEF RoomInv
  <2> QED BY <2>2, <2>3
<1>7. TakerInv(t)'
  BY <1>0, <1>2 DEF TakerInv, SameTaker, Producers!Fits
<1>8. MineInv(t)'
  <2>1. d.pc # "got" /\ d.pc # "exit" /\ e.pc # "insert" /\ e.pc # "got"
    OBVIOUS
  <2> QED BY <1>0, <1>2, <1>4, <2>1 DEF MineInv
<1>9. OthersUntouched(t)
  BY <1>2, <1>4 DEF OthersUntouched
<1> QED BY <1>2, <1>3, <1>4, <1>6, <1>7, <1>8, <1>9, StepKeeps DEF ThreadInv

LEMMA RecycleKeeps ==
  ASSUME Hashed, ProducersInv, NEW t \in Enqueuers, Producers!Recycle(t)
  PROVE  ProducersInv'
<1>0. ProducerTypes /\ TakerInv(t)
  BY DEF ProducersInv
<1> DEFINE d == thread[t]
<1>1. /\ d.pc = "recycle" /\ d.ptr # 0
      /\ \/ /\ Producers!Fits(t, d.ptr) /\ thread' = [thread EXCEPT ![t].pc = "take"]
         \/ thread' = [thread EXCEPT ![t].ptr = @ - 1]
      /\ UNCHANGED <<producerList, tables, hashCount, resizing, listeners, tokenOf, holders>>
  BY DEF Producers!Recycle, Producers!At, Producers!To, Producers!list, Producers!hash, Producers!None
<1>2. d.pc \in Taking
  BY <1>1 DEF Taking
<1>3. d.ptr \in DOMAIN producerList /\ d.ptr - 1 \in 0..Len(producerList) /\ d.ptr - 1 \in Nat
  BY <1>0, <1>1 DEF TakerInv, ProducerTypes
<1>4. CASE Producers!Fits(t, d.ptr) /\ thread' = [thread EXCEPT ![t].pc = "take"]
  <2>1. PICK l \in Taking : l = "take"
    BY DEF Taking
  <2>2. PICK e : Changes(d, e, l, d.ptr, d.result) /\ thread' = [thread EXCEPT ![t] = e]
    BY <1>0, <1>2, <1>4, <2>1, PcChanges
  <2>3. e.pc = "take" /\ Producers!Fits(t, e.ptr) /\ e.ptr \in DOMAIN producerList /\ SameTaker(d, e)
    BY <1>3, <1>4, <2>1, <2>2 DEF Changes
  <2> QED BY <1>1, <2>2, <2>3, SearchKeeps
<1>5. CASE thread' = [thread EXCEPT ![t].ptr = @ - 1]
  <2>1. PICK p \in Nat : p = d.ptr - 1
    BY <1>3
  <2>2. PICK e : Changes(d, e, d.pc, p, d.result) /\ thread' = [thread EXCEPT ![t] = e]
    BY <1>0, <1>2, <1>5, <2>1, PtrChanges
  <2>3. e.pc = "recycle" /\ e.ptr \in 0..Len(producerList) /\ SameTaker(d, e)
    BY <1>1, <1>3, <2>1, <2>2 DEF Changes
  <2> QED BY <1>1, <2>2, <2>3, SearchKeeps
<1> QED BY <1>1, <1>4, <1>5

LEMMA CreateKeeps ==
  ASSUME Hashed, ProducersInv, NEW t \in Enqueuers, Producers!Create(t)
  PROVE  ProducersInv'
<1>0. ProducerTypes
  BY DEF ProducersInv
<1> DEFINE d == thread[t]
<1>1. /\ d.pc = "recycle" /\ Len(producerList) + Cardinality(Producers!Pending) < MaxProducers
      /\ thread' = [thread EXCEPT ![t].pc = "link"]
      /\ UNCHANGED <<producerList, tables, hashCount, resizing, listeners, tokenOf, holders>>
  BY DEF Producers!Create, Producers!At, Producers!To, Producers!hash, Producers!Cardinality, Cardinality
<1>2. d.pc \in Taking
  BY <1>1 DEF Taking
<1>3. PICK l \in Taking : l = "link"
  BY DEF Taking
<1>4. PICK e : Changes(d, e, l, d.ptr, d.result) /\ thread' = [thread EXCEPT ![t] = e]
  BY <1>0, <1>1, <1>2, <1>3, PcChanges
<1>5. e.pc = "link" /\ SameTaker(d, e)
  BY <1>3, <1>4 DEF Changes
<1> QED BY <1>1, <1>4, <1>5, SearchKeeps

(* A producer that nobody holds becomes the thread's. *)
LEMMA GotKeeps ==
  ASSUME Hashed, ProducersInv, NEW t \in Enqueuers, NEW e, NEW p \in DOMAIN producerList',
         UNCHANGED <<tables, hashCount, resizing, listeners, tokenOf>>,
         thread[t].pc \in {"take", "link"}, SameTaker(thread[t], e), thread' = [thread EXCEPT ![t] = e],
         e.pc = "got", e.result = p,
         producerList' \in Seq(ProducerKinds), Len(producerList') <= MaxProducers, ListGrows,
         Len(producerList') = Len(producerList) + (IF thread[t].pc = "link" THEN 1 ELSE 0),
         \A q \in DOMAIN producerList' \ {p} : q \in DOMAIN producerList /\ producerList'[q] = producerList[q],
         producerList'[p].isExplicit = thread[t].isExplicit, ~producerList'[p].inactive,
         holders[p] = {}, holders' = [holders EXCEPT ![p] = {t}]
  PROVE  ProducersInv'
<1> DEFINE d == thread[t]
<1>0. ProducerTypes /\ RoomInv /\ HeldInv /\ TakerInv(t) /\ MineInv(t)
  BY DEF ProducersInv
<1>1. d.pc \in Taking
  BY DEF Taking
<1>2. /\ e \in Takers /\ thread' \in [Enqueuers -> ThreadStates] /\ thread'[t] = e
      /\ \A u \in Enqueuers \ {t} : thread'[u] = thread[u]
      /\ TablesStay(t) /\ SlotInv(t)' /\ PathInv(t)' /\ ResizeInv'
      /\ (HasSlot(t)' <=> HasSlot(t)) /\ (Seeks(t)' <=> Seeks(t)) /\ ~Inserts(t)' /\ ~Inserts(t)
      /\ (ToCount(t)' <=> ToCount(t))
  BY <1>1, TakingStep
<1>3. DOMAIN producerList' \subseteq 1..MaxProducers /\ p \in 1..MaxProducers
  BY <1>0 DEF ProducerTypes, Hashed
<1>4. /\ holders' \in [1..MaxProducers -> SUBSET Enqueuers] /\ holders'[p] = {t}
      /\ \A q \in 1..MaxProducers \ {p} : holders'[q] = holders[q]
  BY <1>0, <1>3 DEF ProducerTypes
<1>5. ProducerTypes'
  BY <1>0, <1>2, <1>4 DEF ProducerTypes, ThreadStates
<1>6. HeldInv'
  <2> SUFFICES ASSUME NEW q \in 1..MaxProducers
               PROVE  /\ \A u, v \in holders'[q] : u = v
                      /\ holders'[q] # {} => q \in DOMAIN producerList' /\ ~producerList'[q].inactive
    BY DEF HeldInv
  <2>1. CASE q = p
    BY <1>4, <2>1
  <2>2. CASE q # p
    <3>1. holders'[q] = holders[q]
      BY <1>4, <2>2
    <3>2. q \in DOMAIN producerList => q \in DOMAIN producerList' /\ producerList'[q] = producerList[q]
      BY <2>2 DEF ListGrows
    <3> QED BY <1>0, <3>1, <3>2 DEF HeldInv
  <2> QED BY <2>1, <2>2
<1>7. HoldersStay(t)
  BY <1>4 DEF HoldersStay
<1>8. RoomInv'
  <2>1. Len(producerList) \in Nat /\ MaxProducers \in Nat /\ Len(producerList') \in Nat
    BY <1>0, <1>5 DEF ProducerTypes, Hashed
  <2>2. ~Links(t)' /\ (Links(t) <=> d.pc = "link")
    BY <1>2 DEF Links
  <2>3. CASE d.pc = "link"
    <3>1. /\ Cardinality(Producers!Pending)' = Cardinality(Producers!Pending) - 1 /\ Cardinality(Producers!Pending) \in Nat
          /\ Cardinality(ToBeCounted)' = Cardinality(ToBeCounted)
      BY <1>2, <2>2, <2>3, NumbersChange
    <3>2. Len(producerList') = Len(producerList) + 1
      BY <2>3
    <3> QED BY <1>0, <2>1, <3>1, <3>2 DEF RoomInv
  <2>4. CASE d.pc # "link"
    <3>1. Cardinality(Producers!Pending)' = Cardinality(Producers!Pending) /\ Cardinality(ToBeCounted)' = Cardinality(ToBeCounted)
      BY <1>2, <2>2, <2>4, NumbersChange
    <3>2. Len(producerList') = Len(producerList)
      BY <2>1, <2>4
    <3> QED BY <1>0, <3>1, <3>2 DEF RoomInv
  <2> QED BY <2>3, <2>4
<1>9. TakerInv(t)'
  <2>1. tokenOf[t] # 0 => /\ tokenOf[t] \in DOMAIN producerList' /\ producerList'[tokenOf[t]].isExplicit
                        /\ t \in holders'[tokenOf[t]]
    <3>1. ASSUME tokenOf[t] # 0
          PROVE  tokenOf[t] \in DOMAIN producerList /\ producerList[tokenOf[t]].isExplicit /\ t \in holders[tokenOf[t]]
      BY <1>0, <3>1 DEF TakerInv
    <3> QED BY <1>3, <1>4, <3>1 DEF ListGrows
  <2>2. t \in holders'[p] /\ producerList'[p].isExplicit = e.isExplicit
    BY <1>4 DEF SameTaker
  <2> QED BY <1>2, <2>1, <2>2 DEF TakerInv
<1>10. MineInv(t)'
  <2>1. d.pc # "got" /\ d.pc # "exit" /\ e.pc # "insert"
    OBVIOUS
  <2>2. Mine(t) = listeners[t] /\ (Seeks(t) => listeners[t] = {})
    BY <1>0, <2>1 DEF MineInv
  <2>3. CASE d.isExplicit
    <3>1. Mine(t)' = Mine(t)
      <4>1. \A q \in DOMAIN producerList' \ {p} : q \in 1..MaxProducers /\ holders'[q] = holders[q]
        BY <1>3, <1>4
      <4>2. \A q \in DOMAIN producerList \ {p} : q \in DOMAIN producerList' \ {p}
        BY DEF ListGrows
      <4> QED BY <2>3, <4>1, <4>2 DEF Mine
    <3>2. e.isExplicit /\ ~Seeks(t)
      BY <1>1, <2>3 DEF SameTaker, Seeks, Taking
    <3> QED BY <1>0, <1>2, <2>1, <2>2, <3>1, <3>2 DEF MineInv
  <2>4. CASE ~d.isExplicit
    <3>1. Mine(t) = {} /\ listeners[t] = {}
      BY <1>1, <2>2, <2>4 DEF Seeks
    <3>2. Mine(t)' = {p}
      <4>1. \A q \in DOMAIN producerList' \ {p} : q \in 1..MaxProducers /\ holders'[q] = holders[q]
        BY <1>3, <1>4
      <4> QED BY <1>4, <2>4, <3>1, <4>1 DEF Mine
    <3>3. ~e.isExplicit
      BY <2>4 DEF SameTaker
    <3> QED BY <1>2, <2>1, <3>1, <3>2, <3>3 DEF MineInv
  <2> QED BY <2>3, <2>4
<1>11. OthersUntouched(t)
  BY <1>2, <1>7 DEF OthersUntouched
<1> QED BY <1>2, <1>5, <1>6, <1>8, <1>9, <1>10, <1>11, StepKeeps DEF ThreadInv

LEMMA TakeKeeps ==
  ASSUME Hashed, ProducersInv, NEW t \in Enqueuers, Producers!Take(t)
  PROVE  ProducersInv'
<1>0. ProducerTypes /\ TakerInv(t) /\ HeldInv
  BY DEF ProducersInv
<1> DEFINE d == thread[t]
<1>1. PICK p : p = d.ptr
  OBVIOUS
<1>2. /\ d.pc = "take"
      /\ \/ /\ producerList[p].inactive
            /\ producerList' = [producerList EXCEPT ![p].inactive = FALSE]
            /\ holders' = [holders EXCEPT ![p] = @ \cup {t}]
            /\ thread' = [thread EXCEPT ![t].pc = "got", ![t].result = p]
         \/ thread' = [thread EXCEPT ![t].pc = "recycle", ![t].ptr = p - 1] /\ UNCHANGED <<producerList, holders>>
      /\ UNCHANGED <<tables, hashCount, resizing, listeners, tokenOf>>
  BY <1>1 DEF Producers!Take, Producers!At, Producers!hash
<1>3. d.pc \in Taking
  BY <1>2 DEF Taking
<1>4. /\ p \in DOMAIN producerList /\ producerList[p].isExplicit = d.isExplicit
      /\ p \in Nat /\ p - 1 \in Nat /\ p - 1 \in 0..Len(producerList) /\ p \in 1..MaxProducers
  BY <1>0, <1>1, <1>2 DEF TakerInv, ProducerTypes, Hashed
<1>5. CASE thread' = [thread EXCEPT ![t].pc = "recycle", ![t].ptr = p - 1] /\ UNCHANGED <<producerList, holders>>
  <2>1. PICK l \in Taking : l = "recycle"
    BY DEF Taking
  <2>2. PICK q \in Nat : q = p - 1
    BY <1>4
  <2>3. PICK e : Changes(d, e, l, q, d.result) /\ thread' = [thread EXCEPT ![t] = e]
    BY <1>0, <1>3, <1>5, <2>1, <2>2, PcPtrChange
  <2>4. e.pc = "recycle" /\ e.ptr \in 0..Len(producerList) /\ SameTaker(d, e)
    BY <1>4, <2>1, <2>2, <2>3 DEF Changes
  <2> QED BY <1>2, <1>5, <2>3, <2>4, SearchKeeps
<1>6. CASE /\ producerList[p].inactive
           /\ producerList' = [producerList EXCEPT ![p].inactive = FALSE]
           /\ holders' = [holders EXCEPT ![p] = @ \cup {t}]
           /\ thread' = [thread EXCEPT ![t].pc = "got", ![t].result = p]
  <2>1. PICK l \in Taking : l = "got"
    BY DEF Taking
  <2>2. PICK e : Changes(d, e, l, d.ptr, p) /\ thread' = [thread EXCEPT ![t] = e]
    <3>1. thread' = [thread EXCEPT ![t].pc = l, ![t].result = p]
      BY <1>6, <2>1
    <3>2. p \in Nat
      BY <1>4
    <3> QED BY <1>0, <1>3, <3>1, <3>2, PcResultChange
  <2>3. e.pc = "got" /\ e.result = p /\ SameTaker(d, e)
    BY <2>1, <2>2 DEF Changes
  <2>4. holders[p] = {}
    BY <1>0, <1>4, <1>6 DEF HeldInv
  <2>5. holders' = [holders EXCEPT ![p] = {t}]
    BY <1>6, <2>4
  <2>6. PICK k : k = producerList[p]
    OBVIOUS
  <2>7. k \in ProducerKinds
    BY <1>0, <1>4, <2>6 DEF ProducerTypes
  <2>8. PICK h : h = [k EXCEPT !.inactive = FALSE]
    OBVIOUS
  <2>9. h \in ProducerKinds /\ h.isExplicit = k.isExplicit /\ ~h.inactive
    BY <2>7, <2>8 DEF ProducerKinds
  <2>10. producerList' = [producerList EXCEPT ![p] = h]
    BY <1>6, <2>6, <2>8
  <2>11. /\ producerList' \in Seq(ProducerKinds) /\ Len(producerList') = Len(producerList)
         /\ DOMAIN producerList' = DOMAIN producerList /\ producerList'[p] = h
         /\ \A q \in DOMAIN producerList \ {p} : producerList'[q] = producerList[q]
    BY <1>0, <1>4, <2>9, <2>10 DEF ProducerTypes
  <2>12. Len(producerList') <= MaxProducers /\ Len(producerList') = Len(producerList) + 0
    BY <1>0, <2>11 DEF ProducerTypes
  <2>13. ListGrows
    BY <2>6, <2>9, <2>11 DEF ListGrows
  <2>14. p \in DOMAIN producerList' /\ producerList'[p].isExplicit = d.isExplicit /\ ~producerList'[p].inactive
    BY <1>4, <2>6, <2>9, <2>11
  <2>15. Len(producerList') = Len(producerList) + (IF d.pc = "link" THEN 1 ELSE 0)
    BY <1>2, <2>12
  <2>16. \A q \in DOMAIN producerList' \ {p} : q \in DOMAIN producerList /\ producerList'[q] = producerList[q]
    BY <2>11
  <2> QED BY <1>2, <2>2, <2>3, <2>4, <2>5, <2>11, <2>12, <2>13, <2>14, <2>15, <2>16, GotKeeps
<1> QED BY <1>2, <1>5, <1>6

LEMMA LinkKeeps ==
  ASSUME Hashed, ProducersInv, NEW t \in Enqueuers, Producers!Link(t)
  PROVE  ProducersInv'
<1>0. ProducerTypes /\ RoomInv /\ HeldInv
  BY DEF ProducersInv
<1> DEFINE d == thread[t]
<1>1. PICK p : p = Len(producerList) + 1
  OBVIOUS
<1>2. PICK h : h = [isExplicit |-> d.isExplicit, inactive |-> FALSE]
  OBVIOUS
<1>3. /\ d.pc = "link" /\ producerList' = Append(producerList, h)
      /\ holders' = [holders EXCEPT ![p] = {t}]
      /\ thread' = [thread EXCEPT ![t].pc = "got", ![t].result = p]
      /\ UNCHANGED <<tables, hashCount, resizing, listeners, tokenOf>>
  BY <1>1, <1>2 DEF Producers!Link, Producers!At, Producers!hash
<1>4. d.pc \in Taking /\ d \in Takers
  <2>1. d.pc \in Taking
    BY <1>3 DEF Taking
  <2> QED BY <1>0, <2>1, StateOf
<1>5. h \in ProducerKinds /\ h.isExplicit = d.isExplicit /\ ~h.inactive
  BY <1>2, <1>4 DEF ProducerKinds, Takers
<1>6. Len(producerList) \in Nat /\ MaxProducers \in Nat /\ p \in Nat
  BY <1>0, <1>1 DEF ProducerTypes, Hashed
<1>7. p <= MaxProducers
  <2>1. t \in Producers!Pending
    BY <1>3 DEF Producers!Pending, Producers!At
  <2>2. Producers!Pending \subseteq Enqueuers /\ IsFiniteSet(Enqueuers)
    BY DEF Producers!Pending, Hashed
  <2>3. IsFiniteSet(Producers!Pending) /\ Cardinality(Producers!Pending) \in Nat
    BY <2>2, FS_Subset, FS_CardinalityType
  <2>4. Cardinality(Producers!Pending) # 0
    BY <2>1, <2>3, FS_EmptySet
  <2> QED BY <1>0, <1>1, <1>6, <2>3, <2>4 DEF RoomInv
<1>8. holders[p] = {}
  <2>1. p \in 1..MaxProducers /\ p \notin DOMAIN producerList
    BY <1>0, <1>1, <1>6, <1>7 DEF ProducerTypes
  <2> QED BY <1>0, <2>1 DEF HeldInv
<1>9. PICK l \in Taking : l = "got"
  BY DEF Taking
<1>10. PICK e : Changes(d, e, l, d.ptr, p) /\ thread' = [thread EXCEPT ![t] = e]
  <2>1. thread' = [thread EXCEPT ![t].pc = l, ![t].result = p]
    BY <1>3, <1>9
  <2> QED BY <1>0, <1>4, <1>6, <2>1, PcResultChange
<1>11. e.pc = "got" /\ e.result = p /\ SameTaker(d, e)
  BY <1>9, <1>10 DEF Changes
<1>12. /\ producerList' \in Seq(ProducerKinds) /\ Len(producerList') = Len(producerList) + 1
       /\ DOMAIN producerList' = DOMAIN producerList \cup {p} /\ producerList'[p] = h
       /\ \A q \in DOMAIN producerList : producerList'[q] = producerList[q]
  BY <1>0, <1>1, <1>3, <1>5, <1>6 DEF ProducerTypes
<1>13. ListGrows /\ Len(producerList') <= MaxProducers
  BY <1>1, <1>7, <1>12 DEF ListGrows
<1>14. /\ p \in DOMAIN producerList' /\ producerList'[p].isExplicit = d.isExplicit /\ ~producerList'[p].inactive
       /\ \A q \in DOMAIN producerList' \ {p} : q \in DOMAIN producerList /\ producerList'[q] = producerList[q]
  BY <1>5, <1>12
<1>15. Len(producerList') = Len(producerList) + (IF d.pc = "link" THEN 1 ELSE 0)
  BY <1>3, <1>12
<1> QED BY <1>3, <1>8, <1>10, <1>11, <1>12, <1>13, <1>14, <1>15, GotKeeps

-----------------------------------------------------------------------------
(* Steps that change neither the list, nor a table, nor who listens *)
Numbered(b) == IF b THEN 1 ELSE 0

LEMMA QuietStep ==
  ASSUME Hashed, ProducersInv, NEW t \in Enqueuers, NEW e \in ThreadStates,
         UNCHANGED <<producerList, tables, resizing, listeners, holders>>,
         thread' = [thread EXCEPT ![t] = e], e.pc \notin {"exit", "got", "link"},
         thread[t].pc \notin {"insert", "exit", "link"}, thread[t].pc = "got" => thread[t].isExplicit,
         Allocates(t)' <=> Allocates(t), e.pc = "insert" => e.again /\ e.result \in listeners[t],
         Seeks(t)' => Seeks(t) \/ listeners[t] = {},
         tokenOf' \in [Enqueuers -> Nat], \A u \in Enqueuers \ {t} : tokenOf'[u] = tokenOf[u],
         hashCount' \in Nat, hashCount' = hashCount + Numbered(Seeks(t)') - Numbered(Seeks(t)),
         TakerInv(t)', PathInv(t)'
  PROVE  ProducersInv'
<1>0. ProducerTypes /\ RoomInv /\ TakerInv(t) /\ MineInv(t)
  BY DEF ProducersInv
<1>1. thread' \in [Enqueuers -> ThreadStates] /\ thread'[t] = e /\ \A u \in Enqueuers \ {t} : thread'[u] = thread[u]
  BY <1>0, ThreadBecomes
<1>2. ProducerTypes'
  BY <1>0, <1>1 DEF ProducerTypes, ThreadStates
<1>3. HeldInv' /\ ListGrows /\ HoldersStay(t) /\ Mine(t)' = Mine(t)
  BY ListAlone
<1>4. TablesStay(t) /\ SlotInv(t)' /\ ResizeInv' /\ (HasSlot(t)' <=> HasSlot(t))
  BY <1>1, TablesAlone
<1>5. ~Inserts(t) /\ ~Inserts(t)' /\ ~Links(t) /\ ~Links(t)'
  BY <1>1 DEF Inserts, Links
<1>6. RoomInv'
  <2>1. /\ Cardinality(Producers!Pending)' = Cardinality(Producers!Pending)
        /\ Cardinality(ToBeCounted) \in Nat
        /\ Cardinality(ToBeCounted)' = Cardinality(ToBeCounted) - Numbered(Seeks(t)) + Numbered(Seeks(t)')
    <3>1. /\ Cardinality(Producers!Pending) \in Nat /\ Cardinality(ToBeCounted) \in Nat
          /\ Cardinality(Producers!Pending)' = Cardinality(Producers!Pending) - 0 + 0
      BY <1>1, <1>5, NumbersChange
    <3>2. Cardinality(ToBeCounted)' =
            Cardinality(ToBeCounted) - (IF Seeks(t) THEN 1 ELSE 0) + (IF Seeks(t)' THEN 1 ELSE 0)
      BY <1>1, <1>5, NumbersChange DEF ToCount
    <3> QED BY <3>1, <3>2 DEF Numbered
  <2>2. Numbered(Seeks(t)) \in {0, 1} /\ Numbered(Seeks(t)') \in {0, 1} /\ hashCount \in Nat
    BY <1>0 DEF Numbered, ProducerTypes
  <2> QED BY <1>0, <2>1, <2>2 DEF RoomInv
<1>7. MineInv(t)'
  <2>1. Mine(t) = listeners[t] /\ (Seeks(t) => listeners[t] = {}) /\ (\A p, q \in Mine(t) : p = q)
        /\ (listeners[t] # {} => HasSlot(t))
    BY <1>0, <1>5 DEF MineInv
  <2> QED BY <1>1, <1>3, <1>4, <2>1 DEF MineInv
<1>8. OthersUntouched(t)
  BY <1>1, <1>3, <1>4 DEF OthersUntouched
<1> QED BY <1>2, <1>3, <1>4, <1>6, <1>7, <1>8, StepKeeps DEF ThreadInv

LEMMA CreateFailsKeeps ==
  ASSUME Hashed, ProducersInv, NEW t \in Enqueuers, Producers!CreateFails(t)
  PROVE  ProducersInv'
<1>0. ProducerTypes /\ RoomInv /\ TakerInv(t)
  BY DEF ProducersInv
<1> DEFINE d == thread[t]
<1>1. PICK e : e = Producers!Idle
  OBVIOUS
<1>2. /\ d.pc = "recycle" /\ thread' = [thread EXCEPT ![t] = e]
      /\ hashCount' = hashCount - (IF d.isExplicit THEN 0 ELSE 1)
      /\ UNCHANGED <<producerList, tables, resizing, listeners, tokenOf, holders>>
  BY <1>1 DEF Producers!CreateFails, Producers!At, Producers!Returns, Producers!list
<1>3. e \in ThreadStates /\ e.pc = "idle"
  BY <1>1 DEF ThreadStates, Producers!Idle
<1>4. thread'[t] = e /\ \A u \in Enqueuers \ {t} : thread'[u] = thread[u]
  BY <1>0, <1>2, <1>3, ThreadBecomes
<1>5. ~Seeks(t)' /\ (Seeks(t) <=> ~d.isExplicit)
  BY <1>2, <1>3, <1>4 DEF Seeks, Taking
<1>6. (Allocates(t)' <=> Allocates(t))
  BY <1>2, <1>3, <1>4 DEF Allocates
<1>7. hashCount' = hashCount + Numbered(Seeks(t)') - Numbered(Seeks(t))
  <2>1. hashCount \in Nat
    BY <1>0 DEF ProducerTypes
  <2> QED BY <1>2, <1>5, <2>1 DEF Numbered
<1>8. hashCount' \in Nat
  <2>1. hashCount \in Nat
    BY <1>0 DEF ProducerTypes
  <2>2. CASE Seeks(t)
    <3>1. t \in ToBeCounted /\ ToBeCounted \subseteq Enqueuers /\ IsFiniteSet(Enqueuers)
      BY <2>2 DEF ToBeCounted, Hashed
    <3>2. Cardinality(ToBeCounted) \in Nat /\ Cardinality(ToBeCounted) # 0
      BY <3>1, FS_Subset, FS_CardinalityType, FS_EmptySet
    <3> QED BY <1>0, <1>2, <1>5, <2>1, <2>2, <3>2 DEF RoomInv
  <2>3. CASE ~Seeks(t)
    BY <1>2, <1>5, <2>1, <2>3
  <2> QED BY <2>2, <2>3
<1>9. tokenOf' \in [Enqueuers -> Nat] /\ \A u \in Enqueuers \ {t} : tokenOf'[u] = tokenOf[u]
  BY <1>0, <1>2 DEF ProducerTypes
<1>10. TakerInv(t)' /\ PathInv(t)'
  <2>1. TakerInv(t)'
    BY <1>0, <1>2, <1>3, <1>4 DEF TakerInv
  <2>2. PathInv(t)'
    BY <1>3, <1>4 DEF PathInv, Taking
  <2> QED BY <2>1, <2>2
<1>11. e.pc \notin {"exit", "got", "link", "insert"} /\ d.pc \notin {"insert", "exit", "link", "got"}
  BY <1>2, <1>3
<1> QED BY <1>2, <1>3, <1>5, <1>6, <1>7, <1>8, <1>9, <1>10, <1>11, QuietStep

LEMMA TokenCreateKeeps ==
  ASSUME Hashed, ProducersInv, NEW t \in Enqueuers, Producers!TokenCreate(t)
  PROVE  ProducersInv'
<1>0. ProducerTypes /\ TakerInv(t)
  BY DEF ProducersInv
<1> DEFINE d == thread[t]
<1>1. PICK e : e = [pc |-> "recycle", isExplicit |-> TRUE, ptr |-> Len(producerList), result |-> 0]
  OBVIOUS
<1>2. /\ d.pc = "idle" /\ tokenOf[t] = 0 /\ thread' = [thread EXCEPT ![t] = e]
      /\ UNCHANGED <<producerList, tables, hashCount, resizing, listeners, tokenOf, holders>>
  BY <1>1 DEF Producers!TokenCreate, Producers!At, Producers!None, Producers!list, Producers!hash
<1>3. /\ e.pc = "recycle" /\ e.isExplicit /\ e.ptr = Len(producerList) /\ Len(producerList) \in Nat
      /\ e \in Takers /\ e \in ThreadStates
  <2>1. Len(producerList) \in Nat
    BY <1>0 DEF ProducerTypes
  <2>2. e \in Takers
    BY <1>1, <2>1 DEF Takers, Taking
  <2> QED BY <1>1, <2>1, <2>2 DEF ThreadStates
<1>4. thread'[t] = e /\ \A u \in Enqueuers \ {t} : thread'[u] = thread[u]
  BY <1>0, <1>2, <1>3, ThreadBecomes
<1>5. ~Seeks(t)' /\ ~Seeks(t) /\ (Allocates(t)' <=> Allocates(t))
  BY <1>2, <1>3, <1>4 DEF Seeks, Taking, Allocates
<1>6. hashCount' = hashCount + Numbered(Seeks(t)') - Numbered(Seeks(t)) /\ hashCount' \in Nat
  BY <1>0, <1>2, <1>5 DEF Numbered, ProducerTypes
<1>7. tokenOf' \in [Enqueuers -> Nat] /\ \A u \in Enqueuers \ {t} : tokenOf'[u] = tokenOf[u]
  BY <1>0, <1>2 DEF ProducerTypes
<1>8. TakerInv(t)'
  BY <1>0, <1>2, <1>3, <1>4 DEF TakerInv
<1>9. PathInv(t)'
  BY <1>3, <1>4 DEF PathInv, Taking
<1>10. e.pc \notin {"exit", "got", "link", "insert"} /\ d.pc \notin {"insert", "exit", "link", "got"}
  BY <1>2, <1>3
<1> QED BY <1>2, <1>3, <1>5, <1>6, <1>7, <1>8, <1>9, <1>10, QuietStep

LEMMA TokenGotKeeps ==
  ASSUME Hashed, ProducersInv, NEW t \in Enqueuers, Producers!TokenGot(t)
  PROVE  ProducersInv'
<1>0. ProducerTypes /\ TakerInv(t)
  BY DEF ProducersInv
<1> DEFINE d == thread[t]
<1>1. PICK e : e = Producers!Idle
  OBVIOUS
<1>2. /\ d.pc = "got" /\ d.isExplicit /\ thread' = [thread EXCEPT ![t] = e]
      /\ tokenOf' = [tokenOf EXCEPT ![t] = d.result]
      /\ UNCHANGED <<producerList, tables, hashCount, resizing, listeners, holders>>
  BY <1>1 DEF Producers!TokenGot, Producers!At, Producers!Returns, Producers!list, Producers!hash
<1>3. e \in ThreadStates /\ e.pc = "idle"
  BY <1>1 DEF ThreadStates, Producers!Idle
<1>4. thread'[t] = e /\ \A u \in Enqueuers \ {t} : thread'[u] = thread[u]
  BY <1>0, <1>2, <1>3, ThreadBecomes
<1>5. ~Seeks(t)' /\ ~Seeks(t) /\ (Allocates(t)' <=> Allocates(t))
  BY <1>2, <1>3, <1>4 DEF Seeks, Taking, Allocates
<1>6. hashCount' = hashCount + Numbered(Seeks(t)') - Numbered(Seeks(t)) /\ hashCount' \in Nat
  BY <1>0, <1>2, <1>5 DEF Numbered, ProducerTypes
<1>7. d.result \in Nat
  <2>1. d \in Takers
    BY <1>0, <1>2, StateOf DEF Taking
  <2> QED BY <2>1 DEF Takers
<1>8. tokenOf' \in [Enqueuers -> Nat] /\ tokenOf'[t] = d.result /\ \A u \in Enqueuers \ {t} : tokenOf'[u] = tokenOf[u]
  BY <1>0, <1>2, <1>7 DEF ProducerTypes
<1>9. TakerInv(t)'
  <2>1. d.result \in DOMAIN producerList /\ producerList[d.result].isExplicit /\ t \in holders[d.result]
    BY <1>0, <1>2 DEF TakerInv
  <2> QED BY <1>2, <1>3, <1>4, <1>8, <2>1 DEF TakerInv
<1>10. PathInv(t)'
  BY <1>3, <1>4 DEF PathInv, Taking
<1>11. e.pc \notin {"exit", "got", "link", "insert"} /\ d.pc \notin {"insert", "exit", "link"}
  BY <1>2, <1>3
<1> QED BY <1>2, <1>3, <1>5, <1>6, <1>8, <1>9, <1>10, <1>11, QuietStep

LEMMA AdmitKeeps ==
  ASSUME Hashed, ProducersInv, NEW t \in Enqueuers, Producers!Admit(t)
  PROVE  ProducersInv'
<1>0. ProducerTypes /\ TakerInv(t) /\ PathInv(t)
  BY DEF ProducersInv
<1> DEFINE d == thread[t]
<1>1. PICK e : e = [pc |-> "recycle", isExplicit |-> FALSE, main |-> d.main, ptr |-> Len(producerList), result |-> 0]
  OBVIOUS
<1>2. /\ d.pc \in {"full", "admit"} /\ thread' = [thread EXCEPT ![t] = e]
      /\ UNCHANGED <<producerList, tables, hashCount, resizing, listeners, tokenOf, holders>>
  BY <1>1 DEF Producers!Admit, Producers!NoResize, Producers!At, Producers!None, Producers!list, Producers!hash
<1>3. /\ e.pc = "recycle" /\ ~e.isExplicit /\ e.main = d.main /\ e.ptr = Len(producerList) /\ Len(producerList) \in Nat
      /\ e \in Takers /\ e \in ThreadStates
  <2>1. Len(producerList) \in Nat
    BY <1>0 DEF ProducerTypes
  <2>2. d.main \in Nat
    <3>1. d \in Growers
      BY <1>0, <1>2, StateOf
    <3> QED BY <3>1 DEF Growers
  <2>3. e \in Takers
    BY <1>1, <2>1, <2>2 DEF Takers, Taking
  <2> QED BY <1>1, <2>1, <2>3 DEF ThreadStates
<1>4. thread'[t] = e /\ \A u \in Enqueuers \ {t} : thread'[u] = thread[u]
  BY <1>0, <1>2, <1>3, ThreadBecomes
<1>5. Seeks(t)' /\ Seeks(t) /\ (Allocates(t)' <=> Allocates(t))
  BY <1>2, <1>3, <1>4 DEF Seeks, Taking, Allocates
<1>6. hashCount' = hashCount + Numbered(Seeks(t)') - Numbered(Seeks(t)) /\ hashCount' \in Nat
  BY <1>0, <1>2, <1>5 DEF Numbered, ProducerTypes
<1>7. tokenOf' \in [Enqueuers -> Nat] /\ \A u \in Enqueuers \ {t} : tokenOf'[u] = tokenOf[u]
  BY <1>0, <1>2 DEF ProducerTypes
<1>8. TakerInv(t)'
  BY <1>0, <1>2, <1>3, <1>4 DEF TakerInv
<1>9. PathInv(t)'
  BY <1>0, <1>2, <1>3, <1>4 DEF PathInv, Taking
<1>10. e.pc \notin {"exit", "got", "link", "insert"} /\ d.pc \notin {"insert", "exit", "link", "got"}
  BY <1>2, <1>3
<1> QED BY <1>2, <1>3, <1>5, <1>6, <1>7, <1>8, <1>9, <1>10, QuietStep

LEMMA WaitKeeps ==
  ASSUME Hashed, ProducersInv, NEW t \in Enqueuers, Producers!Wait(t)
  PROVE  ProducersInv'
<1>0. ProducerTypes /\ TakerInv(t)
  BY DEF ProducersInv
<1> DEFINE d == thread[t]
<1>1. PICK e : e = [d EXCEPT !.main = Len(tables)]
  OBVIOUS
<1>2. /\ d.pc = "full" /\ thread' = [thread EXCEPT ![t] = e]
      /\ UNCHANGED <<producerList, tables, hashCount, resizing, listeners, tokenOf, holders>>
  BY <1>1 DEF Producers!Wait, Producers!NoResize, Producers!At, Producers!list, Producers!hash
<1>3. e.pc = "full" /\ e.main = Len(tables) /\ e \in ThreadStates /\ Len(tables) \in DOMAIN tables
  <2>1. Len(tables) \in Nat /\ Len(tables) \in DOMAIN tables
    BY <1>0 DEF ProducerTypes
  <2>2. d \in Growers
    BY <1>0, <1>2, StateOf
  <2>3. e \in Growers /\ e.pc = d.pc /\ e.main = Len(tables)
    BY <1>1, <2>1, <2>2 DEF Growers
  <2> QED BY <1>2, <2>1, <2>3 DEF ThreadStates
<1>4. thread'[t] = e /\ \A u \in Enqueuers \ {t} : thread'[u] = thread[u]
  BY <1>0, <1>2, <1>3, ThreadBecomes
<1>5. Seeks(t)' /\ Seeks(t) /\ (Allocates(t)' <=> Allocates(t))
  BY <1>2, <1>3, <1>4 DEF Seeks, Taking, Allocates
<1>6. hashCount' = hashCount + Numbered(Seeks(t)') - Numbered(Seeks(t)) /\ hashCount' \in Nat
  BY <1>0, <1>2, <1>5 DEF Numbered, ProducerTypes
<1>7. tokenOf' \in [Enqueuers -> Nat] /\ \A u \in Enqueuers \ {t} : tokenOf'[u] = tokenOf[u]
  BY <1>0, <1>2 DEF ProducerTypes
<1>8. TakerInv(t)'
  BY <1>0, <1>2, <1>3, <1>4 DEF TakerInv
<1>9. PathInv(t)'
  BY <1>2, <1>3, <1>4 DEF PathInv, Taking
<1>10. e.pc \notin {"exit", "got", "link", "insert"} /\ d.pc \notin {"insert", "exit", "link", "got"}
  BY <1>2, <1>3
<1> QED BY <1>2, <1>3, <1>5, <1>6, <1>7, <1>8, <1>9, <1>10, QuietStep

(* Who has a producer is found, and found with it. *)
LEMMA SearchFinds ==
  ASSUME ProducersInv, NEW t \in Enqueuers, thread[t].pc = "idle"
  PROVE  /\ Producers!FoundIn(t) = {} => listeners[t] = {}
         /\ Producers!FoundIn(t) # {} =>
              LET m == Producers!Max(Producers!FoundIn(t)) IN
                tables[m][CHOOSE s \in Producers!Found(m, t) : TRUE].value \in listeners[t]
<1>0. ProducerTypes /\ MineInv(t) /\ SlotInv(t)
  BY DEF ProducersInv
<1>1. Len(tables) \in Nat /\ DOMAIN tables = 1..Len(tables)
  BY <1>0 DEF ProducerTypes
<1>2. ASSUME listeners[t] # {} PROVE Producers!FoundIn(t) # {}
  <2>1. HasSlot(t)
    BY <1>0, <1>2 DEF MineInv, Inserts
  <2>2. PICK m \in DOMAIN tables : \E s \in DOMAIN tables[m] : tables[m][s].key = t
    BY <2>1 DEF HasSlot
  <2>3. Producers!Found(m, t) # {}
    BY <1>0, <2>2 DEF SlotInv
  <2> QED BY <1>1, <2>2, <2>3 DEF Producers!FoundIn
<1>3. ASSUME Producers!FoundIn(t) # {}
      PROVE  LET m == Producers!Max(Producers!FoundIn(t)) IN
               tables[m][CHOOSE s \in Producers!Found(m, t) : TRUE].value \in listeners[t]
  <2>1. PICK F : F = Producers!FoundIn(t)
    OBVIOUS
  <2>2. F \subseteq 1..Len(tables)
    BY <2>1 DEF Producers!FoundIn
  <2>3. Producers!Max(F) \in F
    BY <1>1, <1>3, <2>1, <2>2, Extremes
  <2>4. PICK m : m = Producers!Max(F)
    OBVIOUS
  <2>5. m \in DOMAIN tables /\ Producers!Found(m, t) # {}
    BY <1>1, <2>1, <2>2, <2>3, <2>4 DEF Producers!FoundIn
  <2>6. PICK s : s = CHOOSE r \in Producers!Found(m, t) : TRUE
    OBVIOUS
  <2>7. s \in Producers!Found(m, t)
    BY <2>5, <2>6
  <2>8. s \in DOMAIN tables[m] /\ tables[m][s].key = t
    BY <2>7 DEF Producers!Found
  <2>9. tables[m][s].value \in listeners[t]
    BY <1>0, <2>5, <2>8 DEF SlotInv
  <2> QED BY <2>1, <2>4, <2>6, <2>9
<1> QED BY <1>2, <1>3

LEMMA GetCallKeeps ==
  ASSUME Hashed, ProducersInv, NEW t \in Enqueuers, Producers!GetCall(t)
  PROVE  ProducersInv'
<1>0. ProducerTypes /\ TakerInv(t)
  BY DEF ProducersInv
<1> DEFINE d == thread[t]
<1>1. PICK p : Producers!FoundIn(t) # {} =>
                 p = tables[Producers!Max(Producers!FoundIn(t))][CHOOSE s \in Producers!Found(Producers!Max(Producers!FoundIn(t)), t) : TRUE].value
  OBVIOUS
<1>2. d.pc = "idle" /\ UNCHANGED <<producerList, tables, resizing, listeners, tokenOf, holders>>
  BY DEF Producers!GetCall, Producers!At, Producers!list
<1>3. /\ Producers!FoundIn(t) = {} => listeners[t] = {}
      /\ Producers!FoundIn(t) # {} => p \in listeners[t]
  BY <1>1, <1>2, SearchFinds
<1>4. Len(tables) \in Nat /\ Len(tables) \in DOMAIN tables /\ hashCount \in Nat
  BY <1>0 DEF ProducerTypes
<1>5. PICK e : /\ thread' = [thread EXCEPT ![t] = e]
               /\ \/ /\ Producers!FoundIn(t) = {} /\ hashCount' = hashCount + 1
                     /\ e = [pc |-> "full", isExplicit |-> FALSE, main |-> Len(tables), newCount |-> hashCount + 1]
                  \/ e = Producers!Idle /\ hashCount' = hashCount
                  \/ /\ Producers!FoundIn(t) # {} /\ hashCount' = hashCount
                     /\ e = [pc |-> "insert", isExplicit |-> FALSE, main |-> Len(tables), step |-> 0,
                             again |-> TRUE, result |-> p]
  <2>1. CASE Producers!FoundIn(t) = {}
    BY <2>1 DEF Producers!GetCall
  <2>2. CASE Producers!FoundIn(t) # {} /\ Producers!Max(Producers!FoundIn(t)) = Len(tables)
    <3>1. thread' = [thread EXCEPT ![t] = Producers!Idle] /\ hashCount' = hashCount
      BY <2>2 DEF Producers!GetCall
    <3> QED BY <3>1
  <2>3. CASE Producers!FoundIn(t) # {} /\ Producers!Max(Producers!FoundIn(t)) # Len(tables)
    <3>1. /\ hashCount' = hashCount
          /\ thread' = [thread EXCEPT ![t] =
                          [pc |-> "insert", isExplicit |-> FALSE, main |-> Len(tables), step |-> 0,
                           again |-> TRUE, result |-> p]]
      BY <1>1, <2>3 DEF Producers!GetCall
    <3> QED BY <2>3, <3>1
  <2> QED BY <2>1, <2>2, <2>3
<1>6. /\ e \in ThreadStates
      /\ \/ e.pc = "full" /\ e.main = Len(tables) /\ listeners[t] = {} /\ hashCount' = hashCount + 1
         \/ e.pc = "idle" /\ hashCount' = hashCount
         \/ /\ e.pc = "insert" /\ e.main = Len(tables) /\ e.step = 0 /\ e.again /\ e.result \in listeners[t]
            /\ hashCount' = hashCount
  <2>1. CASE /\ Producers!FoundIn(t) = {} /\ hashCount' = hashCount + 1
             /\ e = [pc |-> "full", isExplicit |-> FALSE, main |-> Len(tables), newCount |-> hashCount + 1]
    <3>1. e \in Growers
      BY <1>4, <2>1 DEF Growers
    <3> QED BY <1>3, <2>1, <3>1 DEF ThreadStates
  <2>2. CASE e = Producers!Idle /\ hashCount' = hashCount
    BY <2>2 DEF ThreadStates, Producers!Idle
  <2>3. CASE /\ Producers!FoundIn(t) # {} /\ hashCount' = hashCount
             /\ e = [pc |-> "insert", isExplicit |-> FALSE, main |-> Len(tables), step |-> 0,
                     again |-> TRUE, result |-> p]
    <3>1. p \in Nat
      BY <1>0, <1>3, <2>3 DEF ProducerTypes
    <3>2. e \in Inserters
      BY <1>4, <2>3, <3>1 DEF Inserters
    <3> QED BY <1>3, <2>3, <3>2 DEF ThreadStates
  <2> QED BY <1>5, <2>1, <2>2, <2>3
<1>7. thread'[t] = e /\ \A u \in Enqueuers \ {t} : thread'[u] = thread[u]
  BY <1>0, <1>5, <1>6, ThreadBecomes
<1>8. ~Seeks(t) /\ (Seeks(t)' <=> e.pc = "full") /\ (Allocates(t)' <=> Allocates(t))
  BY <1>2, <1>6, <1>7 DEF Seeks, Taking, Allocates
<1>9. hashCount' = hashCount + Numbered(Seeks(t)') - Numbered(Seeks(t)) /\ hashCount' \in Nat
  BY <1>4, <1>6, <1>8 DEF Numbered
<1>10. tokenOf' \in [Enqueuers -> Nat] /\ \A u \in Enqueuers \ {t} : tokenOf'[u] = tokenOf[u]
  BY <1>0, <1>2 DEF ProducerTypes
<1>11. TakerInv(t)'
  BY <1>0, <1>2, <1>6, <1>7 DEF TakerInv
<1>12. PathInv(t)'
  <2>1. \A k \in Nat : ~(k < 0)
    OBVIOUS
  <2> QED BY <1>2, <1>4, <1>6, <1>7, <2>1 DEF PathInv, Taking
<1>13. e.pc \notin {"exit", "got", "link"} /\ d.pc \notin {"insert", "exit", "link", "got"}
  BY <1>2, <1>6
<1>14. Seeks(t)' => listeners[t] = {}
  BY <1>6, <1>8
<1> QED BY <1>2, <1>5, <1>6, <1>8, <1>9, <1>10, <1>11, <1>12, <1>13, <1>14, QuietStep

-----------------------------------------------------------------------------
(* The end of a token, and its move *)
LEMMA TokenDestroyKeeps ==
  ASSUME Hashed, ProducersInv, NEW t \in Enqueuers, Producers!TokenDestroy(t)
  PROVE  ProducersInv'
<1>0. ProducerTypes /\ RoomInv /\ HeldInv /\ TakerInv(t) /\ MineInv(t) /\ PathInv(t)
  BY DEF ProducersInv
<1>1. PICK p : p = tokenOf[t]
  OBVIOUS
<1>2. /\ thread[t].pc = "idle" /\ p # 0
      /\ producerList' = [producerList EXCEPT ![p].inactive = TRUE]
      /\ holders' = [holders EXCEPT ![p] = @ \ {t}]
      /\ tokenOf' = [tokenOf EXCEPT ![t] = 0]
      /\ UNCHANGED <<tables, hashCount, resizing, listeners, thread>>
  BY <1>1 DEF Producers!TokenDestroy, Producers!At, Producers!None, Producers!hash
<1>3. p \in DOMAIN producerList /\ producerList[p].isExplicit /\ t \in holders[p] /\ p \in 1..MaxProducers
  BY <1>0, <1>1, <1>2 DEF TakerInv, ProducerTypes, Hashed
<1>4. PICK k : k = producerList[p]
  OBVIOUS
<1>5. k \in ProducerKinds
  BY <1>0, <1>3, <1>4 DEF ProducerTypes
<1>6. PICK h : h = [k EXCEPT !.inactive = TRUE]
  OBVIOUS
<1>7. h \in ProducerKinds /\ h.isExplicit = k.isExplicit /\ h.inactive
  BY <1>5, <1>6 DEF ProducerKinds
<1>8. producerList' = [producerList EXCEPT ![p] = h]
  BY <1>2, <1>4, <1>6
<1>9. /\ producerList' \in Seq(ProducerKinds) /\ Len(producerList') = Len(producerList)
      /\ DOMAIN producerList' = DOMAIN producerList /\ producerList'[p] = h
      /\ \A q \in DOMAIN producerList \ {p} : producerList'[q] = producerList[q]
  BY <1>0, <1>3, <1>7, <1>8 DEF ProducerTypes
<1>10. holders[p] = {t}
  BY <1>0, <1>3 DEF HeldInv
<1>11. /\ holders' \in [1..MaxProducers -> SUBSET Enqueuers] /\ holders'[p] = {}
       /\ \A q \in 1..MaxProducers \ {p} : holders'[q] = holders[q]
  BY <1>0, <1>2, <1>3, <1>10 DEF ProducerTypes
<1>12. tokenOf' \in [Enqueuers -> Nat] /\ tokenOf'[t] = 0 /\ \A u \in Enqueuers \ {t} : tokenOf'[u] = tokenOf[u]
  BY <1>0, <1>2 DEF ProducerTypes
<1>13. ProducerTypes'
  BY <1>0, <1>2, <1>9, <1>11, <1>12 DEF ProducerTypes
<1>14. RoomInv'
  <2>1. Producers!Pending' = Producers!Pending /\ ToBeCounted' = ToBeCounted
    BY <1>2 DEF Producers!Pending, Producers!At, ToBeCounted, Seeks, Inserts
  <2> QED BY <1>0, <1>2, <1>9, <2>1 DEF RoomInv
<1>15. HeldInv'
  <2> SUFFICES ASSUME NEW q \in 1..MaxProducers
               PROVE  /\ \A u, v \in holders'[q] : u = v
                      /\ holders'[q] # {} => q \in DOMAIN producerList' /\ ~producerList'[q].inactive
    BY DEF HeldInv
  <2>1. CASE q = p
    BY <1>11, <2>1
  <2>2. CASE q # p
    <3>1. holders'[q] = holders[q]
      BY <1>11, <2>2
    <3>2. q \in DOMAIN producerList => q \in DOMAIN producerList' /\ producerList'[q] = producerList[q]
      BY <1>9, <2>2
    <3> QED BY <1>0, <3>1, <3>2 DEF HeldInv
  <2> QED BY <2>1, <2>2
<1>16. ListGrows
  <2>1. \A q \in DOMAIN producerList : producerList'[q].isExplicit = producerList[q].isExplicit
    BY <1>4, <1>7, <1>9
  <2> QED BY <1>9, <2>1 DEF ListGrows
<1>17. HoldersStay(t)
  BY <1>10, <1>11 DEF HoldersStay
<1>18. TablesStay(t) /\ SlotInv(t)' /\ ResizeInv' /\ (HasSlot(t)' <=> HasSlot(t))
  <2>1. (Allocates(t)' <=> Allocates(t)) /\ thread'[t].pc # "exit"
    BY <1>2 DEF Allocates
  <2> QED BY <1>2, <2>1, TablesAlone
<1>19. OthersUntouched(t)
  BY <1>2, <1>12, <1>16, <1>17, <1>18 DEF OthersUntouched
<1>20. TakerInv(t)'
  BY <1>2, <1>12 DEF TakerInv
<1>21. Mine(t)' = Mine(t)
  <2>1. DOMAIN producerList \subseteq 1..MaxProducers
    BY <1>0 DEF ProducerTypes, Hashed
  <2> QED BY <1>3, <1>4, <1>7, <1>9, <1>11, <2>1 DEF Mine
<1>22. MineInv(t)'
  BY <1>0, <1>2, <1>18, <1>21 DEF MineInv, Seeks, Inserts
<1>23. PathInv(t)'
  BY <1>2 DEF PathInv, Taking
<1> QED BY <1>13, <1>14, <1>15, <1>18, <1>19, <1>20, <1>22, <1>23, StepKeeps DEF ThreadInv

LEMMA TokenMoveKeeps ==
  ASSUME Hashed, ProducersInv, NEW t \in Enqueuers, NEW u \in Enqueuers \ {t}, Producers!TokenMove(t, u)
  PROVE  ProducersInv'
<1>0. ProducerTypes /\ RoomInv /\ HeldInv /\ ResizeInv
      /\ \A v \in Enqueuers : TakerInv(v) /\ MineInv(v) /\ SlotInv(v) /\ PathInv(v)
  BY DEF ProducersInv
<1>1. PICK p : p = tokenOf[t]
  OBVIOUS
<1>2. /\ thread[t].pc = "idle" /\ thread[u].pc = "idle" /\ p # 0
      /\ holders' = [holders EXCEPT ![p] = (@ \ {t}) \cup {u}]
      /\ tokenOf' = [tokenOf EXCEPT ![u] = p, ![t] = 0]
      /\ UNCHANGED <<producerList, tables, hashCount, resizing, listeners, thread>>
  BY <1>1 DEF Producers!TokenMove, Producers!At, Producers!None, Producers!list, Producers!hash
<1>3. p \in DOMAIN producerList /\ producerList[p].isExplicit /\ t \in holders[p] /\ p \in 1..MaxProducers /\ p \in Nat
  BY <1>0, <1>1, <1>2 DEF TakerInv, ProducerTypes, Hashed
<1>4. holders[p] = {t}
  BY <1>0, <1>3 DEF HeldInv
<1>5. /\ holders' \in [1..MaxProducers -> SUBSET Enqueuers] /\ holders'[p] = {u}
      /\ \A q \in 1..MaxProducers \ {p} : holders'[q] = holders[q]
  BY <1>0, <1>2, <1>3, <1>4 DEF ProducerTypes
<1>6. /\ tokenOf' \in [Enqueuers -> Nat] /\ tokenOf'[t] = 0 /\ tokenOf'[u] = p
      /\ \A v \in Enqueuers \ {t, u} : tokenOf'[v] = tokenOf[v]
  BY <1>0, <1>2, <1>3 DEF ProducerTypes
<1>7. ProducerTypes'
  BY <1>0, <1>2, <1>5, <1>6 DEF ProducerTypes
<1>8. RoomInv'
  <2>1. Producers!Pending' = Producers!Pending /\ ToBeCounted' = ToBeCounted
    BY <1>2 DEF Producers!Pending, Producers!At, ToBeCounted, Seeks, Inserts
  <2> QED BY <1>0, <1>2, <2>1 DEF RoomInv
<1>9. HeldInv'
  <2>1. ~producerList[p].inactive
    BY <1>0, <1>3 DEF HeldInv
  <2> SUFFICES ASSUME NEW q \in 1..MaxProducers
               PROVE  /\ \A v, w \in holders'[q] : v = w
                      /\ holders'[q] # {} => q \in DOMAIN producerList' /\ ~producerList'[q].inactive
    BY DEF HeldInv
  <2>2. CASE q = p
    BY <1>2, <1>3, <1>5, <2>1, <2>2
  <2>3. CASE q # p
    BY <1>0, <1>2, <1>5, <2>3 DEF HeldInv
  <2> QED BY <2>2, <2>3
<1>10. ResizeInv'
  BY <1>0, <1>2 DEF ResizeInv, Allocates
<1>11. DOMAIN producerList \subseteq 1..MaxProducers
  BY <1>0 DEF ProducerTypes, Hashed
<1>12. ASSUME NEW v \in Enqueuers PROVE TakerInv(v)' /\ MineInv(v)' /\ SlotInv(v)' /\ PathInv(v)'
  <2>1. TakerInv(v)'
    <3>1. ASSUME v \notin {t, u}, NEW q \in DOMAIN producerList, v \in holders[q] PROVE v \in holders'[q]
      <4>1. q # p
        BY <1>4, <3>1
      <4> QED BY <1>5, <1>11, <3>1, <4>1
    <3>2. CASE v = t
      BY <1>2, <1>6, <3>2 DEF TakerInv
    <3>3. CASE v = u
      BY <1>2, <1>3, <1>5, <1>6, <3>3 DEF TakerInv
    <3>4. CASE v \notin {t, u}
      BY <1>0, <1>2, <1>6, <3>1, <3>4 DEF TakerInv
    <3> QED BY <3>2, <3>3, <3>4
  <2>2. Mine(v)' = Mine(v)
    BY <1>2, <1>3, <1>5, <1>11 DEF Mine
  <2>3. HasSlot(v)' <=> HasSlot(v)
    BY <1>2 DEF HasSlot
  <2>4. MineInv(v)'
    BY <1>0, <1>2, <2>2, <2>3 DEF MineInv, Seeks, Inserts
  <2>5. \A m : Producers!Found(m, v)' = Producers!Found(m, v)
    BY <1>2 DEF Producers!Found, Producers!Probe, Producers!Capacity, Producers!Empty, Producers!Cardinality
  <2>6. SlotInv(v)'
    BY <1>0, <1>2, <2>5 DEF SlotInv
  <2>7. \A m, k : Producers!Probe(m, v, k)' = Producers!Probe(m, v, k)
    BY <1>2 DEF Producers!Probe, Producers!Capacity, Producers!Cardinality
  <2>8. PathInv(v)'
    BY <1>0, <1>2, <2>7 DEF PathInv, Producers!Empty
  <2> QED BY <2>1, <2>4, <2>6, <2>8
<1> QED BY <1>7, <1>8, <1>9, <1>10, <1>12 DEF ProducersInv

-----------------------------------------------------------------------------
(* Who finds the table half full *)
LEMMA TableAdded ==
  ASSUME Hashed, ProducersInv, NEW t \in Enqueuers, thread[t].pc # "exit", thread'[t].pc # "exit",
         UNCHANGED listeners,
         UNCHANGED tables \/ \E c \in Nat \ {0} : tables' = Append(tables, Producers!Table(c))
  PROVE  /\ tables' \in Seq(HashTables) /\ tables' # <<>> /\ TablesStay(t) /\ SlotInv(t)'
         /\ (HasSlot(t)' <=> HasSlot(t)) /\ \A m \in DOMAIN tables : m \in DOMAIN tables'
<1>0. ProducerTypes /\ SlotInv(t)
  BY DEF ProducersInv
<1>1. CASE UNCHANGED tables
  <2>1. TablesStay(t) /\ (HasSlot(t)' <=> HasSlot(t))
    BY <1>1 DEF TablesStay, HasSlot
  <2>2. \A m : Producers!Found(m, t)' = Producers!Found(m, t)
    BY <1>1 DEF Producers!Found, Producers!Probe, Producers!Capacity, Producers!Empty, Producers!Cardinality
  <2>3. SlotInv(t)'
    BY <1>0, <1>1, <2>2 DEF SlotInv
  <2> QED BY <1>0, <1>1, <2>1, <2>3 DEF ProducerTypes
<1>2. CASE \E c \in Nat \ {0} : tables' = Append(tables, Producers!Table(c))
  <2>1. PICK c \in Nat \ {0} : tables' = Append(tables, Producers!Table(c))
    BY <1>2
  <2>2. PICK b : b = Producers!Table(c)
    OBVIOUS
  <2>3. b \in [0..(c - 1) -> HashSlots] /\ \A s \in DOMAIN b : b[s].key = Producers!Empty
    BY <2>2 DEF Producers!Table, Producers!None, HashSlots
  <2>4. b \in HashTables
    BY <2>3 DEF HashTables
  <2>5. PICK n : n = Len(tables) + 1
    OBVIOUS
  <2>6. /\ tables' \in Seq(HashTables) /\ tables' # <<>> /\ DOMAIN tables' = DOMAIN tables \cup {n} /\ n \notin DOMAIN tables
        /\ tables'[n] = b /\ \A m \in DOMAIN tables : tables'[m] = tables[m]
    BY <1>0, <2>1, <2>2, <2>4, <2>5 DEF ProducerTypes
  <2>7. t # Producers!Empty
    BY DEF Hashed
  <2>8. TablesStay(t)
    BY <2>3, <2>6 DEF TablesStay
  <2>9. HasSlot(t)' <=> HasSlot(t)
    BY <2>3, <2>6, <2>7 DEF HasSlot
  <2>10. SlotInv(t)'
    <3> SUFFICES ASSUME NEW m \in DOMAIN tables', NEW s \in DOMAIN tables'[m], tables'[m][s].key = t
                 PROVE  /\ tables'[m][s].value \in listeners'[t] /\ s \in Producers!Found(m, t)'
                        /\ thread'[t].pc = "exit" => m <= thread'[t].main
      BY DEF SlotInv
    <3>1. m \in DOMAIN tables /\ tables'[m] = tables[m]
      BY <2>3, <2>6, <2>7
    <3>2. tables[m][s].value \in listeners[t] /\ s \in Producers!Found(m, t)
      BY <1>0, <3>1 DEF SlotInv
    <3>3. s \in Producers!Found(m, t)'
      BY <1>0, <2>8, <3>1, <3>2, FoundStays
    <3> QED BY <3>1, <3>2, <3>3
  <2> QED BY <2>6, <2>8, <2>9, <2>10
<1> QED BY <1>1, <1>2

LEMMA GrowerStep ==
  ASSUME Hashed, ProducersInv, NEW t \in Enqueuers, NEW e \in ThreadStates,
         UNCHANGED <<producerList, listeners, tokenOf, holders>>, thread' = [thread EXCEPT ![t] = e],
         thread[t].pc \in {"full", "resize", "grown"}, e.pc \in {"resize", "grown", "admit", "idle"},
         e.pc # "idle" => e.main \in DOMAIN tables,
         UNCHANGED tables \/ \E c \in Nat \ {0} : tables' = Append(tables, Producers!Table(c)),
         resizing => Allocates(t), resizing' <=> e.pc \in {"resize", "grown"},
         hashCount' = hashCount - (IF e.pc = "idle" THEN 1 ELSE 0)
  PROVE  ProducersInv'
<1>0. ProducerTypes /\ RoomInv /\ ResizeInv /\ TakerInv(t) /\ MineInv(t)
  BY DEF ProducersInv
<1>1. thread' \in [Enqueuers -> ThreadStates] /\ thread'[t] = e /\ \A u \in Enqueuers \ {t} : thread'[u] = thread[u]
  BY <1>0, ThreadBecomes
<1>2. /\ tables' \in Seq(HashTables) /\ tables' # <<>> /\ TablesStay(t) /\ SlotInv(t)'
      /\ (HasSlot(t)' <=> HasSlot(t)) /\ \A m \in DOMAIN tables : m \in DOMAIN tables'
  <2>1. thread[t].pc # "exit" /\ thread'[t].pc # "exit"
    BY <1>1
  <2> QED BY <2>1, TableAdded
<1>3. Seeks(t) /\ (Seeks(t)' <=> e.pc # "idle") /\ ~Inserts(t) /\ ~Inserts(t)' /\ ~Links(t) /\ ~Links(t)'
  BY <1>1 DEF Seeks, Inserts, Links, Taking
<1>4. /\ Cardinality(Producers!Pending) \in Nat /\ Cardinality(ToBeCounted) \in Nat
      /\ Cardinality(Producers!Pending)' = Cardinality(Producers!Pending)
      /\ Cardinality(ToBeCounted)' = Cardinality(ToBeCounted) - (IF e.pc = "idle" THEN 1 ELSE 0)
  <2>1. /\ Cardinality(Producers!Pending) \in Nat /\ Cardinality(ToBeCounted) \in Nat
        /\ Cardinality(Producers!Pending)' = Cardinality(Producers!Pending) - 0 + 0
    BY <1>1, <1>3, NumbersChange
  <2>2. Cardinality(ToBeCounted)' = Cardinality(ToBeCounted) - 1 + (IF e.pc = "idle" THEN 0 ELSE 1)
    BY <1>1, <1>3, NumbersChange DEF ToCount
  <2> QED BY <2>1, <2>2
<1>5. Cardinality(ToBeCounted) # 0
  <2>1. t \in ToBeCounted /\ ToBeCounted \subseteq Enqueuers /\ IsFiniteSet(Enqueuers)
    BY <1>3 DEF ToBeCounted, Hashed
  <2> QED BY <2>1, FS_Subset, FS_EmptySet
<1>6. hashCount' \in Nat /\ RoomInv'
  <2>1. hashCount \in Nat /\ Len(producerList)' = Len(producerList)
    BY <1>0 DEF ProducerTypes
  <2> QED BY <1>0, <1>4, <1>5, <2>1 DEF RoomInv
<1>7. ProducerTypes'
  BY <1>0, <1>1, <1>2, <1>6 DEF ProducerTypes, ThreadStates
<1>8. HeldInv' /\ ListGrows /\ HoldersStay(t) /\ Mine(t)' = Mine(t)
  BY ListAlone
<1>9. ResizeInv'
  <2>1. \A u \in Enqueuers \ {t} : ~Allocates(u)'
    BY <1>0, <1>1 DEF ResizeInv, Allocates
  <2>2. Allocates(t)' <=> resizing'
    BY <1>1 DEF Allocates
  <2> QED BY <2>1, <2>2 DEF ResizeInv
<1>10. TakerInv(t)'
  BY <1>0, <1>1 DEF TakerInv
<1>11. MineInv(t)'
  <2>1. Mine(t) = listeners[t] /\ listeners[t] = {} /\ (\A p, q \in Mine(t) : p = q)
    BY <1>0, <1>3 DEF MineInv
  <2> QED BY <1>1, <1>8, <2>1 DEF MineInv
<1>12. PathInv(t)'
  BY <1>1, <1>2 DEF PathInv, Taking
<1>13. OthersUntouched(t)
  BY <1>1, <1>2, <1>8 DEF OthersUntouched
<1> QED BY <1>2, <1>6, <1>7, <1>8, <1>9, <1>10, <1>11, <1>12, <1>13, StepKeeps DEF ThreadInv

LEMMA TryResizeKeeps ==
  ASSUME Hashed, ProducersInv, NEW t \in Enqueuers, Producers!TryResize(t)
  PROVE  ProducersInv'
<1>0. ProducerTypes /\ ResizeInv
  BY DEF ProducersInv
<1>1. PICK d : d = thread[t]
  OBVIOUS
<1>2. PICK l : l = "resize"
  OBVIOUS
<1>3. PICK n : n = Len(tables)
  OBVIOUS
<1>4. PICK e : e = [d EXCEPT !.pc = l, !.main = n]
  OBVIOUS
<1>5. /\ d.pc = "full" /\ ~resizing /\ resizing' = TRUE
      /\ UNCHANGED <<producerList, tables, hashCount, listeners, tokenOf, holders>>
  BY <1>1 DEF Producers!TryResize, Producers!At, Producers!list
<1>6. thread' = [thread EXCEPT ![t] = e]
  <2>1. thread' = [thread EXCEPT ![t].pc = l, ![t].main = n]
    BY <1>2, <1>3 DEF Producers!TryResize
  <2> QED BY <1>0, <1>1, <1>4, <2>1 DEF ProducerTypes
<1>7. n \in Nat /\ n \in DOMAIN tables
  BY <1>0, <1>3 DEF ProducerTypes
<1>8. e \in Growers /\ e.pc = l /\ e.main = n
  <2>1. d \in Growers
    BY <1>0, <1>1, <1>5, StateOf
  <2>2. PICK f : f = [d EXCEPT !.pc = l]
    OBVIOUS
  <2>3. f \in Growers /\ f.pc = l
    BY <1>2, <2>1, <2>2 DEF Growers
  <2>4. e = [f EXCEPT !.main = n]
    BY <1>4, <2>2
  <2> QED BY <1>7, <2>3, <2>4 DEF Growers
<1>9. e \in ThreadStates /\ e.pc = "resize" /\ e.main \in DOMAIN tables
  BY <1>2, <1>7, <1>8 DEF ThreadStates
<1>10. hashCount' = hashCount - (IF e.pc = "idle" THEN 1 ELSE 0)
  BY <1>0, <1>5, <1>9 DEF ProducerTypes
<1> QED BY <1>1, <1>5, <1>6, <1>9, <1>10, GrowerStep

LEMMA GrowKeeps ==
  ASSUME Hashed, ProducersInv, NEW t \in Enqueuers, Producers!Grow(t)
  PROVE  ProducersInv'
<1>0. ProducerTypes /\ ResizeInv /\ PathInv(t)
  BY DEF ProducersInv
<1>1. PICK d : d = thread[t]
  OBVIOUS
<1>2. PICK e : e = [d EXCEPT !.pc = "grown"]
  OBVIOUS
<1>3. /\ d.pc = "resize" /\ thread' = [thread EXCEPT ![t] = e]
      /\ tables' = Append(tables, Producers!Table(Producers!Doubled(d.newCount, Producers!Capacity(d.main))))
      /\ UNCHANGED <<producerList, hashCount, resizing, listeners, tokenOf, holders>>
  BY <1>1, <1>2 DEF Producers!Grow, Producers!At, Producers!list
<1>4. d \in Growers /\ d.main \in DOMAIN tables
  BY <1>0, <1>1, <1>3, StateOf DEF PathInv
<1>5. e \in Growers /\ e.pc = "grown" /\ e.main = d.main /\ d.newCount \in Nat
  BY <1>2, <1>4 DEF Growers
<1>6. e \in ThreadStates
  BY <1>5 DEF ThreadStates
<1>7. \E c \in Nat \ {0} : tables' = Append(tables, Producers!Table(c))
  <2>1. PICK c \in Nat \ {0} : Producers!Capacity(d.main) = c
    BY <1>0, <1>4, TableOf
  <2>2. Producers!Doubled(d.newCount, c) \in Nat \ {0}
    BY <1>5, DoublingEnds
  <2> QED BY <1>3, <2>1, <2>2
<1>8. Allocates(t) /\ resizing
  BY <1>0, <1>1, <1>3 DEF Allocates, ResizeInv
<1>9. hashCount' = hashCount - (IF e.pc = "idle" THEN 1 ELSE 0)
  BY <1>0, <1>3, <1>5 DEF ProducerTypes
<1> QED BY <1>1, <1>3, <1>4, <1>5, <1>6, <1>7, <1>8, <1>9, GrowerStep

LEMMA GrownKeeps ==
  ASSUME Hashed, ProducersInv, NEW t \in Enqueuers, Producers!Grown(t)
  PROVE  ProducersInv'
<1>0. ProducerTypes
  BY DEF ProducersInv
<1>1. PICK d : d = thread[t]
  OBVIOUS
<1>2. PICK l : l = "admit"
  OBVIOUS
<1>3. PICK n : n = Len(tables)
  OBVIOUS
<1>4. PICK e : e = [d EXCEPT !.pc = l, !.main = n]
  OBVIOUS
<1>5. /\ d.pc \in {"grown", "resize"} /\ resizing' = FALSE
      /\ UNCHANGED <<producerList, tables, hashCount, listeners, tokenOf, holders>>
  BY <1>1 DEF Producers!Grown, Producers!At, Producers!list
<1>6. thread' = [thread EXCEPT ![t] = e]
  <2>1. thread' = [thread EXCEPT ![t].pc = l, ![t].main = n]
    BY <1>2, <1>3 DEF Producers!Grown
  <2> QED BY <1>0, <1>1, <1>4, <2>1 DEF ProducerTypes
<1>7. n \in Nat /\ n \in DOMAIN tables
  BY <1>0, <1>3 DEF ProducerTypes
<1>8. e \in Growers /\ e.pc = l /\ e.main = n
  <2>1. d \in Growers
    BY <1>0, <1>1, <1>5, StateOf
  <2>2. PICK f : f = [d EXCEPT !.pc = l]
    OBVIOUS
  <2>3. f \in Growers /\ f.pc = l
    BY <1>2, <2>1, <2>2 DEF Growers
  <2>4. e = [f EXCEPT !.main = n]
    BY <1>4, <2>2
  <2> QED BY <1>7, <2>3, <2>4 DEF Growers
<1>9. e \in ThreadStates /\ e.pc = "admit" /\ e.main \in DOMAIN tables
  BY <1>2, <1>7, <1>8 DEF ThreadStates
<1>10. hashCount' = hashCount - (IF e.pc = "idle" THEN 1 ELSE 0)
  BY <1>0, <1>5, <1>9 DEF ProducerTypes
<1>11. Allocates(t)
  BY <1>1, <1>5 DEF Allocates
<1> QED BY <1>1, <1>5, <1>6, <1>9, <1>10, <1>11, GrowerStep

LEMMA GrowFailsKeeps ==
  ASSUME Hashed, ProducersInv, NEW t \in Enqueuers, Producers!GrowFails(t)
  PROVE  ProducersInv'
<1>1. PICK e : e = Producers!Idle
  OBVIOUS
<1>2. /\ thread[t].pc = "resize" /\ thread' = [thread EXCEPT ![t] = e]
      /\ hashCount' = hashCount - 1 /\ resizing' = FALSE
      /\ UNCHANGED <<producerList, tables, listeners, tokenOf, holders>>
  BY <1>1 DEF Producers!GrowFails, Producers!At, Producers!Returns, Producers!list
<1>3. e \in ThreadStates /\ e.pc = "idle"
  BY <1>1 DEF ThreadStates, Producers!Idle
<1>4. Allocates(t)
  BY <1>2 DEF Allocates
<1>5. hashCount' = hashCount - (IF e.pc = "idle" THEN 1 ELSE 0)
  BY <1>2, <1>3
<1> QED BY <1>2, <1>3, <1>4, <1>5, GrowerStep

-----------------------------------------------------------------------------
(* The producer of a thread, and its slots *)
LEMMA SubscribeKeeps ==
  ASSUME Hashed, ProducersInv, NEW t \in Enqueuers, Producers!Subscribe(t)
  PROVE  ProducersInv'
<1>0. ProducerTypes /\ RoomInv /\ TakerInv(t) /\ MineInv(t) /\ SlotInv(t) /\ PathInv(t)
  BY DEF ProducersInv
<1>1. PICK d : d = thread[t]
  OBVIOUS
<1>2. PICK e : e = [pc |-> "insert", isExplicit |-> FALSE, main |-> d.main, step |-> 0, again |-> FALSE, result |-> d.result]
  OBVIOUS
<1>3. /\ d.pc = "got" /\ ~d.isExplicit
      /\ listeners' = [listeners EXCEPT ![t] = @ \cup {d.result}]
      /\ UNCHANGED <<producerList, tables, hashCount, resizing, tokenOf, holders>>
  BY <1>1 DEF Producers!Subscribe, Producers!At, Producers!list, Producers!hash
<1>4. thread' = [thread EXCEPT ![t] = e]
  BY <1>1, <1>2 DEF Producers!Subscribe
<1>5. d \in Takers /\ d.pc \in Taking
  BY <1>0, <1>1, <1>3, StateOf DEF Taking
<1>6. d.main \in Nat /\ d.result \in Nat /\ d.main \in DOMAIN tables
  BY <1>0, <1>1, <1>3, <1>5 DEF Takers, PathInv
<1>7. /\ e \in ThreadStates /\ e.pc = "insert" /\ e.main = d.main /\ e.step = 0 /\ ~e.again /\ e.result = d.result
  <2>1. e \in Inserters
    BY <1>2, <1>6 DEF Inserters
  <2> QED BY <1>2, <2>1 DEF ThreadStates
<1>8. thread' \in [Enqueuers -> ThreadStates] /\ thread'[t] = e /\ \A u \in Enqueuers \ {t} : thread'[u] = thread[u]
  BY <1>0, <1>4, <1>7, ThreadBecomes
<1>9. Seeks(t) /\ listeners[t] = {}
  BY <1>0, <1>1, <1>3, <1>5 DEF MineInv, Seeks
<1>10. /\ listeners' \in [Enqueuers -> SUBSET Nat] /\ listeners'[t] = {d.result}
       /\ \A u \in Enqueuers \ {t} : listeners'[u] = listeners[u]
  BY <1>0, <1>3, <1>6, <1>9 DEF ProducerTypes
<1>11. ProducerTypes'
  BY <1>0, <1>3, <1>8, <1>10 DEF ProducerTypes, ThreadStates
<1>12. ~Seeks(t)' /\ Inserts(t)' /\ ~Links(t) /\ ~Links(t)'
  BY <1>1, <1>3, <1>7, <1>8 DEF Seeks, Inserts, Links, Taking
<1>13. RoomInv'
  <2>1. Cardinality(Producers!Pending)' = Cardinality(Producers!Pending) /\ Cardinality(ToBeCounted)' = Cardinality(ToBeCounted)
    BY <1>8, <1>9, <1>12, NumbersChange DEF ToCount
  <2> QED BY <1>0, <1>3, <2>1 DEF RoomInv
<1>14. HeldInv' /\ ListGrows /\ HoldersStay(t) /\ Mine(t)' = Mine(t)
  BY <1>3, ListAlone
<1>15. ResizeInv'
  <2>1. \A u \in Enqueuers : Allocates(u)' <=> Allocates(u)
    BY <1>1, <1>3, <1>7, <1>8 DEF Allocates
  <2> QED BY <1>3, <2>1 DEF ProducersInv, ResizeInv
<1>16. TakerInv(t)'
  BY <1>0, <1>3, <1>7, <1>8 DEF TakerInv
<1>17. MineInv(t)'
  <2>1. Mine(t) = {d.result}
    BY <1>0, <1>1, <1>3 DEF MineInv
  <2> QED BY <1>7, <1>8, <1>10, <1>12, <1>14, <2>1 DEF MineInv
<1>18. SlotInv(t)'
  BY <1>0, <1>3, <1>9 DEF SlotInv
<1>19. PathInv(t)'
  <2>1. \A k \in Nat : ~(k < 0)
    OBVIOUS
  <2> QED BY <1>3, <1>6, <1>7, <1>8, <2>1 DEF PathInv, Taking
<1>20. TablesStay(t)
  BY <1>3 DEF TablesStay
<1>21. OthersUntouched(t)
  BY <1>3, <1>8, <1>10, <1>14, <1>20 DEF OthersUntouched
<1> QED BY <1>11, <1>13, <1>14, <1>15, <1>16, <1>17, <1>18, <1>19, <1>21, StepKeeps DEF ThreadInv

LEMMA ExitKeeps ==
  ASSUME Hashed, ProducersInv, NEW t \in Enqueuers, Producers!Exit(t)
  PROVE  ProducersInv'
<1>0. ProducerTypes /\ RoomInv /\ TakerInv(t) /\ MineInv(t) /\ SlotInv(t)
  BY DEF ProducersInv
<1>1. PICK e : e = [pc |-> "exit", main |-> Len(tables)]
  OBVIOUS
<1>2. /\ thread[t].pc = "idle" /\ thread' = [thread EXCEPT ![t] = e]
      /\ UNCHANGED <<producerList, tables, hashCount, resizing, listeners, tokenOf, holders>>
  BY <1>1 DEF Producers!Exit, Producers!At, Producers!list, Producers!hash
<1>3. Len(tables) \in Nat /\ DOMAIN tables = 1..Len(tables)
  BY <1>0 DEF ProducerTypes
<1>4. e \in ThreadStates /\ e.pc = "exit" /\ e.main = Len(tables)
  BY <1>1, <1>3 DEF Leavers, ThreadStates
<1>5. thread' \in [Enqueuers -> ThreadStates] /\ thread'[t] = e /\ \A u \in Enqueuers \ {t} : thread'[u] = thread[u]
  BY <1>0, <1>2, <1>4, ThreadBecomes
<1>6. ProducerTypes'
  BY <1>0, <1>2, <1>5 DEF ProducerTypes, ThreadStates
<1>7. ~ToCount(t) /\ ~ToCount(t)' /\ ~Seeks(t)' /\ ~Inserts(t)' /\ ~Links(t) /\ ~Links(t)' /\ ~Inserts(t)
  BY <1>2, <1>4, <1>5 DEF ToCount, Seeks, Inserts, Links, Taking
<1>8. RoomInv'
  <2>1. Cardinality(Producers!Pending)' = Cardinality(Producers!Pending) /\ Cardinality(ToBeCounted)' = Cardinality(ToBeCounted)
    BY <1>5, <1>7, NumbersChange
  <2> QED BY <1>0, <1>2, <2>1 DEF RoomInv
<1>9. HeldInv' /\ ListGrows /\ HoldersStay(t) /\ Mine(t)' = Mine(t)
  BY <1>2, ListAlone
<1>10. ResizeInv'
  <2>1. \A u \in Enqueuers : Allocates(u)' <=> Allocates(u)
    BY <1>2, <1>4, <1>5 DEF Allocates
  <2> QED BY <1>2, <2>1 DEF ProducersInv, ResizeInv
<1>11. TakerInv(t)'
  BY <1>0, <1>2, <1>4, <1>5 DEF TakerInv
<1>12. MineInv(t)'
  BY <1>0, <1>2, <1>4, <1>5, <1>7, <1>9 DEF MineInv
<1>13. SlotInv(t)'
  <2>1. \A m : Producers!Found(m, t)' = Producers!Found(m, t)
    BY <1>2 DEF Producers!Found, Producers!Probe, Producers!Capacity, Producers!Empty, Producers!Cardinality
  <2>2. \A m \in DOMAIN tables : m <= Len(tables)
    BY <1>3
  <2> QED BY <1>0, <1>2, <1>4, <1>5, <2>1, <2>2 DEF SlotInv
<1>14. PathInv(t)'
  BY <1>2, <1>3, <1>4, <1>5 DEF PathInv, Taking
<1>15. TablesStay(t)
  BY <1>2 DEF TablesStay
<1>16. OthersUntouched(t)
  BY <1>2, <1>5, <1>9, <1>15 DEF OthersUntouched
<1> QED BY <1>6, <1>8, <1>9, <1>10, <1>11, <1>12, <1>13, <1>14, <1>16, StepKeeps DEF ThreadInv

(* The search for a slot of the newest table goes on. *)
LEMMA InsertGoesOn ==
  ASSUME Hashed, ProducersInv, NEW t \in Enqueuers, NEW d, d = thread[t], d.pc = "insert",
         tables[d.main][Producers!Probe(d.main, t, d.step)].key # Producers!Empty,
         thread' = [thread EXCEPT ![t].step = (@ + 1) % Producers!Capacity(d.main)],
         UNCHANGED <<producerList, tables, hashCount, resizing, listeners, tokenOf, holders>>
  PROVE  ProducersInv'
<1>0. ProducerTypes /\ RoomInv /\ TakerInv(t) /\ MineInv(t) /\ SlotInv(t) /\ PathInv(t)
  BY DEF ProducersInv
<1>1. PICK n : n = (d.step + 1) % Producers!Capacity(d.main)
  OBVIOUS
<1>2. PICK e : e = [d EXCEPT !.step = n]
  OBVIOUS
<1>3. d \in Inserters /\ d.main \in DOMAIN tables
  BY <1>0, StateOf DEF PathInv
<1>4. PICK c \in Nat \ {0} : Producers!Capacity(d.main) = c
  BY <1>0, <1>3, TableOf
<1>5. d.step \in Nat
  BY <1>3 DEF Inserters
<1>6. n \in Nat /\ n <= d.step + 1
  <2>1. \A a \in Nat : a % c \in Nat /\ a % c <= a
    BY <1>4
  <2> QED BY <1>1, <1>4, <1>5, <2>1
<1>7. e \in ThreadStates /\ e.pc = "insert" /\ e.main = d.main /\ e.step = n /\ e.again = d.again /\ e.result = d.result
  <2>1. e \in Inserters /\ e.pc = "insert" /\ e.main = d.main /\ e.step = n /\ e.again = d.again /\ e.result = d.result
    BY <1>2, <1>3, <1>6 DEF Inserters
  <2> QED BY <2>1 DEF ThreadStates
<1>8. thread' = [thread EXCEPT ![t] = e]
  BY <1>1, <1>2
<1>9. thread' \in [Enqueuers -> ThreadStates] /\ thread'[t] = e /\ \A u \in Enqueuers \ {t} : thread'[u] = thread[u]
  BY <1>0, <1>7, <1>8, ThreadBecomes
<1>10. ProducerTypes'
  BY <1>0, <1>9 DEF ProducerTypes, ThreadStates
<1>11. /\ ~Seeks(t) /\ ~Seeks(t)' /\ (Inserts(t)' <=> Inserts(t)) /\ ~Links(t) /\ ~Links(t)'
       /\ (ToCount(t)' <=> ToCount(t))
  BY <1>7, <1>9 DEF Seeks, Inserts, Links, Taking, ToCount
<1>12. RoomInv'
  <2>1. Cardinality(Producers!Pending)' = Cardinality(Producers!Pending) /\ Cardinality(ToBeCounted)' = Cardinality(ToBeCounted)
    BY <1>9, <1>11, NumbersChange
  <2> QED BY <1>0, <2>1 DEF RoomInv
<1>13. HeldInv' /\ ListGrows /\ HoldersStay(t) /\ Mine(t)' = Mine(t)
  BY ListAlone
<1>14. TablesStay(t) /\ SlotInv(t)' /\ ResizeInv' /\ (HasSlot(t)' <=> HasSlot(t))
  <2>1. (Allocates(t)' <=> Allocates(t)) /\ thread'[t].pc # "exit"
    BY <1>7, <1>9 DEF Allocates
  <2> QED BY <1>9, <2>1, TablesAlone
<1>15. TakerInv(t)'
  BY <1>0, <1>7, <1>9 DEF TakerInv
<1>16. MineInv(t)'
  BY <1>0, <1>7, <1>9, <1>11, <1>13, <1>14 DEF MineInv
<1>17. PathInv(t)'
  <2>1. ASSUME NEW k \in Nat, k < n
        PROVE  tables[d.main][Producers!Probe(d.main, t, k)].key # Producers!Empty
    <3>1. k < d.step \/ k = d.step
      BY <1>5, <1>6, <2>1
    <3> QED BY <1>0, <2>1, <3>1 DEF PathInv
  <2>2. \A k : Producers!Probe(d.main, t, k)' = Producers!Probe(d.main, t, k)
    BY DEF Producers!Probe, Producers!Capacity, Producers!Cardinality
  <2>3. ASSUME NEW k \in Nat, k < n
        PROVE  tables'[thread'[t].main][Producers!Probe(thread[t].main, t, k)'].key # Producers!Empty
    <3>1. Producers!Probe(thread[t].main, t, k)' = Producers!Probe(d.main, t, k)'
      BY <1>7, <1>9
    <3> QED BY <1>7, <1>9, <2>1, <2>2, <2>3, <3>1
  <2>4. Producers!Empty' = Producers!Empty
    BY DEF Producers!Empty
  <2> QED BY <1>3, <1>7, <1>9, <2>3, <2>4 DEF PathInv
<1>18. OthersUntouched(t)
  BY <1>9, <1>13, <1>14 DEF OthersUntouched
<1> QED BY <1>10, <1>12, <1>13, <1>14, <1>15, <1>16, <1>17, <1>18, StepKeeps DEF ThreadInv

LEMMA EntryChanges ==
  ASSUME NEW S, NEW q \in Seq(S), NEW m \in DOMAIN q, NEW b \in S, NEW r, r = [q EXCEPT ![m] = b]
  PROVE  r \in Seq(S) /\ DOMAIN r = DOMAIN q /\ r[m] = b /\ \A n \in DOMAIN q \ {m} : r[n] = q[n]
OBVIOUS

(* One slot of a table changes. *)
Fills(m, s, v) == tables' = [tables EXCEPT ![m] = [tables[m] EXCEPT ![s] = v]]
Filled(t, m, s, v) ==
  /\ tables' \in Seq(HashTables) /\ tables' # <<>> /\ TablesStay(t) /\ DOMAIN tables' = DOMAIN tables
  /\ s \in DOMAIN tables'[m] /\ tables'[m][s] = v
  /\ \A n \in DOMAIN tables : \A r \in DOMAIN tables'[n] :
       r \in DOMAIN tables[n] /\ (tables'[n][r] = tables[n][r] \/ (n = m /\ r = s))

LEMMA SlotChanges ==
  ASSUME Hashed, ProducerTypes, NEW t \in Enqueuers, NEW m \in DOMAIN tables, NEW s \in DOMAIN tables[m],
         NEW v \in HashSlots, Fills(m, s, v), v.key = t,
         tables[m][s].key \in {Producers!Empty, Producers!Reusable}
  PROVE  Filled(t, m, s, v)
<1>1. PICK c \in Nat \ {0} : tables[m] \in [0..(c - 1) -> HashSlots]
  BY TableOf
<1>2. PICK b : b = [tables[m] EXCEPT ![s] = v]
  OBVIOUS
<1>3. tables' = [tables EXCEPT ![m] = b]
  BY <1>2 DEF Fills
<1>4. b \in [0..(c - 1) -> HashSlots] /\ DOMAIN b = DOMAIN tables[m] /\ b[s] = v /\ \A r \in DOMAIN b \ {s} : b[r] = tables[m][r]
  BY <1>1, <1>2
<1>5. b \in HashTables
  BY <1>4 DEF HashTables
<1>6. /\ tables' \in Seq(HashTables) /\ tables' # <<>> /\ DOMAIN tables' = DOMAIN tables /\ tables'[m] = b
      /\ \A n \in DOMAIN tables \ {m} : tables'[n] = tables[n]
  <2>1. PICK S : S = HashTables
    OBVIOUS
  <2>2. tables \in Seq(S) /\ b \in S /\ tables # <<>>
    BY <1>5, <2>1 DEF ProducerTypes
  <2>3. tables' \in Seq(S) /\ DOMAIN tables' = DOMAIN tables /\ tables'[m] = b
    BY <1>3, <2>2, EntryChanges
  <2>4. \A n \in DOMAIN tables \ {m} : tables'[n] = tables[n]
    BY <1>3, <2>2, EntryChanges
  <2>5. tables' # <<>>
    BY <2>3
  <2> QED BY <2>1, <2>3, <2>4, <2>5
<1>7. v.key # Producers!Empty /\ \A u \in Enqueuers : u # Producers!Empty /\ u # Producers!Reusable
  BY DEF Hashed
<1>8. TablesStay(t)
  <2>1. \A n \in DOMAIN tables : DOMAIN tables'[n] = DOMAIN tables[n]
    BY <1>4, <1>6
  <2>2. ASSUME NEW n \in DOMAIN tables, NEW r \in DOMAIN tables[n]
        PROVE  /\ tables[n][r].key # Producers!Empty => tables'[n][r].key # Producers!Empty
               /\ \A u \in Enqueuers \ {t} : tables[n][r].key = u \/ tables'[n][r].key = u => tables'[n][r] = tables[n][r]
    <3>1. CASE n = m /\ r = s
      BY <1>4, <1>6, <1>7, <3>1
    <3>2. CASE ~(n = m /\ r = s)
      BY <1>4, <1>6, <3>2
    <3> QED BY <3>1, <3>2
  <2> QED BY <1>6, <2>1, <2>2 DEF TablesStay
<1>9. \A n \in DOMAIN tables : \A r \in DOMAIN tables'[n] :
        r \in DOMAIN tables[n] /\ (tables'[n][r] = tables[n][r] \/ (n = m /\ r = s))
  BY <1>4, <1>6
<1> QED BY <1>4, <1>6, <1>8, <1>9 DEF Filled

(* The slot that ends it is the first on the way of the thread. *)
LEMMA InsertEnds ==
  ASSUME Hashed, ProducersInv, NEW t \in Enqueuers, NEW d, d = thread[t], d.pc = "insert",
         NEW m, m = d.main, NEW s, s = Producers!Probe(m, t, d.step),
         tables[m][s].key \in {Producers!Empty, Producers!Reusable}, NEW v, v = [key |-> t, value |-> d.result],
         Fills(m, s, v),
         hashCount' = hashCount - (IF tables[m][s].key = Producers!Reusable /\ ~d.again THEN 1 ELSE 0),
         thread' = [thread EXCEPT ![t] = Producers!Idle],
         UNCHANGED <<producerList, resizing, listeners, tokenOf, holders>>
  PROVE  ProducersInv'
<1>0. ProducerTypes /\ RoomInv /\ TakerInv(t) /\ MineInv(t) /\ SlotInv(t) /\ PathInv(t)
  BY DEF ProducersInv
<1>1. PICK e : e = Producers!Idle
  OBVIOUS
<1>2. e \in ThreadStates /\ e.pc = "idle"
  BY <1>1 DEF ThreadStates, Producers!Idle
<1>3. thread' \in [Enqueuers -> ThreadStates] /\ thread'[t] = e /\ \A u \in Enqueuers \ {t} : thread'[u] = thread[u]
  BY <1>0, <1>1, <1>2, ThreadBecomes
<1>5. m \in DOMAIN tables /\ d.step \in Nat /\ d.result \in Nat
  <2>1. d \in Inserters
    BY <1>0, StateOf
  <2> QED BY <1>0, <2>1 DEF Inserters, PathInv
<1>6. s \in DOMAIN tables[m]
  BY <1>0, <1>5, ProbesMeetSlots
<1>8. v \in HashSlots /\ v.key = t /\ v.value = d.result
  BY <1>5 DEF HashSlots
<1>9. /\ tables' \in Seq(HashTables) /\ tables' # <<>> /\ TablesStay(t) /\ DOMAIN tables' = DOMAIN tables
      /\ s \in DOMAIN tables'[m] /\ tables'[m][s] = v
      /\ \A n \in DOMAIN tables : \A r \in DOMAIN tables'[n] :
           r \in DOMAIN tables[n] /\ (tables'[n][r] = tables[n][r] \/ (n = m /\ r = s))
  <2>1. Filled(t, m, s, v)
    BY <1>0, <1>5, <1>6, <1>8, SlotChanges
  <2> QED BY <2>1 DEF Filled
<1>10. ~Seeks(t) /\ ~Seeks(t)' /\ ~Inserts(t)' /\ ~Links(t) /\ ~Links(t)' /\ (ToCount(t) <=> ~d.again) /\ ~ToCount(t)'
  BY <1>2, <1>3 DEF Seeks, Inserts, Links, Taking, ToCount
<1>11. hashCount' \in Nat /\ RoomInv'
  <2>1. /\ Cardinality(Producers!Pending)' = Cardinality(Producers!Pending) /\ Cardinality(ToBeCounted) \in Nat
        /\ Cardinality(ToBeCounted)' = Cardinality(ToBeCounted) - (IF d.again THEN 0 ELSE 1)
    <3>1. /\ Cardinality(Producers!Pending) \in Nat /\ Cardinality(ToBeCounted) \in Nat
          /\ Cardinality(Producers!Pending)' = Cardinality(Producers!Pending) - 0 + 0
          /\ Cardinality(ToBeCounted)' = Cardinality(ToBeCounted) - (IF d.again THEN 0 ELSE 1) + 0
      BY <1>3, <1>10, NumbersChange
    <3> QED BY <3>1
  <2>2. ~d.again => Cardinality(ToBeCounted) # 0
    <3>1. SUFFICES ASSUME ~d.again PROVE Cardinality(ToBeCounted) # 0
      OBVIOUS
    <3>2. t \in ToBeCounted /\ ToBeCounted \subseteq Enqueuers /\ IsFiniteSet(Enqueuers)
      BY <1>10, <3>1 DEF ToBeCounted, ToCount, Hashed
    <3> QED BY <3>2, FS_Subset, FS_EmptySet
  <2>3. hashCount \in Nat /\ (hashCount' = hashCount \/ (~d.again /\ hashCount' = hashCount - 1))
    BY <1>0 DEF ProducerTypes
  <2> QED BY <1>0, <2>1, <2>2, <2>3 DEF RoomInv
<1>12. ProducerTypes'
  BY <1>0, <1>3, <1>9, <1>11 DEF ProducerTypes, ThreadStates
<1>13. HeldInv' /\ ListGrows /\ HoldersStay(t) /\ Mine(t)' = Mine(t)
  BY ListAlone
<1>14. ResizeInv'
  <2>1. \A u \in Enqueuers : Allocates(u)' <=> Allocates(u)
    BY <1>2, <1>3 DEF Allocates
  <2> QED BY <2>1 DEF ProducersInv, ResizeInv
<1>15. TakerInv(t)'
  BY <1>0, <1>2, <1>3 DEF TakerInv
<1>16. MineInv(t)'
  <2>1. HasSlot(t)'
    BY <1>5, <1>8, <1>9 DEF HasSlot
  <2> QED BY <1>0, <1>2, <1>3, <1>10, <1>13, <2>1 DEF MineInv
<1>17. PathInv(t)'
  BY <1>2, <1>3 DEF PathInv, Taking
<1>18. s \in Producers!Found(m, t)'
  <2>0. DOMAIN tables'[m] = DOMAIN tables[m]
    BY <1>5, <1>9 DEF TablesStay
  <2>1. Producers!Capacity(m)' = Producers!Capacity(m)
    BY <2>0 DEF Producers!Capacity, Producers!Cardinality, Cardinality
  <2>2. Producers!Capacity(m) \in Nat \ {0} /\ \A k \in Nat : Producers!Probe(m, t, k) \in DOMAIN tables[m]
    BY <1>0, <1>5, ProbesMeetSlots
  <2>3. \A k : Producers!Probe(m, t, k)' = Producers!Probe(m, t, k)
    BY <2>1 DEF Producers!Probe
  <2>4. ASSUME NEW k \in 0..(Producers!Capacity(m) - 1), \A j \in 0..k : Producers!Probe(m, t, j) # s
        PROVE  tables'[m][Producers!Probe(m, t, k)].key # Producers!Empty
    <3>1. k \in Nat /\ k < d.step
      BY <1>5, <2>2, <2>4
    <3>2. tables[m][Producers!Probe(m, t, k)].key # Producers!Empty
      BY <1>0, <3>1 DEF PathInv
    <3> QED BY <1>5, <1>9, <2>2, <3>1, <3>2 DEF TablesStay
  <2>5. Producers!Empty' = Producers!Empty
    BY DEF Producers!Empty
  <2>6. tables'[m][s].key = t /\ s \in DOMAIN tables'[m]
    BY <1>8, <1>9
  <2>7. \A k \in 0..(Producers!Capacity(m) - 1) :
          (\A j \in 0..k : Producers!Probe(m, t, j) # s) => tables'[m][Producers!Probe(m, t, k)].key # Producers!Empty
    BY <2>4
  <2>8. \A k \in 0..(Producers!Capacity(m)' - 1) :
          (\A j \in 0..k : Producers!Probe(m, t, j)' # s) => tables'[m][Producers!Probe(m, t, k)'].key # Producers!Empty'
    BY <2>1, <2>3, <2>5, <2>7
  <2> QED BY <2>6, <2>8 DEF Producers!Found
<1>19. SlotInv(t)'
  <2> SUFFICES ASSUME NEW n \in DOMAIN tables', NEW r \in DOMAIN tables'[n], tables'[n][r].key = t
               PROVE  /\ tables'[n][r].value \in listeners'[t] /\ r \in Producers!Found(n, t)'
                      /\ thread'[t].pc = "exit" => n <= thread'[t].main
    BY DEF SlotInv
  <2>1. thread'[t].pc # "exit"
    BY <1>2, <1>3
  <2>2. CASE n = m /\ r = s
    <3>1. v.value \in listeners[t]
      BY <1>0, <1>8 DEF MineInv
    <3> QED BY <1>9, <1>18, <2>1, <2>2, <3>1
  <2>3. CASE ~(n = m /\ r = s)
    <3>1. n \in DOMAIN tables /\ r \in DOMAIN tables[n] /\ tables'[n][r] = tables[n][r]
      BY <1>9, <2>3
    <3>2. tables[n][r].value \in listeners[t] /\ r \in Producers!Found(n, t)
      BY <1>0, <3>1 DEF SlotInv
    <3>3. r \in Producers!Found(n, t)'
      BY <1>0, <1>9, <3>1, <3>2, FoundStays
    <3> QED BY <2>1, <3>1, <3>2, <3>3
  <2> QED BY <2>2, <2>3
<1>20. OthersUntouched(t)
  BY <1>3, <1>9, <1>13 DEF OthersUntouched
<1> QED BY <1>11, <1>12, <1>13, <1>14, <1>15, <1>16, <1>17, <1>19, <1>20, StepKeeps DEF ThreadInv

LEMMA InsertKeeps ==
  ASSUME Hashed, ProducersInv, NEW t \in Enqueuers, Producers!Insert(t)
  PROVE  ProducersInv'
<1>1. PICK d : d = thread[t]
  OBVIOUS
<1>2. PICK m, s : m = d.main /\ s = Producers!Probe(m, t, d.step)
  OBVIOUS
<1>3. PICK key : key = tables[m][s].key
  OBVIOUS
<1>4. d.pc = "insert" /\ UNCHANGED <<producerList, resizing, listeners, tokenOf, holders>>
  BY <1>1 DEF Producers!Insert, Producers!At, Producers!list
<1>5. CASE key \in {Producers!Empty, Producers!Reusable}
  <2>1. PICK v : v = [key |-> t, value |-> d.result]
    OBVIOUS
  <2>3. /\ Fills(m, s, v)
        /\ hashCount' = hashCount - (IF tables[m][s].key = Producers!Reusable /\ ~d.again THEN 1 ELSE 0)
        /\ thread' = [thread EXCEPT ![t] = Producers!Idle]
    BY <1>1, <1>2, <1>3, <1>5, <2>1 DEF Producers!Insert, Producers!Returns, Fills
  <2> QED BY <1>1, <1>2, <1>3, <1>4, <1>5, <2>1, <2>3, InsertEnds
<1>6. CASE key \notin {Producers!Empty, Producers!Reusable}
  <2>1. /\ thread' = [thread EXCEPT ![t].step = (@ + 1) % Producers!Capacity(d.main)]
        /\ UNCHANGED <<tables, hashCount>>
    BY <1>1, <1>2, <1>3, <1>6 DEF Producers!Insert
  <2>2. tables[d.main][Producers!Probe(d.main, t, d.step)].key # Producers!Empty
    BY <1>2, <1>3, <1>6
  <2> QED BY <1>1, <1>4, <2>1, <2>2, InsertGoesOn
<1> QED BY <1>5, <1>6

-----------------------------------------------------------------------------
(* The end of a thread *)
LEMMA ExitHashKeeps ==
  ASSUME Hashed, ProducersInv, NEW t \in Enqueuers, Producers!ExitHash(t)
  PROVE  ProducersInv'
<1>0. ProducerTypes /\ RoomInv /\ TakerInv(t) /\ MineInv(t) /\ SlotInv(t) /\ PathInv(t)
  BY DEF ProducersInv
<1>1. PICK d : d = thread[t]
  OBVIOUS
<1>2. PICK m : m = d.main
  OBVIOUS
<1>3. PICK b : b = [s \in DOMAIN tables[m] |->
                      IF s \in Producers!Found(m, t) THEN [tables[m][s] EXCEPT !.key = Producers!Reusable] ELSE tables[m][s]]
  OBVIOUS
<1>4. PICK e : e = [d EXCEPT !.main = m - 1]
  OBVIOUS
<1>5. /\ d.pc = "exit" /\ m # 0 /\ thread' = [thread EXCEPT ![t] = e] /\ tables' = [tables EXCEPT ![m] = b]
      /\ UNCHANGED <<producerList, hashCount, resizing, listeners, tokenOf, holders>>
  BY <1>1, <1>2, <1>3, <1>4 DEF Producers!ExitHash, Producers!At, Producers!list
<1>6. Len(tables) \in Nat /\ DOMAIN tables = 1..Len(tables) /\ m \in 0..Len(tables)
  BY <1>0, <1>1, <1>2, <1>5 DEF ProducerTypes, PathInv
<1>7. m \in DOMAIN tables /\ m - 1 \in Nat /\ m - 1 \in 0..Len(tables)
  BY <1>5, <1>6
<1>8. e \in ThreadStates /\ e.pc = "exit" /\ e.main = m - 1
  <2>1. d \in Leavers
    BY <1>0, <1>1, <1>5, StateOf
  <2>2. e \in Leavers /\ e.pc = "exit" /\ e.main = m - 1
    BY <1>4, <1>7, <2>1 DEF Leavers
  <2> QED BY <2>2 DEF ThreadStates
<1>9. thread' \in [Enqueuers -> ThreadStates] /\ thread'[t] = e /\ \A u \in Enqueuers \ {t} : thread'[u] = thread[u]
  BY <1>0, <1>5, <1>8, ThreadBecomes
<1>10. PICK c \in Nat \ {0} : tables[m] \in [0..(c - 1) -> HashSlots]
  BY <1>0, <1>7, TableOf
<1>11. ASSUME NEW k \in HashSlots
       PROVE  [k EXCEPT !.key = Producers!Reusable] \in HashSlots /\ [k EXCEPT !.key = Producers!Reusable].key = Producers!Reusable
  BY DEF HashSlots
<1>12. /\ b \in [0..(c - 1) -> HashSlots] /\ DOMAIN b = DOMAIN tables[m]
       /\ \A s \in DOMAIN b : \/ tables[m][s].key = t /\ b[s].key = Producers!Reusable
                              \/ s \notin Producers!Found(m, t) /\ b[s] = tables[m][s]
  <2>1. \A s \in DOMAIN tables[m] : tables[m][s] \in HashSlots
    BY <1>10
  <2>2. \A s \in Producers!Found(m, t) : tables[m][s].key = t
    BY DEF Producers!Found
  <2>3. DOMAIN b = DOMAIN tables[m] /\ DOMAIN b = 0..(c - 1)
    BY <1>3, <1>10
  <2>4. \A s \in DOMAIN b : b[s] \in HashSlots
    BY <1>3, <1>11, <2>1
  <2>5. b \in [0..(c - 1) -> HashSlots]
    BY <1>3, <2>3, <2>4
  <2>6. \A s \in DOMAIN b : \/ tables[m][s].key = t /\ b[s].key = Producers!Reusable
                            \/ s \notin Producers!Found(m, t) /\ b[s] = tables[m][s]
    BY <1>3, <1>11, <2>1, <2>2
  <2> QED BY <2>3, <2>5, <2>6
<1>13. b \in HashTables
  BY <1>12 DEF HashTables
<1>14. /\ tables' \in Seq(HashTables) /\ DOMAIN tables' = DOMAIN tables /\ tables'[m] = b
       /\ \A n \in DOMAIN tables \ {m} : tables'[n] = tables[n]
  <2>1. tables \in Seq(HashTables)
    BY <1>0 DEF ProducerTypes
  <2> QED BY <1>5, <1>7, <1>13, <2>1, EntryChanges
<1>15. tables' # <<>>
  BY <1>7, <1>14
<1>16. /\ Producers!Reusable # Producers!Empty
       /\ \A u \in Enqueuers : u # Producers!Empty /\ u # Producers!Reusable
  BY DEF Hashed, Producers!Reusable, Producers!Empty
<1>17. TablesStay(t)
  <2>1. \A n \in DOMAIN tables : DOMAIN tables'[n] = DOMAIN tables[n]
    BY <1>12, <1>14
  <2>2. ASSUME NEW n \in DOMAIN tables, NEW s \in DOMAIN tables[n]
        PROVE  /\ tables[n][s].key # Producers!Empty => tables'[n][s].key # Producers!Empty
               /\ \A u \in Enqueuers \ {t} : tables[n][s].key = u \/ tables'[n][s].key = u => tables'[n][s] = tables[n][s]
    <3>1. CASE n = m
      BY <1>12, <1>14, <1>16, <3>1
    <3>2. CASE n # m
      BY <1>14, <3>2
    <3> QED BY <3>1, <3>2
  <2> QED BY <1>14, <2>1, <2>2 DEF TablesStay
<1>18. ProducerTypes'
  BY <1>0, <1>5, <1>9, <1>14, <1>15 DEF ProducerTypes, ThreadStates
<1>19. ~ToCount(t) /\ ~ToCount(t)' /\ ~Seeks(t)' /\ ~Inserts(t)' /\ ~Links(t) /\ ~Links(t)'
  BY <1>1, <1>5, <1>8, <1>9 DEF ToCount, Seeks, Inserts, Links, Taking
<1>20. RoomInv'
  <2>1. Cardinality(Producers!Pending)' = Cardinality(Producers!Pending) /\ Cardinality(ToBeCounted)' = Cardinality(ToBeCounted)
    BY <1>9, <1>19, NumbersChange
  <2> QED BY <1>0, <1>5, <2>1 DEF RoomInv
<1>21. HeldInv' /\ ListGrows /\ HoldersStay(t) /\ Mine(t)' = Mine(t)
  BY <1>5, ListAlone
<1>22. ResizeInv'
  <2>1. \A u \in Enqueuers : Allocates(u)' <=> Allocates(u)
    BY <1>1, <1>5, <1>8, <1>9 DEF Allocates
  <2> QED BY <1>5, <2>1 DEF ProducersInv, ResizeInv
<1>23. TakerInv(t)'
  BY <1>0, <1>5, <1>8, <1>9 DEF TakerInv
<1>24. MineInv(t)'
  BY <1>0, <1>1, <1>5, <1>8, <1>9, <1>19, <1>21 DEF MineInv
<1>25. SlotInv(t)'
  <2> SUFFICES ASSUME NEW n \in DOMAIN tables', NEW s \in DOMAIN tables'[n], tables'[n][s].key = t
               PROVE  /\ tables'[n][s].value \in listeners'[t] /\ s \in Producers!Found(n, t)'
                      /\ thread'[t].pc = "exit" => n <= thread'[t].main
    BY DEF SlotInv
  <2>1. n # m
    <3>1. SUFFICES ASSUME n = m PROVE FALSE
      OBVIOUS
    <3>2. s \in DOMAIN b /\ b[s].key = t /\ b[s].key # Producers!Reusable
      BY <1>14, <1>16, <3>1
    <3>3. s \in DOMAIN tables[m] /\ tables[m][s].key = t /\ s \notin Producers!Found(m, t)
      BY <1>12, <3>2
    <3> QED BY <1>0, <1>7, <3>3 DEF SlotInv
  <2>2. n \in DOMAIN tables /\ tables'[n] = tables[n]
    BY <1>14, <2>1
  <2>3. tables[n][s].value \in listeners[t] /\ s \in Producers!Found(n, t) /\ n <= m
    BY <1>0, <1>1, <1>2, <1>5, <2>2 DEF SlotInv
  <2>4. s \in Producers!Found(n, t)'
    BY <1>0, <1>17, <2>2, <2>3, FoundStays
  <2>5. n <= m - 1
    BY <1>6, <2>1, <2>2, <2>3
  <2> QED BY <1>5, <1>8, <1>9, <2>2, <2>3, <2>4, <2>5
<1>26. PathInv(t)'
  <2>1. Len(tables') = Len(tables)
    <3>1. Len(tables') \in Nat /\ DOMAIN tables' = 1..Len(tables')
      BY <1>14
    <3> QED BY <1>6, <1>14, <3>1
  <2> QED BY <1>7, <1>8, <1>9, <2>1 DEF PathInv, Taking
<1>27. OthersUntouched(t)
  BY <1>5, <1>9, <1>17, <1>21 DEF OthersUntouched
<1> QED BY <1>18, <1>20, <1>21, <1>22, <1>23, <1>24, <1>25, <1>26, <1>27, StepKeeps DEF ThreadInv

LEMMA ExitEndKeeps ==
  ASSUME Hashed, ProducersInv, NEW t \in Enqueuers, Producers!ExitEnd(t)
  PROVE  ProducersInv'
<1>0. ProducerTypes /\ RoomInv /\ HeldInv /\ TakerInv(t) /\ MineInv(t) /\ SlotInv(t)
  BY DEF ProducersInv
<1>1. PICK e : e = Producers!Idle
  OBVIOUS
<1>2. PICK L : L = listeners[t]
  OBVIOUS
<1>3. /\ thread[t].pc = "exit" /\ thread[t].main = 0 /\ thread' = [thread EXCEPT ![t] = e]
      /\ producerList' = [p \in DOMAIN producerList |-> [producerList[p] EXCEPT !.inactive = @ \/ p \in L]]
      /\ holders' = [p \in DOMAIN holders |-> IF p \in L THEN holders[p] \ {t} ELSE holders[p]]
      /\ listeners' = [listeners EXCEPT ![t] = {}]
      /\ UNCHANGED <<tables, hashCount, resizing, tokenOf>>
  BY <1>1, <1>2 DEF Producers!ExitEnd, Producers!At, Producers!Returns, Producers!hash
<1>4. e \in ThreadStates /\ e.pc = "idle"
  BY <1>1 DEF ThreadStates, Producers!Idle
<1>5. thread' \in [Enqueuers -> ThreadStates] /\ thread'[t] = e /\ \A u \in Enqueuers \ {t} : thread'[u] = thread[u]
  BY <1>0, <1>3, <1>4, ThreadBecomes
<1>6. Mine(t) = L
  BY <1>0, <1>2, <1>3 DEF MineInv
<1>7. Len(producerList) \in Nat /\ DOMAIN producerList = 1..Len(producerList) /\ DOMAIN producerList \subseteq 1..MaxProducers
      /\ \A p \in DOMAIN producerList : producerList[p] \in ProducerKinds
  BY <1>0 DEF ProducerTypes, Hashed
<1>8. ASSUME NEW p \in DOMAIN producerList
      PROVE  /\ producerList'[p] \in ProducerKinds /\ producerList'[p].isExplicit = producerList[p].isExplicit
             /\ p \notin L => producerList'[p].inactive = producerList[p].inactive
  <2>1. PICK k : k = producerList[p]
    OBVIOUS
  <2>2. k \in ProducerKinds
    BY <1>7, <2>1
  <2>3. PICK x \in BOOLEAN : x = (k.inactive \/ p \in L)
    OBVIOUS
  <2>4. producerList'[p] = [k EXCEPT !.inactive = x]
    BY <1>3, <2>1, <2>3
  <2>5. [k EXCEPT !.inactive = x] \in ProducerKinds /\ [k EXCEPT !.inactive = x].isExplicit = k.isExplicit
        /\ [k EXCEPT !.inactive = x].inactive = x
    BY <2>2 DEF ProducerKinds
  <2>6. p \notin L => x = k.inactive
    <3>1. k.inactive \in BOOLEAN
      BY <2>2 DEF ProducerKinds
    <3> QED BY <2>3, <3>1
  <2> QED BY <2>1, <2>4, <2>5, <2>6
<1>9. /\ DOMAIN producerList' = DOMAIN producerList /\ Len(producerList') = Len(producerList)
      /\ producerList' \in Seq(ProducerKinds)
  <2>1. PICK n \in Nat : n = Len(producerList)
    BY <1>7
  <2>2. DOMAIN producerList' = 1..n /\ \A p \in 1..n : producerList'[p] \in ProducerKinds
    BY <1>3, <1>7, <1>8, <2>1
  <2>3. producerList' = [p \in 1..n |-> producerList'[p]]
    BY <1>3, <1>7, <2>1
  <2>4. producerList' \in [1..n -> ProducerKinds]
    BY <2>2, <2>3
  <2>5. producerList' \in Seq(ProducerKinds)
    BY <2>4
  <2>6. Len(producerList') = n
    BY <2>2, <2>5
  <2> QED BY <1>7, <2>1, <2>2, <2>5, <2>6
<1>10. \A p \in L : p \in DOMAIN producerList /\ p \in 1..MaxProducers /\ holders[p] = {t} /\ ~producerList[p].isExplicit
  <2>1. \A p \in L : p \in DOMAIN producerList /\ p \in 1..MaxProducers /\ t \in holders[p] /\ ~producerList[p].isExplicit
    BY <1>6, <1>7 DEF Mine
  <2> QED BY <1>0, <2>1 DEF HeldInv
<1>11. /\ holders' \in [1..MaxProducers -> SUBSET Enqueuers]
       /\ \A p \in L : holders'[p] = {}
       /\ \A p \in 1..MaxProducers \ L : holders'[p] = holders[p]
  <2>1. DOMAIN holders = 1..MaxProducers /\ \A p \in 1..MaxProducers : holders[p] \subseteq Enqueuers
    BY <1>0 DEF ProducerTypes
  <2>2. \A p \in 1..MaxProducers : holders'[p] = IF p \in L THEN holders[p] \ {t} ELSE holders[p]
    BY <1>3, <2>1
  <2>3. \A p \in 1..MaxProducers : holders'[p] \subseteq Enqueuers
    BY <2>1, <2>2
  <2>4. holders' \in [1..MaxProducers -> SUBSET Enqueuers]
    BY <1>3, <2>1, <2>3
  <2> QED BY <1>10, <2>2, <2>4
<1>12. /\ listeners' \in [Enqueuers -> SUBSET Nat] /\ listeners'[t] = {}
       /\ \A u \in Enqueuers \ {t} : listeners'[u] = listeners[u]
  BY <1>0, <1>3 DEF ProducerTypes
<1>13. ProducerTypes'
  BY <1>0, <1>3, <1>5, <1>9, <1>11, <1>12 DEF ProducerTypes, ThreadStates
<1>14. ~ToCount(t) /\ ~ToCount(t)' /\ ~Seeks(t)' /\ ~Inserts(t)' /\ ~Links(t) /\ ~Links(t)'
  BY <1>3, <1>4, <1>5 DEF ToCount, Seeks, Inserts, Links, Taking
<1>15. RoomInv'
  <2>1. Cardinality(Producers!Pending)' = Cardinality(Producers!Pending) /\ Cardinality(ToBeCounted)' = Cardinality(ToBeCounted)
    BY <1>5, <1>14, NumbersChange
  <2> QED BY <1>0, <1>3, <1>9, <2>1 DEF RoomInv
<1>16. HeldInv'
  <2> SUFFICES ASSUME NEW p \in 1..MaxProducers
               PROVE  /\ \A u, v \in holders'[p] : u = v
                      /\ holders'[p] # {} => p \in DOMAIN producerList' /\ ~producerList'[p].inactive
    BY DEF HeldInv
  <2>1. CASE p \in L
    BY <1>11, <2>1
  <2>2. CASE p \notin L
    BY <1>0, <1>8, <1>9, <1>11, <2>2 DEF HeldInv
  <2> QED BY <2>1, <2>2
<1>17. ListGrows
  BY <1>8, <1>9 DEF ListGrows
<1>18. HoldersStay(t)
  BY <1>10, <1>11 DEF HoldersStay
<1>19. ResizeInv'
  <2>1. \A u \in Enqueuers : Allocates(u)' <=> Allocates(u)
    BY <1>3, <1>4, <1>5 DEF Allocates
  <2> QED BY <1>3, <2>1 DEF ProducersInv, ResizeInv
<1>20. TakerInv(t)'
  <2>1. tokenOf[t] # 0 => /\ tokenOf[t] \in DOMAIN producerList' /\ producerList'[tokenOf[t]].isExplicit
                        /\ t \in holders'[tokenOf[t]]
    <3>1. SUFFICES ASSUME tokenOf[t] # 0
                   PROVE  /\ tokenOf[t] \in DOMAIN producerList' /\ producerList'[tokenOf[t]].isExplicit
                          /\ t \in holders'[tokenOf[t]]
      OBVIOUS
    <3>2. tokenOf[t] \in DOMAIN producerList /\ producerList[tokenOf[t]].isExplicit /\ t \in holders[tokenOf[t]]
      BY <1>0, <3>1 DEF TakerInv
    <3>3. tokenOf[t] \notin L
      BY <1>10, <3>2
    <3> QED BY <1>7, <1>8, <1>9, <1>11, <3>2, <3>3
  <2> QED BY <1>3, <1>4, <1>5, <2>1 DEF TakerInv
<1>21. Mine(t)' = {}
  <2> SUFFICES ASSUME NEW p \in DOMAIN producerList', ~producerList'[p].isExplicit, t \in holders'[p] PROVE FALSE
    BY DEF Mine
  <2>1. p \in DOMAIN producerList /\ ~producerList[p].isExplicit /\ p \in 1..MaxProducers
    BY <1>7, <1>8, <1>9
  <2>2. p \notin L /\ t \in holders[p]
    BY <1>11, <2>1
  <2> QED BY <1>6, <2>1, <2>2 DEF Mine
<1>22. MineInv(t)'
  BY <1>4, <1>5, <1>12, <1>14, <1>21 DEF MineInv
<1>23. \A m \in DOMAIN tables : \A s \in DOMAIN tables[m] : tables[m][s].key # t
  <2>1. \A m \in DOMAIN tables : m \in 1..Len(tables) /\ ~(m <= 0)
    BY <1>0 DEF ProducerTypes
  <2> QED BY <1>0, <1>3, <2>1 DEF SlotInv
<1>24. SlotInv(t)'
  BY <1>3, <1>23 DEF SlotInv
<1>25. PathInv(t)'
  BY <1>4, <1>5 DEF PathInv, Taking
<1>26. TablesStay(t)
  BY <1>3 DEF TablesStay
<1>27. OthersUntouched(t)
  BY <1>3, <1>5, <1>12, <1>17, <1>18, <1>26 DEF OthersUntouched
<1> QED BY <1>13, <1>15, <1>16, <1>19, <1>20, <1>22, <1>24, <1>25, <1>27, StepKeeps DEF ThreadInv

-----------------------------------------------------------------------------
LEMMA ProducersStart ==
  ASSUME Hashed, Producers!Init
  PROVE  ProducersInv
<1>1. /\ producerList = <<>> /\ tables = <<Producers!Table(InitialSize)>> /\ hashCount = 0 /\ resizing = FALSE
      /\ listeners = [t \in Enqueuers |-> {}] /\ thread = [t \in Enqueuers |-> Producers!Idle]
      /\ tokenOf = [t \in Enqueuers |-> 0] /\ holders = [p \in 1..MaxProducers |-> {}]
  BY DEF Producers!Init, Producers!None
<1>2. PICK b : b = Producers!Table(InitialSize)
  OBVIOUS
<1>3. b \in [0..(InitialSize - 1) -> HashSlots] /\ \A s \in DOMAIN b : b[s].key = Producers!Empty
  BY <1>2 DEF Producers!Table, Producers!None, HashSlots
<1>4. b \in HashTables
  BY <1>3 DEF HashTables, Hashed
<1>5. tables \in Seq(HashTables) /\ tables # <<>> /\ \A m \in DOMAIN tables : tables[m] = b
  BY <1>1, <1>2, <1>4
<1>6. \A t \in Enqueuers : thread[t].pc = "idle" /\ tokenOf[t] = 0 /\ listeners[t] = {}
  BY <1>1 DEF Producers!Idle
<1>7. producerList \in Seq(ProducerKinds) /\ Len(producerList) = 0 /\ DOMAIN producerList = {}
  BY <1>1
<1>8. ProducerTypes
  BY <1>1, <1>5, <1>7 DEF ProducerTypes, Hashed
<1>9. RoomInv
  <2>1. Producers!Pending = {} /\ ToBeCounted = {}
    BY <1>6 DEF Producers!Pending, Producers!At, ToBeCounted, Seeks, Inserts, Taking
  <2>2. Cardinality({}) = 0
    BY FS_EmptySet
  <2> QED BY <1>1, <1>7, <2>1, <2>2 DEF RoomInv, Hashed
<1>10. HeldInv /\ ResizeInv
  BY <1>1, <1>6 DEF HeldInv, ResizeInv, Allocates
<1>11. ASSUME NEW t \in Enqueuers PROVE TakerInv(t) /\ MineInv(t) /\ SlotInv(t) /\ PathInv(t)
  <2>1. TakerInv(t)
    BY <1>6 DEF TakerInv
  <2>2. MineInv(t)
    BY <1>6, <1>7 DEF MineInv, Mine, Seeks, Taking
  <2>3. t # Producers!Empty
    BY DEF Hashed
  <2>4. SlotInv(t)
    BY <1>3, <1>5, <2>3 DEF SlotInv
  <2>5. PathInv(t)
    BY <1>6 DEF PathInv, Taking
  <2> QED BY <2>1, <2>2, <2>4, <2>5
<1> QED BY <1>8, <1>9, <1>10, <1>11 DEF ProducersInv

LEMMA ProducersRest ==
  ASSUME ProducersInv, UNCHANGED Producers!vars
  PROVE  ProducersInv'
<1>1. UNCHANGED <<producerList, tables, hashCount, resizing, listeners, thread, tokenOf, holders>>
  BY DEF Producers!vars, Producers!list, Producers!hash
<1>2. ProducerTypes' /\ HeldInv' /\ ResizeInv'
  BY <1>1 DEF ProducersInv, ProducerTypes, HeldInv, ResizeInv, Allocates
<1>3. RoomInv'
  <2>1. Producers!Pending' = Producers!Pending /\ ToBeCounted' = ToBeCounted
    BY <1>1 DEF Producers!Pending, Producers!At, ToBeCounted, Seeks, Inserts
  <2> QED BY <1>1, <2>1 DEF ProducersInv, RoomInv
<1>4. ASSUME NEW t \in Enqueuers PROVE TakerInv(t)' /\ MineInv(t)' /\ SlotInv(t)' /\ PathInv(t)'
  <2>1. TakerInv(t) /\ MineInv(t) /\ SlotInv(t) /\ PathInv(t)
    BY DEF ProducersInv
  <2>2. TakerInv(t)'
    BY <1>1, <2>1 DEF TakerInv
  <2>3. MineInv(t)'
    BY <1>1, <2>1 DEF MineInv, Mine, Seeks, Inserts, HasSlot
  <2>4. \A m : Producers!Found(m, t)' = Producers!Found(m, t)
    BY <1>1 DEF Producers!Found, Producers!Probe, Producers!Capacity, Producers!Empty, Producers!Cardinality
  <2>5. SlotInv(t)'
    BY <1>1, <2>1, <2>4 DEF SlotInv
  <2>6. \A m, k : Producers!Probe(m, t, k)' = Producers!Probe(m, t, k)
    BY <1>1 DEF Producers!Probe, Producers!Capacity, Producers!Cardinality
  <2>7. PathInv(t)'
    BY <1>1, <2>1, <2>6 DEF PathInv, Producers!Empty
  <2> QED BY <2>2, <2>3, <2>5, <2>7
<1> QED BY <1>2, <1>3, <1>4 DEF ProducersInv

LEMMA ProducersStep ==
  ASSUME Hashed, ProducersInv, [Producers!Next]_Producers!vars
  PROVE  ProducersInv'
<1>1. CASE UNCHANGED Producers!vars
  BY <1>1, ProducersRest
<1>2. ASSUME NEW t \in Enqueuers, Producers!Step(t) PROVE ProducersInv'
  <2>1. CASE Producers!Take(t) \/ Producers!Recycle(t) \/ Producers!Create(t) \/ Producers!Link(t)
             \/ Producers!CreateFails(t) \/ Producers!TokenGot(t)
    BY <2>1, TakeKeeps, RecycleKeeps, CreateKeeps, LinkKeeps, CreateFailsKeeps, TokenGotKeeps
  <2>2. CASE Producers!TryResize(t) \/ Producers!Grow(t) \/ Producers!Grown(t) \/ Producers!GrowFails(t)
             \/ Producers!Admit(t) \/ Producers!Wait(t)
    BY <2>2, TryResizeKeeps, GrowKeeps, GrownKeeps, GrowFailsKeeps, AdmitKeeps, WaitKeeps
  <2>3. CASE Producers!Subscribe(t) \/ Producers!Insert(t) \/ Producers!ExitHash(t) \/ Producers!ExitEnd(t)
    BY <2>3, SubscribeKeeps, InsertKeeps, ExitHashKeeps, ExitEndKeeps
  <2> QED BY <1>2, <2>1, <2>2, <2>3 DEF Producers!Step
<1>3. ASSUME NEW t \in Enqueuers, Producers!Call(t) PROVE ProducersInv'
  BY <1>3, TokenCreateKeeps, TokenDestroyKeeps, TokenMoveKeeps, GetCallKeeps, ExitKeeps DEF Producers!Call
<1>4. CASE Producers!Finished
  BY <1>4, ProducersRest DEF Producers!Finished
<1> QED BY <1>1, <1>2, <1>3, <1>4 DEF Producers!Next

(* A set whose members are all the same has at most one. *)
LEMMA AtMostOne ==
  ASSUME NEW S, \A x, y \in S : x = y
  PROVE  Cardinality(S) <= 1 /\ (S # {} => Cardinality(S) = 1) /\ (S = {} => Cardinality(S) = 0)
<1>1. CASE S = {}
  BY <1>1, FS_EmptySet
<1>2. CASE S # {}
  <2>1. PICK x \in S : TRUE
    BY <1>2
  <2>2. S = {x}
    BY <2>1
  <2> QED BY <1>2, <2>2, FS_Singleton
<1> QED BY <1>1, <1>2

LEMMA OneProducer ==
  ASSUME Hashed, ProducersInv
  PROVE  Producers!OneHolder /\ Producers!SameProducer /\ Producers!OneAllocates
<1>0. ProducerTypes /\ HeldInv /\ ResizeInv /\ \A t \in Enqueuers : MineInv(t) /\ SlotInv(t)
  BY DEF ProducersInv
<1>1. Producers!OneHolder
  <2> SUFFICES ASSUME NEW p \in DOMAIN producerList
               PROVE  Cardinality(holders[p]) <= 1 /\ (producerList[p].inactive => holders[p] = {})
    BY DEF Producers!OneHolder, Producers!Cardinality, Cardinality
  <2>1. p \in 1..MaxProducers
    BY <1>0 DEF ProducerTypes, Hashed
  <2> QED BY <1>0, <2>1, AtMostOne DEF HeldInv
<1>2. Producers!SameProducer
  <2>1. ASSUME NEW t \in Enqueuers
        PROVE  Cardinality({p \in DOMAIN producerList : ~producerList[p].isExplicit /\ t \in holders[p]}) <= 1
    <3>1. \A p, q \in Mine(t) : p = q
      BY <1>0 DEF MineInv
    <3>2. Cardinality(Mine(t)) <= 1
      BY <3>1, AtMostOne
    <3> QED BY <3>2 DEF Mine
  <2>2. ASSUME NEW m \in DOMAIN tables, NEW s \in DOMAIN tables[m], tables[m][s].key \in Enqueuers
        PROVE  tables[m][s].key \in holders[tables[m][s].value]
    <3>1. PICK t \in Enqueuers : t = tables[m][s].key
      BY <2>2
    <3>2. tables[m][s].value \in listeners[t] /\ MineInv(t)
      BY <1>0, <3>1 DEF SlotInv
    <3>3. Mine(t) = listeners[t]
      BY <3>2 DEF MineInv, Seeks, Taking
    <3> QED BY <3>1, <3>2, <3>3 DEF Mine
  <2> QED BY <2>1, <2>2 DEF Producers!SameProducer, Producers!Cardinality, Cardinality
<1>3. Producers!OneAllocates
  <2>1. {t \in Enqueuers : Producers!At(t, "resize") \/ Producers!At(t, "grown")} = {t \in Enqueuers : Allocates(t)}
    BY DEF Producers!At, Allocates
  <2>2. \A t, u \in {v \in Enqueuers : Allocates(v)} : t = u
    BY <1>0 DEF ResizeInv
  <2>3. {t \in Enqueuers : Allocates(t)} # {} <=> resizing
    BY <1>0 DEF ResizeInv
  <2>4. PICK A : A = {t \in Enqueuers : Allocates(t)}
    OBVIOUS
  <2>5. Cardinality(A) = IF resizing THEN 1 ELSE 0
    <3>1. \A t, u \in A : t = u
      BY <2>2, <2>4
    <3>2. A # {} <=> resizing
      BY <2>3, <2>4
    <3> QED BY <3>1, <3>2, AtMostOne
  <2> QED BY <2>1, <2>4, <2>5 DEF Producers!OneAllocates, Producers!Cardinality, Cardinality
<1> QED BY <1>1, <1>2, <1>3

(* However tokens are made, moved and destroyed, threads come, go and come back with the same id,
   ids collide, tables are doubled and memory runs out: a producer is used by one token or one
   thread at a time and an inactive one by none, a thread has one implicit producer as long as it
   lives and each of its slots leads to it, and the flag is set exactly while one thread
   allocates the next table. *)
THEOREM OneProducerEach ==
  ASSUME Hashed
  PROVE  Producers!Spec => []SearchLeadsToOne
<1>1. Producers!Init => ProducersInv
  BY ProducersStart
<1>2. ProducersInv /\ [Producers!Next]_Producers!vars => ProducersInv'
  BY ProducersStep
<1>3. ProducersInv => SearchLeadsToOne
  BY OneProducer DEF SearchLeadsToOne, Producers!SearchLeadsToOne
<1> QED BY <1>1, <1>2, <1>3, PTL DEF Producers!Spec
=============================================================================
