------------------------------ MODULE XDispatch ------------------------------
(***************************************************************************)
(* Which producer a dequeue of the lock-free queue takes its elements from *)
(* (xconcurrentqueue.hpp), and the count that XConcurrentQueueProxy keeps  *)
(* beside the queue (xconcurrentqueueproxy.hpp).                           *)
(*                                                                         *)
(* Producers are numbered as they enter the list; the next of p is p - 1.  *)
(* Of the queue of a producer only the number of its elements matters, and *)
(* how consumers claim them: first the optimistic count is raised, and a   *)
(* consumer that has claimed too much gives back the rest, meanwhile       *)
(* others find less than there is (XExplicitProducer, XImplicitProducer).  *)
(***************************************************************************)
EXTENDS Integers, FiniteSetsExt, SequencesExt, Functions

CONSTANTS
  Consumers,
  MaxProducers, MaxElements, MaxCalls,   \* bounds: of producers, of elements ever, of calls of all consumers
  Batches,       \* the numbers of elements that are enqueued, or asked for in bulk
  ScanLimit,     \* non-empty producers that try_dequeue compares: 3
  Quota,         \* EXPLICIT_CONSUMER_CONSUMPTION_QUOTA_BEFORE_ROTATE
  CountMod       \* 2^w: the range of m_count and of the offsets

VARIABLES
  listed,        \* producers in the list: producerListTail
  producerCount,
  size,          \* by producer: elements nobody has claimed
  excess,        \* by producer: what consumers have claimed too much
  behind,        \* by producer: elements claimed that headIndex does not show yet
  enqueuing,     \* by producer: elements enqueued that m_count does not show yet
  entered,       \* elements ever enqueued
  m_count,
  globalExplicitConsumerOffset, nextExplicitConsumerId,
  token,         \* the consumer token of each consumer
  consumer,      \* what each consumer is doing
  dispatched     \* calls

listVars == <<listed, producerCount>>
elementVars == <<size, excess, behind, enqueuing, entered>>
tokenVars == <<globalExplicitConsumerOffset, nextExplicitConsumerId, token>>
vars == <<listVars, elementVars, tokenVars, m_count, consumer, dispatched>>

None == 0
Idle == [pc |-> "idle"]
Producers == 1..MaxProducers
NoToken == [initialOffset |-> -1]

Init ==
  /\ listed = 0 /\ producerCount = 0
  /\ size = [p \in Producers |-> 0] /\ excess = size /\ behind = size /\ enqueuing = size
  /\ entered = 0 /\ m_count = 0
  /\ globalExplicitConsumerOffset = 0 /\ nextExplicitConsumerId = 0
  /\ token = [c \in Consumers |-> NoToken] /\ consumer = [c \in Consumers |-> Idle]
  /\ dispatched = 0

At(c, pc) == consumer[c].pc = pc
Become(c, state) == consumer' = [consumer EXCEPT ![c] = state]

-----------------------------------------------------------------------------
(* add_producer: the count, then the list *)
CountProducer ==
  /\ producerCount < MaxProducers /\ producerCount' = producerCount + 1
  /\ UNCHANGED <<listed, elementVars, tokenVars, m_count, consumer, dispatched>>

LinkProducer ==
  /\ listed < producerCount /\ listed' = listed + 1
  /\ UNCHANGED <<producerCount, elementVars, tokenVars, m_count, consumer, dispatched>>

(* enqueue, try_enqueue and their bulk forms of the proxy: the queue, then the count *)
Enqueue(p, n) ==
  /\ p <= listed /\ enqueuing[p] = 0 /\ entered + n <= MaxElements
  /\ size' = [size EXCEPT ![p] = @ + n] /\ enqueuing' = [enqueuing EXCEPT ![p] = n]
  /\ entered' = entered + n
  /\ UNCHANGED <<listVars, excess, behind, tokenVars, m_count, consumer, dispatched>>

CountEnqueued(p) ==
  /\ enqueuing[p] > 0
  /\ m_count' = (m_count + enqueuing[p]) % CountMod /\ enqueuing' = [enqueuing EXCEPT ![p] = 0]
  /\ UNCHANGED <<listVars, size, excess, behind, entered, tokenVars, consumer, dispatched>>

-----------------------------------------------------------------------------
(* the producers from p down the list, then from its tail: all but p *)
Downwards(from, to) == [i \in 1..(from - to + 1) |-> from - i + 1]

(* mutant: from the last producer the walk does not go on with the tail *)
ToTheEnd(p, tail) == Downwards(p - 1, 1)
Around(p, tail) == Downwards(p - 1, 1) \o Downwards(tail, p + 1)

(* A call begins: the producers to visit are known from the tail it has loaded. *)
Visiting(stage, walk, max) ==
  [pc |-> IF walk = <<>> THEN "done" ELSE "check", stage |-> stage, walk |-> walk, max |-> max, single |-> FALSE,
   tail |-> listed, asked |-> 0, got |-> 0, count |-> 0, first |-> listed, empty |-> {}]

Call(c, state) ==
  /\ At(c, "idle") /\ dispatched < MaxCalls /\ dispatched' = dispatched + 1
  /\ Become(c, state)
  /\ UNCHANGED <<listVars, elementVars, m_count>>

(* try_dequeue: compare the first producers that are not empty *)
TryDequeue(c) ==
  /\ Call(c, [pc |-> "scan", ptr |-> listed, best |-> None, bestSize |-> 0, nonEmpty |-> 0,
              first |-> listed, empty |-> {}])
  /\ UNCHANGED tokenVars

Scan(c) ==
  /\ At(c, "scan") /\ consumer[c].ptr # None /\ consumer[c].nonEmpty < ScanLimit
  /\ LET d == consumer[c]
         size_approx == size[d.ptr] + behind[d.ptr]
         next == [d EXCEPT !.ptr = @ - 1]
     IN  Become(c, IF size_approx = 0 THEN [next EXCEPT !.empty = @ \cup {d.ptr}]
                   ELSE IF size_approx > d.bestSize
                   THEN [next EXCEPT !.nonEmpty = @ + 1, !.best = d.ptr, !.bestSize = size_approx]
                   ELSE [next EXCEPT !.nonEmpty = @ + 1])
  /\ UNCHANGED <<listVars, elementVars, tokenVars, m_count, dispatched>>

Scanned(c) ==
  /\ At(c, "scan") /\ (consumer[c].ptr = None \/ consumer[c].nonEmpty = ScanLimit)
  /\ LET d == consumer[c] IN
       Become(c, [Visiting("best", IF d.nonEmpty = 0 THEN <<>> ELSE <<d.best>>, 1)
                    EXCEPT !.first = d.first, !.empty = d.empty])
  /\ UNCHANGED <<listVars, elementVars, tokenVars, m_count, dispatched>>

(* try_dequeue_non_interleaved and try_dequeue_bulk: all producers in turn *)
TryDequeueAll(c, max) ==
  Call(c, Visiting("all", Downwards(listed, 1), max)) /\ UNCHANGED tokenVars

(* try_dequeue_from_producer and its bulk form *)
TryDequeueFrom(c, p, max) ==
  p <= listed /\ Call(c, Visiting("from", <<p>>, max)) /\ UNCHANGED tokenVars

-----------------------------------------------------------------------------
CreateToken(c) ==
  /\ At(c, "idle") /\ token[c] = NoToken
  /\ token' = [token EXCEPT ![c] =
                 [initialOffset |-> nextExplicitConsumerId, lastKnown |-> CountMod - 1, items |-> 0,
                  current |-> None, desired |-> None, counts |-> {}]]
  /\ nextExplicitConsumerId' = nextExplicitConsumerId + 1
  /\ UNCHANGED <<listVars, elementVars, m_count, globalExplicitConsumerOffset, consumer, dispatched>>

(* try_dequeue and try_dequeue_bulk with a token: where it is, or where a rotation sends it *)
TryDequeueToken(c, max, single) ==
  /\ token[c] # NoToken
  /\ LET k == token[c] IN
       Call(c, IF k.desired = None \/ k.lastKnown # globalExplicitConsumerOffset
               THEN [Visiting("current", <<>>, max) EXCEPT !.pc = "rotate", !.single = single]
               ELSE [Visiting("current", <<k.current>>, max) EXCEPT !.single = single])
  /\ UNCHANGED tokenVars

(* k steps down the list from p, round its end *)
Steps(p, k, tail) == ((p - 1 - k) % tail) + 1

(* mutant: one rotation is one step, however many were missed *)
MissedOne(k) == IF globalExplicitConsumerOffset = k.lastKnown THEN 0 ELSE 1
Missed(k) == (globalExplicitConsumerOffset - k.lastKnown) % CountMod

(* whole rounds are left out, of as many producers as are counted *)
Delta(k) == IF Missed(k) >= producerCount THEN Missed(k) % producerCount ELSE Missed(k)

(* update_current_producer_after_rotation *)
Rotate(c) ==
  /\ At(c, "rotate")
  /\ LET k == token[c]
         start == IF k.desired # None THEN k.desired
                  ELSE Steps(listed, producerCount - 1 - (k.initialOffset % producerCount), listed)
         to == Steps(start, Delta(k), listed)
     IN  IF listed = 0
         THEN Become(c, [consumer[c] EXCEPT !.pc = "done"]) /\ UNCHANGED token
         ELSE /\ token' = [token EXCEPT ![c] =
                             [k EXCEPT !.lastKnown = globalExplicitConsumerOffset, !.current = to, !.desired = to,
                                       !.items = 0, !.counts = @ \cup {listed, producerCount}]]
              /\ Become(c, [consumer[c] EXCEPT !.pc = "check", !.walk = <<to>>])
  /\ UNCHANGED <<listVars, elementVars, m_count, globalExplicitConsumerOffset, nextExplicitConsumerId, dispatched>>

-----------------------------------------------------------------------------
(* The visit of a producer has given got elements. *)
Full(c, got) == consumer[c].count + got = consumer[c].max

(* the producers still to visit *)
Remaining(c, got) ==
  LET d == consumer[c]
      p == Head(d.walk)
  IN  CASE d.stage = "best" -> Downwards(listed, p + 1) \o Downwards(p - 1, 1)
        [] d.stage = "current" -> Around(p, listed)
        [] d.stage = "round" /\ got > 0 -> Around(p, d.tail)
        [] OTHER -> Tail(d.walk)

(* A call that is over keeps what it returns and, if that is nothing, what it saw. *)
Returning(d) ==
  [d EXCEPT !.stage = IF @ = "from" THEN @ ELSE "all", !.max = 1, !.single = FALSE, !.tail = 0,
            !.first = IF d.count = 0 THEN @ ELSE 0, !.empty = IF d.count = 0 THEN @ ELSE {}]

Visited(c, got) ==
  LET d == consumer[c]
      walk == IF Full(c, got) THEN <<>> ELSE Remaining(c, got)
      visited ==
        [d EXCEPT !.pc = IF walk = <<>> THEN "done" ELSE "check", !.walk = walk,
                  !.stage = CASE @ = "best" -> "others" [] @ = "current" -> "round" [] OTHER -> @,
                  !.tail = IF d.stage = "current" THEN listed ELSE @,
                  !.count = @ + got, !.asked = 0, !.got = 0,
                  !.empty = IF got = 0 THEN @ \cup {Head(d.walk)} ELSE @]
  IN  IF walk = <<>> THEN Returning(visited) ELSE visited

(* the quota of a token counts what it got from the producer it is with *)
TokenVisited(c, got) ==
  LET k == token[c]
      items == k.items + got
  IN  /\ token' = CASE consumer[c].stage = "current" -> [token EXCEPT ![c].items = items]
                    [] consumer[c].stage = "round" /\ got > 0 ->
                         [token EXCEPT ![c].current = Head(consumer[c].walk), ![c].items = got]
                    [] OTHER -> token
      /\ globalExplicitConsumerOffset' =
           IF consumer[c].stage = "current" /\ Full(c, got)
                /\ (IF consumer[c].single THEN items = Quota ELSE items >= Quota)
           THEN (globalExplicitConsumerOffset + 1) % CountMod ELSE globalExplicitConsumerOffset
      /\ UNCHANGED nextExplicitConsumerId

(* dequeue, dequeue_bulk of a producer: what it seems to have, *)
Check(c) ==
  /\ At(c, "check")
  /\ LET d == consumer[c]
         p == Head(d.walk)
         seen == Min({d.max - d.count, size[p] - excess[p]})
     IN  IF seen > 0
         THEN Become(c, [d EXCEPT !.pc = "claim", !.asked = seen]) /\ UNCHANGED tokenVars
         ELSE Become(c, Visited(c, 0)) /\ TokenVisited(c, 0)
  /\ UNCHANGED <<listVars, elementVars, m_count, dispatched>>

(* what of it others have left, *)
Claim(c) ==
  /\ At(c, "claim")
  /\ LET d == consumer[c]
         p == Head(d.walk)
         got == Max({0, Min({d.asked, size[p] - excess[p]})})
     IN  /\ size' = [size EXCEPT ![p] = @ - got] /\ behind' = [behind EXCEPT ![p] = @ + got]
         /\ excess' = [excess EXCEPT ![p] = @ + d.asked - got]
         /\ Become(c, [d EXCEPT !.pc = "settle", !.got = got])
  /\ UNCHANGED <<listVars, enqueuing, entered, tokenVars, m_count, dispatched>>

(* and the counts corrected *)
Settle(c) ==
  /\ At(c, "settle")
  /\ LET d == consumer[c]
         p == Head(d.walk)
     IN  /\ excess' = [excess EXCEPT ![p] = @ - (d.asked - d.got)]
         /\ behind' = [behind EXCEPT ![p] = @ - d.got]
         /\ Become(c, Visited(c, d.got)) /\ TokenVisited(c, d.got)
  /\ UNCHANGED <<listVars, size, enqueuing, entered, m_count, dispatched>>

(* the proxy takes what the queue returned off its count *)
CountDequeued(c) ==
  /\ At(c, "done")
  /\ m_count' = (m_count - consumer[c].count) % CountMod
  /\ Become(c, Idle)
  /\ UNCHANGED <<listVars, elementVars, tokenVars, dispatched>>

-----------------------------------------------------------------------------
Calls(c) ==
  \/ TryDequeue(c) \/ TryDequeueAll(c, 1) \/ CreateToken(c) \/ TryDequeueToken(c, 1, TRUE)
  \/ \E max \in Batches : TryDequeueAll(c, max) \/ TryDequeueToken(c, max, FALSE)
  \/ \E p \in Producers, max \in Batches : TryDequeueFrom(c, p, max)

Step(c) ==
  Scan(c) \/ Scanned(c) \/ Rotate(c) \/ Check(c) \/ Claim(c) \/ Settle(c) \/ CountDequeued(c)

Produce ==
  \/ CountProducer \/ LinkProducer
  \/ \E p \in Producers : CountEnqueued(p) \/ \E n \in Batches : Enqueue(p, n)

Quiet == (\A c \in Consumers : At(c, "idle")) /\ (\A p \in Producers : enqueuing[p] = 0)

Finished == Quiet /\ dispatched = MaxCalls /\ UNCHANGED vars

Next == Produce \/ (\E c \in Consumers : Calls(c) \/ Step(c)) \/ Finished

Spec == Init /\ [][Next]_vars

-----------------------------------------------------------------------------
(* Properties *)

(* A dequeue from the whole queue comes back with nothing only when every producer that was
   there when it began seemed empty when it was visited, in whatever order they are tried and
   however the others move elements meanwhile. *)
AllSeenEmpty ==
  \A c \in Consumers : At(c, "done") =>
    LET d == consumer[c] IN
      (d.count = 0 /\ d.stage # "from") => 1..d.first \subseteq d.empty

(* The count of the proxy is the number of elements, whatever wrapped below zero on the way:
   what the calls under way have still to add or to take off makes up the difference. *)
CountBalances ==
  m_count = (MapThenSumSet(LAMBDA p : size[p] - enqueuing[p], Producers)
             + MapThenSumSet(LAMBDA c : IF At(c, "idle") \/ At(c, "scan") THEN 0
                                        ELSE consumer[c].count + consumer[c].got, Consumers)) % CountMod

ReportsTruly == AllSeenEmpty /\ CountBalances

(* Tokens that know of the same rotations are spread over the producers as their offsets are,
   as long as there are no new producers, however many rotations each of them has missed. *)
SpreadOut ==
  \A c, e \in {x \in Consumers : token[x] # NoToken} :
    LET k == token[c]
        l == token[e]
    IN  \A n \in Producers :
          (k.counts = {n} /\ l.counts = {n} /\ k.lastKnown = l.lastKnown) =>
            (k.desired = l.desired <=> k.initialOffset % n = l.initialOffset % n)
=============================================================================
