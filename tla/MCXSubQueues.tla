---------------------------- MODULE MCXSubQueues ----------------------------
(***************************************************************************)
(* An instance of XExplicitProducer beside one of XImplicitProducer, with  *)
(* which it does not interact: in each behaviour one of the two, the part, *)
(* takes its steps, and the other stays where it began.                    *)
(***************************************************************************)
EXTENDS MCXExplicitProducer

CONSTANT ImplicitBlocks    \* the blocks of XImplicitProducer

VARIABLES
  part,
  tail, head, optimistic, overcommit, entries, headers, lastBlock, dequeuedCompletely, contents,
    free, throws, enqueues, enqueue, dequeue

implicitVars == <<tail, head, optimistic, overcommit, entries, headers, lastBlock, dequeuedCompletely,
    contents, free, throws, enqueues, enqueue, dequeue>>

Implicit == INSTANCE XImplicitProducer WITH
  Blocks <- ImplicitBlocks,
  tailIndex <- tail, headIndex <- head, dequeueOptimisticCount <- optimistic,
  dequeueOvercommit <- overcommit, tailBlock <- lastBlock,
  elementsCompletelyDequeued <- dequeuedCompletely, elements <- contents, mayThrow <- throws,
  calls <- enqueues, call <- enqueue, deq <- dequeue

-----------------------------------------------------------------------------
(* The part that takes no steps begins in one of its initial states.  Of the
   queues of an implicit producer the old one has elements whose constructor may throw. *)
PartsInit ==
  /\ part \in {"explicit", "implicit"} /\ Init /\ Implicit!Init /\ (tail > 0 <=> throws)
  /\ part = "explicit" => tail = 0 /\ entries = <<>> /\ ~throws
  /\ part = "implicit" => tailIndex = 0 /\ indexSize = InitialIndexSize /\ ~mayThrow

PartsNext ==
  \/ part = "explicit" /\ Next /\ UNCHANGED <<part, implicitVars>>
  \/ part = "implicit" /\ Implicit!Next /\ UNCHANGED <<part, vars>>

PartsSpec == PartsInit /\ [][PartsNext]_<<part, vars, implicitVars>>

(* all that is claimed of consumers and blocks is the same for each of them *)
Symmetry == ConsumerSymmetry \cup Permutations(ImplicitBlocks)

-----------------------------------------------------------------------------
(* When nobody uses the queue of an implicit producer, each block of it was given back, or has an
   element or a slot for the next one. *)
BlocksGivenBack == Implicit!BlocksGivenBack
(* Nobody writes into a block that is on the free list. *)
FreeBlocksUntouched == Implicit!FreeBlocksUntouched
(* Read through the index, the blocks of either producer are a queue: ImplementsQueue of both, with
   [Next]_vars written so that TLC tries a stuttering step first. *)
BothImplementQueue ==
  /\ Abstract!Init /\ Implicit!Abstract!Init
  /\ [][part = "explicit" => UNCHANGED Abstract!vars \/ Abstract!Next]_<<part, vars>>
  /\ [][part = "implicit" => UNCHANGED Implicit!Abstract!vars \/ Implicit!Abstract!Next]_<<part, implicitVars>>
=============================================================================
