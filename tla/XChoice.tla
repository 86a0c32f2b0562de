------------------------------- MODULE XChoice -------------------------------
(***************************************************************************)
(* The choice of a producer (XDispatch) under names that the other modules *)
(* of the queue do not have, so that it can stand beside them.             *)
(***************************************************************************)
EXTENDS Naturals, Sequences, FiniteSets

CONSTANTS
  Dequeuers,       \* the Consumers of XDispatch
  MaxProducers, MaxElements,
  MaxDispatched,   \* its MaxCalls
  Batches, ScanLimit, Quota, CountMod

VARIABLES
  listed, producerCount,
  unclaimed,       \* its size
  excess, behind, enqueuing, entered,
  proxyCount,      \* its m_count
  globalExplicitConsumerOffset, nextExplicitConsumerId, token, consumer, dispatched

dispatchVars == <<listed, producerCount, unclaimed, excess, behind, enqueuing, entered, proxyCount,
    globalExplicitConsumerOffset, nextExplicitConsumerId, token, consumer, dispatched>>

Dispatch == INSTANCE XDispatch WITH
  Consumers <- Dequeuers, MaxCalls <- MaxDispatched, size <- unclaimed, m_count <- proxyCount

-----------------------------------------------------------------------------
(* A dequeue returns nothing only when it saw every producer empty, and the count of the proxy
   is the number of elements but for the calls under way. *)
ReportsTruly == Dispatch!ReportsTruly
(* Consumer tokens stay spread over the producers through all rotations. *)
SpreadOut == Dispatch!SpreadOut
=============================================================================
