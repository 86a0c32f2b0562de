------------------------------ MODULE XTokens ------------------------------
(***************************************************************************)
(* The producers of a queue and who enqueues through them (XProducers)     *)
(* under names that the other modules do not have, so that they can stand  *)
(* beside them.                                                            *)
(***************************************************************************)
EXTENDS Naturals, Sequences, FiniteSets

CONSTANTS
  Enqueuers,       \* the Threads of XProducers
  HashOf, InitialSize, MaxProducers,
  MaxHashes,       \* its MaxTables
  MaxEnqueues      \* its MaxCalls

VARIABLES
  producerList,
  producersCreated,   \* its producerCount
  tables, hashCount, resizing, listeners, thread,
  tokenOf,            \* its token
  enqueues,           \* its calls
  holders

producersVars == <<producerList, producersCreated, tables, hashCount, resizing, listeners, thread, tokenOf,
    enqueues, holders>>

Producers == INSTANCE XProducers WITH
  Threads <- Enqueuers, MaxTables <- MaxHashes, MaxCalls <- MaxEnqueues,
  producerCount <- producersCreated, token <- tokenOf, calls <- enqueues

-----------------------------------------------------------------------------
(* A producer is found and used by its one owner, whatever is recycled and however the tables
   grow. *)
SearchLeadsToOne == Producers!SearchLeadsToOne
=============================================================================
