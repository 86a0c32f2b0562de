---------------------------- MODULE MCXOwnership ----------------------------
(***************************************************************************)
(* Small instances of the components whose properties say who owns what:   *)
(* the result of a run (XResult), the producers of a queue (XTokens) and   *)
(* those of XOwnership.  They do not interact here: in each behaviour one  *)
(* of them, the part, takes its steps from its initial states, and the     *)
(* others stay where they began.                                           *)
(***************************************************************************)
EXTENDS XResult, XOwnership, XTokens, TLC

CONSTANTS
  c1, c2, w1, w2, w3, p1, p2,   \* clients, workers and pools of XResult
  t1, t2, t3,                   \* threads of XProducers
  u1, u2                        \* two threads of XBlockPool

VARIABLE part

TwoPoolsOf == w1 :> p1 @@ w2 :> p1 @@ w3 :> p2
Everything == [c \in Clients |-> {"join", "get", "try_get", "get_for", "get_until"}]

(* two threads whose ids collide in the hash tables, and a third *)
Colliding == t1 :> 0 @@ t2 :> 0 @@ t3 :> 1

-----------------------------------------------------------------------------
(* A part that takes no steps begins in one of its initial states. *)
PartsInit ==
  /\ part \in {"result", "producers", "blocks", "queue", "weak", "memory"}
  /\ Init /\ (part # "blocks" => initialBlockPoolSize = 0)
  /\ ResultInit /\ Producers!Init /\ Queue!Init /\ Weak!Init /\ Memory!Init

Is(p) == part = p /\ UNCHANGED part

(* a second result() may block for ever; queues need not be moved, nor pointers used for ever *)
Stops ==
  /\ part \in {"result", "queue", "weak", "memory"}
  /\ UNCHANGED <<part, resultVars, producersVars, vars, queueVars, weakVars, memoryVars>>

PartsNext ==
  \/ Is("result") /\ ResultNext
       /\ UNCHANGED <<producersVars, vars, queueVars, weakVars, memoryVars>>
  \/ Is("producers") /\ Producers!Next
       /\ UNCHANGED <<resultVars, vars, queueVars, weakVars, memoryVars>>
  \/ Is("blocks") /\ Next
       /\ UNCHANGED <<resultVars, producersVars, queueVars, weakVars, memoryVars>>
  \/ Is("queue") /\ Queue!Next
       /\ UNCHANGED <<resultVars, producersVars, vars, weakVars, memoryVars>>
  \/ Is("weak") /\ Weak!Next
       /\ UNCHANGED <<resultVars, producersVars, vars, queueVars, memoryVars>>
  \/ Is("memory") /\ Memory!Next
       /\ UNCHANGED <<resultVars, producersVars, vars, queueVars, weakVars>>
  \/ Stops

PartsSpec ==
  PartsInit
    /\ [][PartsNext]_<<part, resultVars, producersVars, vars, queueVars, weakVars, memoryVars>>

(* The two clients are alike, and so are the workers of one pool, the threads that collide and two
   threads that take blocks; these belong to different parts and are exchanged together. *)
Exchange(a, b) == a :> b @@ b :> a
Symmetry ==
  Permutations({c1, c2}) \cup {Exchange(w1, w2) @@ Exchange(t1, t2) @@ Exchange(u1, u2)}
=============================================================================
