------------------------------ MODULE MCXParts ------------------------------
(***************************************************************************)
(* Small instances of XThreadPool and of the components of XParts.  They   *)
(* do not interact here: in each behaviour one of them, the part, takes    *)
(* its steps from its initial states, and the others stay where they       *)
(* began.                                                                  *)
(***************************************************************************)
EXTENDS XThreadPool, XParts, TLC

CONSTANTS
  c1,                   \* the thread that uses the pool
  r1, r2, s1, s2        \* threads that register signals, and the signals

VARIABLE part

OneOwner == c1 :> {"join", "start", "stop", "set", "destroy"}

OwnerOfSignal == s1 :> r1 @@ s2 :> r2

(* one signal of each kind *)
CrashOrder == <<"segv", "abrt", "term">>

-----------------------------------------------------------------------------
(* A part that takes no steps begins in one of its initial states. *)
PartsInit ==
  /\ part \in {"pool", "files", "crash", "system", "ring", "semaphore"}
  /\ Init /\ (part # "pool" => m_mode = "FIXED" /\ m_threadsSizeThreshold = 1 /\ m_tasksSizeThreshold = 1)
  /\ Ring!Init /\ (part # "ring" => newest = <<>> /\ m_buffer_ = [i \in 0..(N - 1) |-> 0])
  /\ Semaphore!Init /\ (part # "semaphore" => desired = 0)
  /\ Crash!Init /\ (part # "crash" => m_crash_handler_ = FALSE)
  /\ LogFile!Init /\ System!Init

Is(p) == part = p /\ UNCHANGED part

(* a process may write no more or be ended by a signal, and a thread may wait for ever for a pipe
   with room or for a permit *)
Stops ==
  /\ part \in {"files", "crash", "system", "semaphore"}
  /\ UNCHANGED <<part, vars, fileVars, crashVars, systemVars, ringVars, semaphoreVars>>

PartsNext ==
  \/ Is("pool") /\ Next
       /\ UNCHANGED <<fileVars, crashVars, systemVars, ringVars, semaphoreVars>>
  \/ Is("files") /\ LogFile!Next
       /\ UNCHANGED <<vars, crashVars, systemVars, ringVars, semaphoreVars>>
  \/ Is("crash") /\ Crash!Next
       /\ UNCHANGED <<vars, fileVars, systemVars, ringVars, semaphoreVars>>
  \/ Is("system") /\ System!Next
       /\ UNCHANGED <<vars, fileVars, crashVars, ringVars, semaphoreVars>>
  \/ Is("ring") /\ Ring!Next
       /\ UNCHANGED <<vars, fileVars, crashVars, systemVars, semaphoreVars>>
  \/ Is("semaphore") /\ Semaphore!Next
       /\ UNCHANGED <<vars, fileVars, crashVars, systemVars, ringVars>>
  \/ Stops

PartsSpec ==
  PartsInit
    /\ [][PartsNext]_<<part, vars, fileVars, crashVars, systemVars, ringVars, semaphoreVars>>
=============================================================================
