------------------------------ MODULE MCXObject ------------------------------
(***************************************************************************)
(* Small instances of XObject and of XDispatch (XChoice).  They do not     *)
(* interact: in each behaviour one of the two, the part, takes its steps,  *)
(* and the other stays where it began.                                     *)
(***************************************************************************)
EXTENDS XObject, XChoice, TLC

CONSTANTS e1, e2    \* threads that use objects

VARIABLE part

(* e1 emits, and does everything in its slots and outside them; e2 changes the connections
   meanwhile. *)
OneEmitter ==
  e1 :> {"connect", "disconnect", "emit", "block", "destroy"}
    @@ e2 :> {"connect", "disconnect"}

-----------------------------------------------------------------------------
(* Objects that take no steps begin with one mutex. *)
PartsInit ==
  /\ part \in {"objects", "dispatch"} /\ Init /\ Dispatch!Init
  /\ part # "objects" => lockOf = [o \in Objects |-> 0]

PartsNext ==
  \/ part = "objects" /\ Next /\ UNCHANGED <<part, dispatchVars>>
  \/ part = "dispatch" /\ Dispatch!Next /\ UNCHANGED <<part, vars>>

PartsSpec == PartsInit /\ [][PartsNext]_<<part, vars, dispatchVars>>

(* all that is claimed of objects and of consumers is the same for each of them *)
Symmetry == Permutations(Objects) \cup Permutations(Dequeuers)
=============================================================================
