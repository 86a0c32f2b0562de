----------------------------- MODULE XSubQueue -----------------------------
(***************************************************************************)
(* What the queue of one producer promises: elements leave in the order in *)
(* which they entered, each goes to one consumer, and a consumer that has  *)
(* claimed elements gets exactly those, whenever it comes to move them.    *)
(***************************************************************************)
EXTENDS Naturals, SequencesExt

CONSTANTS Consumers, Elements

VARIABLES
  queue,    \* elements that nobody has claimed
  taken     \* by consumer, elements claimed and not yet moved

vars == <<queue, taken>>

Present == ToSet(queue) \cup UNION {ToSet(taken[c]) : c \in Consumers}

Init == queue = <<>> /\ taken = [c \in Consumers |-> <<>>]

(* one or more elements enter; they are told apart from all that are there *)
Put ==
  /\ Len(queue) < Len(queue') /\ UNCHANGED taken
  /\ IsPrefix(queue, queue')
  /\ LET new == SubSeq(queue', Len(queue) + 1, Len(queue'))
     IN  IsInjective(new) /\ ToSet(new) \subseteq Elements \ Present

Claim(c) ==
  /\ taken[c] = <<>> /\ taken'[c] # <<>>
  /\ queue = taken'[c] \o queue'
  /\ taken' = [taken EXCEPT ![c] = taken'[c]]

Move(c) ==
  /\ taken[c] # <<>> /\ Len(taken'[c]) < Len(taken[c])
  /\ taken' = [taken EXCEPT ![c] = SubSeq(@, Len(@) - Len(taken'[c]) + 1, Len(@))]
  /\ UNCHANGED queue

(* the queue goes with what is left in it *)
Destroy ==
  /\ queue' = <<>> /\ UNCHANGED taken
  /\ \A c \in Consumers : taken[c] = <<>>

Next == Put \/ Destroy \/ \E c \in Consumers : Claim(c) \/ Move(c)

Spec == Init /\ [][Next]_vars
=============================================================================
