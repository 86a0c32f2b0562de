---------------------------- MODULE MCXProducers ----------------------------
(***************************************************************************)
(* One behaviour of XProducers, step by step: threads whose ids have the   *)
(* same hash and two tables, the first of InitialSize slots.  Threads that *)
(* were told to use the first table are slow to insert themselves, and at  *)
(* the end the second one has no empty slot.                               *)
(***************************************************************************)
EXTENDS XProducers, TLC

Half == InitialSize \div 2
MayEnter == Half + InitialSize \div 4  \* counts below are admitted to the first table

Named(letter, n) == [i \in 1..n |-> letter \o ToString(i)]
Slow == Named("s", MayEnter - 2)       \* they are counted with 2..MayEnter - 1
Fresh == Named("n", MayEnter - 2)      \* new threads: each takes a slot that a slow one leaves
Soon == Named("e", InitialSize - 2)    \* they find the second table less than half full
Late == Named("l", InitialSize + 1 - Len(Slow))
Ids == {"a", "b", "g"} \cup Range(Slow) \cup Range(Fresh) \cup Range(Soon) \cup Range(Late)
SameHash == [t \in Ids |-> 0]

-----------------------------------------------------------------------------
(* Each entry names a thread and how far it goes; a thread that is idle makes a call first. *)
All(ts, pc) == [i \in DOMAIN ts |-> <<ts[i], pc>>]
Gets(t) == <<<<t, "idle">>>>                    \* get_or_add_implicit_producer
Ends(t) == <<<<t, "exit">>, <<t, "idle">>>>     \* the thread ends

(* the slow ones are to insert themselves into the first table, b doubles it and takes the slot
   that a leaves in the second one *)
Doubling ==
  Gets("a") \o All(Slow, "full") \o <<<<"b", "grown">>>> \o All(Slow, "recycle") \o <<<<"b", "recycle">>>>
    \o Gets("a") \o Ends("a") \o Gets("b")

(* each of the slow ones takes the slot of the one before it in the first table and is counted no
   more; it is copied into the second one and ends, and the slot it leaves there is taken too *)
Uncounted ==
  FlattenSeq([i \in DOMAIN Slow |-> Gets(Slow[i]) \o Gets(Slow[i]) \o Ends(Slow[i]) \o Gets(Fresh[i])])

(* Len(Slow) + 1 slots are used and one is counted.  While g is about to allocate the next table, the
   last ones are admitted. *)
Filling == All(Soon, "idle") \o All(Late, "full") \o <<<<"g", "resize">>>> \o All(Late, "idle")

Schedule == Doubling \o Uncounted \o Filling

VARIABLE turn    \* the entry

Goes(t, pc) ==
  /\ IF At(t, "idle") /\ pc = "exit" THEN Exit(t) ELSE GetCall(t) \/ Step(t)
  /\ ~CreateFails(t) /\ ~GrowFails(t)
  /\ turn' = IF thread'[t].pc = pc THEN turn + 1 ELSE turn

Scheduled == turn \in DOMAIN Schedule /\ Goes(Schedule[turn][1], Schedule[turn][2])

ScheduleSpec == Init /\ turn = 1 /\ [][Scheduled]_<<vars, turn>>
=============================================================================
