------------------------------ MODULE XSignal ------------------------------
(***************************************************************************)
(* Signals of the operating system (Unix/XSignal).                         *)
(*                                                                         *)
(* The handler the system calls only writes the signal into a pipe; the    *)
(* thread of SignalAsynchronously reads it, looks for the object that is   *)
(* registered for it and calls its function.  An object that is            *)
(* unregistered is kept in m_orphanSignals_ until the program ends: the    *)
(* thread may be calling it, and callHandler then writes its m_sig again.  *)
(*                                                                         *)
(* Each signal is registered by one thread, and unregister() is called     *)
(* once for an object: two threads that register the same signal both find *)
(* it free.  A step under sm_mtx_ is one step; m_mtx_ is held within one.  *)
(***************************************************************************)
EXTENDS Naturals, SequencesExt

CONSTANTS
  Clients,      \* threads that register
  Signals,
  OwnerOf,      \* the thread that registers a signal
  MaxObjects,   \* objects constructed by all of them
  MaxRaises,    \* signals raised
  PipeSize      \* signals the pipe has room for

None == 0

VARIABLES
  action,           \* of a signal: SIG_DFL or signalHandler
  async,            \* m_async_: the handler writes, unless it is null
  phase,            \* the static objects: unless "running", the program ends
  handlers,         \* m_signalHandlerMap_
  orphans,          \* m_orphanSignals_
  objects,          \* the XSignal objects: m_sig, and does its user have a pointer to it?
  pipe, raises,
  reader,           \* the thread of SignalAsynchronously
  client            \* what each thread is doing

tables == <<handlers, orphans>>
vars == <<action, async, phase, tables, objects, pipe, raises, reader, client>>

Idle == [pc |-> "idle"]
Waiting(pc) == [pc |-> pc, sig |-> None, ptr |-> None]

Init ==
  /\ action = [s \in Signals |-> "default"] /\ async = FALSE /\ phase = "running"
  /\ handlers = [s \in Signals |-> None] /\ orphans = {}
  /\ objects = <<>> /\ pipe = <<>> /\ raises = 0
  /\ reader = Waiting("none") /\ client = [c \in Clients |-> Idle]

New == Len(objects) + 1

(* unregisterHelper: the default action again, unless m_sig says it was unregistered before *)
Reset(sig) == [s \in Signals |-> IF s = sig THEN "default" ELSE action[s]]
Unset(o) == [objects EXCEPT ![o].sig = None]

(* the last pointer to an object goes: its destructor unregisters it *)
Kept(o, map, others, user) == user \/ o \in others \/ \E s \in Signals : map[s] = o
Release(o, map, others, user) ==
  IF Kept(o, map, others, user) THEN UNCHANGED action ELSE action' = Reset(objects[o].sig)

-----------------------------------------------------------------------------
(* Register: first the action of the system, under the lock if there is a map to look into *)

Installed(c, sig) ==
  /\ client[c].pc = "idle" /\ phase = "running" /\ OwnerOf[sig] = c /\ New <= MaxObjects /\ async
  /\ handlers[sig] = None      \* otherwise no object
  /\ action' = [action EXCEPT ![sig] = "handler"]
  /\ objects' = Append(objects, [sig |-> sig, user |-> TRUE])
  /\ client' = [client EXCEPT ![c] = [pc |-> "callable", object |-> New]]
  /\ UNCHANGED <<async, phase, tables, pipe, raises, reader>>

(* m_async_ was null, and the lock is given up *)
Unlocked(c, sig) ==
  /\ client[c].pc = "idle" /\ phase = "running" /\ OwnerOf[sig] = c /\ ~async
  /\ client' = [client EXCEPT ![c] = [pc |-> "install", sig |-> sig]]
  /\ UNCHANGED <<action, async, phase, tables, objects, pipe, raises, reader>>

Install(c) ==
  /\ client[c].pc = "install" /\ New <= MaxObjects
  /\ action' = [action EXCEPT ![client[c].sig] = "handler"]
  /\ objects' = Append(objects, [sig |-> client[c].sig, user |-> TRUE])
  /\ client' = [client EXCEPT ![c] = [pc |-> "callable", object |-> New]]
  /\ UNCHANGED <<async, phase, tables, pipe, raises, reader>>

(* no callable: no object either *)
CallableFails(c) ==
  /\ client[c].pc = "callable"
  /\ LET o == client[c].object IN
       /\ Release(o, handlers, orphans, FALSE)
       /\ objects' = [objects EXCEPT ![o] = [sig |-> None, user |-> FALSE]]
  /\ client' = [client EXCEPT ![c] = Idle]
  /\ UNCHANGED <<async, phase, tables, pipe, raises, reader>>

(* the first object that is registered starts the thread *)
Start(c) ==
  /\ client[c].pc = "callable"
  /\ async' = TRUE /\ reader' = IF async THEN reader ELSE Waiting("loop")
  /\ client' = [client EXCEPT ![c].pc = "add"]
  /\ UNCHANGED <<action, phase, tables, objects, pipe, raises>>

AddHandler(c) ==
  /\ client[c].pc = "add"
  /\ LET o == client[c].object
         sig == objects[o].sig
     IN  handlers' = [handlers EXCEPT ![sig] = IF @ = None THEN o ELSE @]
  /\ client' = [client EXCEPT ![c] = Idle]
  /\ UNCHANGED <<action, async, phase, orphans, objects, pipe, raises, reader>>

-----------------------------------------------------------------------------
(* XSignal::unregister: the action without the lock, then the map *)
Unregister(c, o) ==
  /\ client[c].pc = "idle" /\ phase = "running" /\ async
  /\ \E sig \in Signals : OwnerOf[sig] = c /\ handlers[sig] = o
  /\ action' = Reset(objects[o].sig) /\ objects' = Unset(o)
  /\ client' = [client EXCEPT ![c] = [pc |-> "remove", sig |-> objects[o].sig]]
  /\ UNCHANGED <<async, phase, tables, pipe, raises, reader>>

(* removeHandler *)
(* mutant: the object is not kept *)
ErasedOnly(o) == orphans
Orphaned(o) == orphans \cup {o}

Removed(sig, o) ==
  /\ handlers' = [handlers EXCEPT ![sig] = None]
  /\ orphans' = Orphaned(o)

RemoveHandler(c) ==
  /\ client[c].pc = "remove"
  /\ Removed(client[c].sig, handlers[client[c].sig])
  /\ client' = [client EXCEPT ![c] = Idle]
  /\ UNCHANGED <<action, async, phase, objects, pipe, raises, reader>>

(* the same for the object of a signal, all of it under the lock *)
SignalUnRegister(c, sig) ==
  /\ client[c].pc = "idle" /\ phase = "running" /\ OwnerOf[sig] = c /\ async
  /\ handlers[sig] # None
  /\ LET o == handlers[sig] IN action' = Reset(objects[o].sig) /\ objects' = Unset(o) /\ Removed(sig, o)
  /\ UNCHANGED <<async, phase, pipe, raises, reader, client>>

(* a user drops its pointer *)
Drop(c, o) ==
  /\ client[c].pc = "idle" /\ objects[o].user
  /\ \A b \in Clients : client[b].pc \in {"callable", "add"} => client[b].object # o
  /\ Release(o, handlers, orphans \cup {reader.ptr}, FALSE)
  /\ objects' = [objects EXCEPT ![o].user = FALSE]
  /\ UNCHANGED <<async, phase, tables, pipe, raises, reader, client>>

-----------------------------------------------------------------------------
(* signalHandler of the system, in any thread but the reader: it waits while the pipe is full *)
Raise(sig) ==
  /\ raises < MaxRaises /\ action[sig] = "handler"
  /\ async => Len(pipe) < PipeSize
  /\ pipe' = IF async THEN Append(pipe, sig) ELSE pipe
  /\ raises' = raises + 1
  /\ UNCHANGED <<action, async, phase, tables, objects, reader, client>>

(* signalHandler of the thread, wait and readAndCall *)
Loop ==
  /\ reader.pc = "loop"
  /\ reader' = Waiting(IF phase = "stopping" THEN "ended" ELSE "wait")
  /\ UNCHANGED <<action, async, phase, tables, objects, pipe, raises, client>>

Read ==
  /\ reader.pc = "wait"
  /\ IF pipe = <<>> THEN phase = "stopping" /\ reader' = Waiting("loop") /\ UNCHANGED pipe
     ELSE reader' = [pc |-> "find", sig |-> Head(pipe), ptr |-> None] /\ pipe' = Tail(pipe)
  /\ UNCHANGED <<action, async, phase, tables, objects, raises, client>>

FindHandler ==
  /\ reader.pc = "find"
  /\ LET o == handlers[reader.sig] IN
       reader' = IF o = None THEN Waiting("loop") ELSE [reader EXCEPT !.pc = "call", !.ptr = o]
  /\ UNCHANGED <<action, async, phase, tables, objects, pipe, raises, client>>

(* callHandler writes m_sig whether or not the object is still registered *)
CallHandler ==
  /\ reader.pc = "call"
  /\ objects' = [objects EXCEPT ![reader.ptr].sig = reader.sig]
  /\ reader' = [reader EXCEPT !.pc = "called"]
  /\ UNCHANGED <<action, async, phase, tables, pipe, raises, client>>

(* the function has returned, and with it the pointer of the thread *)
Called ==
  /\ reader.pc = "called"
  /\ Release(reader.ptr, handlers, orphans, objects[reader.ptr].user)
  /\ reader' = Waiting("loop")
  /\ UNCHANGED <<async, phase, tables, objects, pipe, raises, client>>

Reader == Loop \/ Read \/ FindHandler \/ CallHandler \/ Called

-----------------------------------------------------------------------------
(* The end of the program: m_async_ is null first, then ~SignalAsynchronously stops the thread
   and the map and the list go with their objects. *)
Exit ==
  /\ phase = "running" /\ async /\ \A c \in Clients : client[c].pc = "idle"
  /\ async' = FALSE /\ phase' = "cleared"
  /\ UNCHANGED <<action, tables, objects, pipe, raises, reader, client>>

StopHandler ==
  /\ phase = "cleared" /\ phase' = "stopping"
  /\ UNCHANGED <<action, async, tables, objects, pipe, raises, reader, client>>

DeConstruct ==
  /\ phase = "stopping" /\ reader.pc = "ended" /\ phase' = "ended"
  /\ handlers' = [s \in Signals |-> None] /\ orphans' = {}
  /\ LET gone == {o \in DOMAIN objects : Kept(o, handlers, orphans, FALSE) /\ ~objects[o].user}
     IN  action' = [s \in Signals |-> IF \E o \in gone : objects[o].sig = s THEN "default" ELSE action[s]]
  /\ UNCHANGED <<async, objects, pipe, raises, reader, client>>

-----------------------------------------------------------------------------
Client(c) ==
  \/ \E sig \in Signals : Installed(c, sig) \/ Unlocked(c, sig) \/ SignalUnRegister(c, sig)
  \/ Install(c) \/ CallableFails(c) \/ Start(c) \/ AddHandler(c) \/ RemoveHandler(c)
  \/ \E o \in DOMAIN objects : Unregister(c, o) \/ Drop(c, o)

Next == (\E c \in Clients : Client(c)) \/ (\E sig \in Signals : Raise(sig)) \/ Reader
          \/ Exit \/ StopHandler \/ DeConstruct

Spec == Init /\ [][Next]_vars

-----------------------------------------------------------------------------
(* Properties *)

(* While the program runs and no call about a signal is in progress, the system calls the handler
   for it if and only if an object is registered for it, whichever objects were unregistered,
   dropped or called in the meantime: otherwise the signal ends the program, or is lost. *)
HandledIfRegistered ==
  phase = "running" =>
    \A s \in Signals : client[OwnerOf[s]].pc = "idle" =>
      /\ action[s] = "handler" <=> handlers[s] # None
      /\ handlers[s] # None => objects[handlers[s]].sig = s
=============================================================================
