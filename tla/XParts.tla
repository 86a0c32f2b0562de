------------------------------- MODULE XParts -------------------------------
(***************************************************************************)
(* Five small components side by side: the log files (XLogFile), the crash *)
(* diagnostics (XCrash), the signals of the operating system (XSignal),    *)
(* the ring buffer (XRingBuffer) and the counting semaphore (XSemaphore).  *)
(* They do not interact here; what is renamed keeps their names apart.     *)
(***************************************************************************)
EXTENDS Naturals, Sequences, FiniteSets

CONSTANTS
  Bases, FileLimits, Retentions, Sizes, SeqLimit, MaxDays, MaxMessages, MaxStarts,   \* of XLogFile
  CrashThreads, CrashSignals, Faults, Aborts, CrashPipeSize, MaxSwitches,            \* of XCrash
  Registrars, SystemSignals, OwnerOf, MaxObjects, MaxRaises, PipeSize,                  \* of XSignal
  N, Values, SizeMod,                                                                \* of XRingBuffer
  Acquirers, LeastMaxValue, Updates, MaxReleases                                     \* of XSemaphore

VARIABLES
  today, files, logger, message, starts,
  process, disposition, registered, crashPipe, crashReader, thread, m_crash_diagnostics_, switch, switches,
    m_crash_handler_, logged, told,
  action, async, phase, handlers, orphans, objects, pipe, raises, reader, client,
  m_buffer_, m_head_, m_tail_, m_size_, newest, drained,
  count_, desired, acquirer, timed, released, acquired, releases

fileVars == <<today, files, logger, message, starts>>
crashVars == <<process, disposition, registered, crashPipe, crashReader, thread, m_crash_diagnostics_, switch,
    switches, m_crash_handler_, logged, told>>
systemVars == <<action, async, phase, handlers, orphans, objects, pipe, raises, reader, client>>
ringVars == <<m_buffer_, m_head_, m_tail_, m_size_, newest, drained>>
semaphoreVars == <<count_, desired, acquirer, timed, released, acquired, releases>>

LogFile == INSTANCE XLogFile WITH Limits <- FileLimits
Crash == INSTANCE XCrash WITH
  Threads <- CrashThreads, PipeSize <- CrashPipeSize,
  action <- disposition, pipe <- crashPipe, reader <- crashReader
System == INSTANCE XSignal WITH Clients <- Registrars, Signals <- SystemSignals
Ring == INSTANCE XRingBuffer
Semaphore == INSTANCE XSemaphore WITH Threads <- Acquirers, pc <- acquirer

-----------------------------------------------------------------------------
(* The log files, in the order of their names, have the messages in the order of time. *)
FilesInOrder == LogFile!InOrderOfNames
(* The size that decides about the next log file is that of the file, but for what failed. *)
SizeFollows == LogFile!SizeFollows
(* A signal whose object is registered has the handler, and its object is not forgotten; with the
   handlers of the crash diagnostics the process does not end before the crash is reported. *)
HandledIfRegistered == System!HandledIfRegistered /\ Crash!DiesReported
(* The ring buffer has the values that were pushed last, in order. *)
KeepsNewest == Ring!KeepsNewest
(* No permit of the counting semaphore is taken twice, and nobody sleeps beside one. *)
PermitsCounted == Semaphore!PermitsAccounted /\ Semaphore!NoneSleepsOnPermits
=============================================================================
