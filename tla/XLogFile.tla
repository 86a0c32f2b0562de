------------------------------ MODULE XLogFile ------------------------------
(***************************************************************************)
(* The files the log is written to (xlog.cpp): which one a process goes on *)
(* with when it starts or is configured anew, when the next one is begun,  *)
(* which ones are removed as too old; and what becomes of this when the    *)
(* file system fails at any of it.                                         *)
(*                                                                         *)
(* A file is named after the day on which it was begun and numbered within *)
(* it; the search knows numbers of three digits only.  Times are counted   *)
(* in days: whether a file that is exactly as old as the retention is      *)
(* older depends on the hour.  Several processes do not share a directory, *)
(* and nobody else removes files.                                          *)
(***************************************************************************)
EXTENDS Integers, Sequences, FiniteSetsExt

CONSTANTS
  Bases,         \* values of m_log_base_name_
  Limits,        \* values of m_max_file_size_, 0 for none
  Retentions,    \* values of m_retention_days_, 0 for ever
  Sizes,         \* lengths of messages
  SeqLimit,      \* the largest number the pattern of names matches: 999
  MaxDays, MaxMessages, MaxStarts   \* bounds

VARIABLES
  today,
  files,      \* by name, the files that exist: messages, size and day of the last write
  logger,     \* the members of the process's XLogPrivate that matter here
  message,    \* the last message written
  starts      \* starts and configurations

vars == <<today, files, logger, message, starts>>

Application == [base |-> "application", day |-> 0, seq |-> 0]   \* the name to fall back to

Init ==
  /\ today = 1 /\ files = <<>> /\ message = 0 /\ starts = 0
  /\ logger = [running |-> FALSE]

Name(base, seq) == [base |-> base, day |-> today, seq |-> seq]

(* getLogFilePattern *)
Matching(base) == {n \in DOMAIN files : n.base = base /\ n.seq \in 1..SeqLimit}

(* mutant: of all days the largest number *)
LatestOfAll(base) ==
  {n \in Matching(base) : \A m \in Matching(base) : m.seq <= n.seq}

(* findLatestLogFile: none, or the one of today with the largest number *)
Latest(base) ==
  {n \in Matching(base) : n.day = today /\ (\A m \in Matching(base) : m.day = today => m.seq <= n.seq)}

(* generateLogFileName *)
Fresh(base) ==
  Name(base, Min({s \in 1..(Cardinality(DOMAIN files) + 1) : Name(base, s) \notin DOMAIN files}))

(* initializeLogFile: go on with the latest file if it is not full.  The file system may fail the
   search alone, which then finds nothing (~found), or the rest (~ok). *)
Initialized(base, limit, found, ok) ==
  LET room == {n \in Latest(base) : found /\ (limit = 0 \/ files[n].size < limit)}
  IN  IF ~ok THEN [current |-> Application, size |-> 0]
      ELSE IF room # {} THEN LET n == CHOOSE n \in room : TRUE IN [current |-> n, size |-> files[n].size]
      ELSE [current |-> Fresh(base), size |-> 0]

(* cleanupOldLogFiles: the sets of files it may remove *)
Cleaned(base, retention) ==
  IF retention = 0 THEN {{}}
  ELSE {gone \in SUBSET {n \in Matching(base) : today - files[n].day >= retention} :
          \A n \in Matching(base) : today - files[n].day > retention => n \in gone}

(* construct_, setLogFileConfig: no stream is open, the file is chosen, old ones are removed *)
Configure(base, limit, retention, found, ok) ==
  /\ starts < MaxStarts /\ starts' = starts + 1
  /\ LET file == Initialized(base, limit, found, ok)
     IN  logger' = [running |-> TRUE, base |-> base, limit |-> limit, retention |-> retention, open |-> FALSE,
                    current |-> file.current, size |-> file.size, good |-> TRUE, missed |-> 0]
  /\ \E gone \in Cleaned(base, retention) : files' = [n \in DOMAIN files \ gone |-> files[n]]
  /\ UNCHANGED <<today, message>>

(* the process ends, in whatever way: every message was flushed to its file, or lost *)
End == logger.running /\ logger' = [running |-> FALSE] /\ UNCHANGED <<today, files, message, starts>>

NextDay == today < MaxDays /\ today' = today + 1 /\ UNCHANGED <<files, logger, message, starts>>

-----------------------------------------------------------------------------
(* shouldRotateFile *)
Full == logger.limit > 0 /\ logger.size >= logger.limit

(* rotateLogFile: a new name, unless the file system reports an error *)
Rotated(ok) ==
  IF ~Full THEN logger
  ELSE IF ok THEN [logger EXCEPT !.open = FALSE, !.current = Fresh(logger.base), !.size = 0]
  ELSE [logger EXCEPT !.open = FALSE]

Contents(n) == IF n \in DOMAIN files THEN files[n] ELSE [messages |-> <<>>, size |-> 0, day |-> today]

(* mutant: the size is not looked up *)
OpenedBlindly(l, found) == IF l.open THEN l ELSE [l EXCEPT !.open = TRUE, !.good = TRUE, !.missed = 0]

(* An open stream goes on.  Otherwise the file is opened for appending and its size looked up, as
   0 if the file system fails (~found): missed, a history, is what is not counted then. *)
Opened(l, found) ==
  LET size == Contents(l.current).size
  IN  IF l.open THEN l
      ELSE [l EXCEPT !.open = TRUE, !.good = TRUE, !.size = IF found THEN size ELSE 0,
                     !.missed = IF found THEN 0 ELSE size]

(* how much of a message may get into the file: a stream that failed once takes nothing more *)
Written(l, size) == IF l.good THEN 0..size ELSE {0}

(* writeToFile: whatever was written, the whole length is counted *)
Write(size, found, ok) ==
  /\ logger.running /\ message < MaxMessages /\ message' = message + 1
  /\ LET l == Opened(Rotated(ok), found)
         file == Contents(l.current)
     IN  \E written \in Written(l, size) :
           /\ logger' = [l EXCEPT !.size = @ + size, !.good = @ /\ written = size]
           /\ files' = [n \in DOMAIN files \cup {l.current} |->
                          IF n # l.current THEN files[n]
                          ELSE IF written = 0 THEN file
                          ELSE [messages |-> Append(file.messages, message'), size |-> file.size + written,
                                day |-> today]]
  /\ UNCHANGED <<today, starts>>

(* the file cannot be opened: the message is lost, the next one tries again *)
OpenFails(ok) ==
  /\ logger.running /\ ~Rotated(ok).open /\ message < MaxMessages /\ message' = message + 1
  /\ logger' = Rotated(ok)
  /\ UNCHANGED <<today, files, starts>>

-----------------------------------------------------------------------------
Next ==
  \/ \E base \in Bases, limit \in Limits, retention \in Retentions, found, ok \in BOOLEAN :
       Configure(base, limit, retention, found, ok)
  \/ End \/ NextDay
  \/ \E ok \in BOOLEAN : OpenFails(ok) \/ \E size \in Sizes, found \in BOOLEAN : Write(size, found, ok)

Spec == Init /\ [][Next]_vars

-----------------------------------------------------------------------------
(* Properties *)

Before(n, m) == n.base = m.base /\ (n.day < m.day \/ (n.day = m.day /\ n.seq < m.seq))

(* Read in the order of their names the files give the messages that got into them, or a part of
   them, in the order in which they were written, whatever starts, days, full files, removals and
   failures there were. *)
InOrderOfNames ==
  \A n, m \in UNION {Matching(base) : base \in Bases} :
    Before(n, m) => \A i \in DOMAIN files[n].messages, j \in DOMAIN files[m].messages :
                      files[n].messages[i] < files[m].messages[j]

(* The size that decides when the next file is begun, though the process did not write all of the
   file, falls short of it by nothing but what a failed lookup missed, and exceeds it only when a
   write failed after the file was opened. *)
SizeFollows ==
  (logger.running /\ logger.open) =>
    LET counted == logger.size + logger.missed
    IN  /\ files[logger.current].size <= counted
        /\ logger.good => files[logger.current].size = counted
=============================================================================
