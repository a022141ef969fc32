---------------------------- MODULE LogProvider ----------------------------
(***************************************************************************)
(* The logging provider of eCAL: class CLogProvider in                     *)
(* src/ecal/core/src/logging/ecal_log_provider.cpp.                        *)
(*                                                                         *)
(* Actors:                                                                 *)
(*  - the owner calls Start() once; Start takes no lock, opens the log     *)
(*    file and the UDP sender, then sets the atomic m_created;             *)
(*  - logger threads call Log(); Log(msg_) reads m_attributes.level before *)
(*    Log(level_, msg_) takes m_log_mtx, so a call is two steps;           *)
(*  - stopper threads (the destructor, an explicit Stop) call Stop(), which *)
(*    checks m_created before it takes m_log_mtx;                          *)
(*  - a user thread sets the log level (under m_log_mtx) and the per-sink  *)
(*    filters (without a lock).                                            *)
(* A log file is named by the Start call that opened it; a message by the  *)
(* sinks it reaches.                                                       *)
(***************************************************************************)
EXTENDS Naturals

CONSTANTS
  Loggers,          \* threads calling Log
  ConsoleEnabled,   \* m_attributes.console_sink.enabled
  Stoppers,         \* threads calling Stop
  Levels,           \* eCAL_Logging_eLogLevel values a message may carry
  FileEnabled,      \* m_attributes.file_sink.enabled
  UdpEnabled,       \* m_attributes.udp_sink.enabled
  OpenOutcomes,     \* what StartFileLogging may meet: "ok", "no_dir", "fopen_failed"
  MaxStarts         \* bound on the calls of Start

ASSUME LogProviderAssumption ==
  /\ ConsoleEnabled \in BOOLEAN
  /\ FileEnabled \in BOOLEAN
  /\ UdpEnabled \in BOOLEAN
  /\ OpenOutcomes \subseteq {"ok", "no_dir", "fopen_failed"}
  /\ MaxStarts \in Nat \ {0}

Sinks == {"console", "file", "udp"}

\* m_logfile: nullptr, or the file opened by the n-th Start
NoFile == 0
Files == 1..MaxStarts

FileStates == {"unopened", "open", "closed"}

VARIABLES
  created,      \* m_created (std::atomic<bool>)
  logfile,      \* m_logfile
  fileState,    \* per file: fopen'ed, fclose'd
  udpSender,    \* m_udp_logging_sender is set
  level,        \* m_attributes.level
  filter,       \* m_attributes.<sink>.filter_log, as the set of levels passed
  starts,       \* Start calls so far
  startPc,      \* owner: "idle", "udp" (file step done), "mark"
  logPc,        \* per logger: "idle" or "locking" (level read, lock not held)
  logLevel,     \* per logger: the level of its message
  stopPc,       \* per stopper: "idle" or "locking" (m_created seen true)
  \* history variables, read only by the properties
  wrote,        \* <<sink, file>> pairs the last step wrote to
  closes,       \* per file: fclose calls on it
  stopped       \* a Stop call has run its body since the last Start

vars == <<created, logfile, fileState, udpSender, level, filter, starts,
          startPc, logPc, logLevel, stopPc, wrote, closes, stopped>>

LogTypeOK ==
  /\ created \in BOOLEAN
  /\ logfile \in {NoFile} \cup Files
  /\ fileState \in [Files -> FileStates]
  /\ udpSender \in BOOLEAN
  /\ level \in Levels
  /\ filter \in [Sinks -> SUBSET Levels]
  /\ starts \in 0..MaxStarts
  /\ startPc \in {"idle", "udp", "mark"}
  /\ logPc \in [Loggers -> {"idle", "locking"}]
  /\ logLevel \in [Loggers -> Levels]
  /\ stopPc \in [Stoppers -> {"idle", "locking"}]
  /\ wrote \subseteq Sinks \X ({NoFile} \cup Files)
  /\ closes \in [Files -> Nat]
  /\ stopped \in BOOLEAN

\* CLogProvider(attr_): m_created(false), m_logfile(nullptr); the level and
\* the filters are whatever the configuration gave
LogInit ==
  /\ created = FALSE
  /\ logfile = NoFile
  /\ fileState = [f \in Files |-> "unopened"]
  /\ udpSender = FALSE
  /\ level \in Levels
  /\ filter \in [Sinks -> SUBSET Levels]
  /\ starts = 0
  /\ startPc = "idle"
  /\ logPc = [u \in Loggers |-> "idle"]
  /\ logLevel \in [Loggers -> Levels]
  /\ stopPc = [s \in Stoppers |-> "idle"]
  /\ wrote = {}
  /\ closes = [f \in Files |-> 0]
  /\ stopped = FALSE

-----------------------------------------------------------------------------
(* Start(): no lock is taken.                                             *)

\* StartFileLogging(): isDirectoryOrCreate fails and m_logfile is left as
\* it was, or fopen's result is stored: a new file or nullptr. A failure
\* only logs a warning; file_sink.enabled stays true.
StartFile ==
  /\ startPc = "idle"
  /\ starts < MaxStarts
  /\ starts' = starts + 1
  /\ IF FileEnabled
     THEN \E o \in OpenOutcomes :
            CASE o = "ok" -> /\ logfile' = starts + 1
                             /\ fileState' = [fileState EXCEPT ![starts + 1] = "open"]
              [] o = "no_dir" -> UNCHANGED <<logfile, fileState>>
              [] o = "fopen_failed" -> /\ logfile' = NoFile
                                       /\ UNCHANGED fileState
     ELSE UNCHANGED <<logfile, fileState>>
  /\ startPc' = "udp"
  /\ wrote' = {}
  /\ UNCHANGED <<created, udpSender, level, filter, logPc, logLevel, stopPc,
                 closes, stopped>>

\* StartUDPLogging(): make_unique either succeeds or throws
StartUdp ==
  /\ startPc = "udp"
  /\ udpSender' = (udpSender \/ UdpEnabled)
  /\ startPc' = "mark"
  /\ wrote' = {}
  /\ UNCHANGED <<created, logfile, fileState, level, filter, starts, logPc,
                 logLevel, stopPc, closes, stopped>>

\* m_created = true
StartMark ==
  /\ startPc = "mark"
  /\ created' = TRUE
  /\ startPc' = "idle"
  /\ stopped' = FALSE
  /\ wrote' = {}
  /\ UNCHANGED <<logfile, fileState, udpSender, level, filter, starts, logPc,
                 logLevel, stopPc, closes>>

-----------------------------------------------------------------------------
(* Log().                                                                 *)

\* Log(msg_) passes m_attributes.level, read without m_log_mtx;
\* Log(level_, msg_) is called with a level of the caller's choice
LogBegin(u) ==
  /\ logPc[u] = "idle"
  /\ \E lv \in Levels \cup {level} : logLevel' = [logLevel EXCEPT ![u] = lv]
  /\ logPc' = [logPc EXCEPT ![u] = "locking"]
  /\ wrote' = {}
  /\ UNCHANGED <<created, logfile, fileState, udpSender, level, filter, starts,
                 startPc, stopPc, closes, stopped>>

\* m_attributes.<sink>.enabled
SinkEnabled(s) ==
  CASE s = "console" -> ConsoleEnabled
    [] s = "file"    -> FileEnabled
    [] s = "udp"     -> UdpEnabled /\ udpSender

\* the sinks a message of level lv reaches (level_ & filter_log and the
\* sink enabled; UDP also needs m_udp_logging_sender), with the file
\* handle fprintf is given; console and UDP have none
Targets(lv) ==
  {<<s, IF s = "file" THEN logfile ELSE NoFile>> :
     s \in {x \in Sinks : lv \in filter[x] /\ SinkEnabled(x)}}

\* mutant: `if(!m_created) return;` dropped
LogLockedUnchecked(u) ==
  /\ logPc[u] = "locking"
  /\ wrote' = Targets(logLevel[u])
  /\ logPc' = [logPc EXCEPT ![u] = "idle"]
  /\ UNCHANGED <<created, logfile, fileState, udpSender, level, filter, starts,
                 startPc, logLevel, stopPc, closes, stopped>>

\* Log(level_, msg_) under m_log_mtx: `if(!m_created) return;`, the filter
\* check, then fprintf(m_logfile, ...) and the UDP send
LogLocked(u) ==
  /\ logPc[u] = "locking"
  /\ wrote' = IF created THEN Targets(logLevel[u]) ELSE {}
  /\ logPc' = [logPc EXCEPT ![u] = "idle"]
  /\ UNCHANGED <<created, logfile, fileState, udpSender, level, filter, starts,
                 startPc, logLevel, stopPc, closes, stopped>>

\* SetLogLevel(level_) under m_log_mtx
SetLogLevel(lv) ==
  /\ level' = lv
  /\ wrote' = {}
  /\ UNCHANGED <<created, logfile, fileState, udpSender, filter, starts,
                 startPc, logPc, logLevel, stopPc, closes, stopped>>

\* SetFileLogFilter / SetUDPLogFilter / SetConsoleLogFilter, without a lock
SetLogFilter(s, f) ==
  /\ filter' = [filter EXCEPT ![s] = f]
  /\ wrote' = {}
  /\ UNCHANGED <<created, logfile, fileState, udpSender, level, starts,
                 startPc, logPc, logLevel, stopPc, closes, stopped>>

-----------------------------------------------------------------------------
(* Stop().                                                                *)

\* `if(!m_created) return;` outside m_log_mtx; a false m_created ends the
\* call with no state change, so only the true case is a step
StopCheck(s) ==
  /\ stopPc[s] = "idle"
  /\ created
  /\ stopPc' = [stopPc EXCEPT ![s] = "locking"]
  /\ wrote' = {}
  /\ UNCHANGED <<created, logfile, fileState, udpSender, level, filter, starts,
                 startPc, logPc, logLevel, closes, stopped>>

\* mutant: `m_logfile = nullptr;` dropped
StopLockedNoReset(s) ==
  /\ stopPc[s] = "locking"
  /\ udpSender' = FALSE
  /\ IF logfile # NoFile
     THEN /\ fileState' = [fileState EXCEPT ![logfile] = "closed"]
          /\ closes' = [closes EXCEPT ![logfile] = @ + 1]
     ELSE UNCHANGED <<fileState, closes>>
  /\ created' = FALSE
  /\ stopPc' = [stopPc EXCEPT ![s] = "idle"]
  /\ stopped' = TRUE
  /\ wrote' = {}
  /\ UNCHANGED <<logfile, level, filter, starts, startPc, logPc, logLevel>>

\* under m_log_mtx: reset the UDP sender, fclose the file if there is one,
\* m_logfile = nullptr, m_created = false
StopLocked(s) ==
  /\ stopPc[s] = "locking"
  /\ udpSender' = FALSE
  /\ IF logfile # NoFile
     THEN /\ fileState' = [fileState EXCEPT ![logfile] = "closed"]
          /\ closes' = [closes EXCEPT ![logfile] = @ + 1]
     ELSE UNCHANGED <<fileState, closes>>
  /\ logfile' = NoFile
  /\ created' = FALSE
  /\ stopPc' = [stopPc EXCEPT ![s] = "idle"]
  /\ stopped' = TRUE
  /\ wrote' = {}
  /\ UNCHANGED <<level, filter, starts, startPc, logPc, logLevel>>

-----------------------------------------------------------------------------
LogNext ==
  \/ StartFile \/ StartUdp \/ StartMark
  \/ \E u \in Loggers : LogBegin(u) \/ LogLocked(u)
  \/ \E lv \in Levels : SetLogLevel(lv)
  \/ \E s \in Sinks, f \in SUBSET Levels : SetLogFilter(s, f)
  \/ \E s \in Stoppers : StopCheck(s) \/ StopLocked(s)

LogSpec == LogInit /\ [][LogNext]_vars

-----------------------------------------------------------------------------
(* Log writes a file message with fprintf(m_logfile, ...) only to a file   *)
(* fopen opened and no Stop has closed: never to nullptr after a failed    *)
(* StartFileLogging, never to a file a concurrent Stop closed.             *)
LogFileIsOpen ==
  [][\A t \in wrote' : t[1] = "file" =>
        t[2] # NoFile /\ fileState'[t[2]] = "open"]_vars

(* Two Stop calls that both saw m_created true before taking m_log_mtx     *)
(* (the destructor and an explicit Stop) never fclose the same file twice. *)
FileClosedOnce == \A f \in Files : closes[f] <= 1

(* Once a Stop call has run its body, and until Start runs again, no Log   *)
(* call reaches any sink, even one that read the level before Stop took    *)
(* m_log_mtx.                                                              *)
NoLogAfterStop == [][stopped => wrote' = {}]_vars

=============================================================================
