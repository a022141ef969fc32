------------------------- MODULE LogProviderProofs -------------------------
(***************************************************************************)
(* Proofs about the logging provider (LogProvider): for every set of       *)
(* loggers and stoppers, every level set and every bound on Start calls,   *)
(* Stop never fcloses a file twice, and no Log call reaches a sink between *)
(* a Stop and the next Start.                                              *)
(***************************************************************************)
EXTENDS LogProvider, TLAPS

(* The inductive invariant. Alone, FileClosedOnce is not inductive: a      *)
(* Stop that closes m_logfile must know that file is still open, i.e. that *)
(* a closed file is never m_logfile again (StopLocked sets it to nullptr,  *)
(* and StartFile only opens the unopened file of the next Start). The      *)
(* close counter is one exactly on the closed files.                       *)
LogInv ==
  /\ LogTypeOK
  /\ \A f \in Files : closes[f] = IF fileState[f] = "closed" THEN 1 ELSE 0
  /\ logfile # NoFile => fileState[logfile] = "open"
  /\ \A f \in Files : f > starts => fileState[f] = "unopened"
  /\ stopped => ~created /\ wrote = {}

-----------------------------------------------------------------------------
LEMMA InitLogInv == LogInit => LogInv
<1> SUFFICES ASSUME LogInit PROVE LogInv
  OBVIOUS
<1>1. LogTypeOK
  <2>1. starts \in 0..MaxStarts /\ logfile \in {NoFile} \cup Files
    BY LogProviderAssumption DEF LogInit, Files, NoFile
  <2>2. fileState \in [Files -> FileStates] /\ closes \in [Files -> Nat]
    BY DEF LogInit, FileStates
  <2>3. QED
    BY <2>1, <2>2, LogProviderAssumption DEF LogInit, LogTypeOK
<1>2. QED
  BY <1>1, LogProviderAssumption DEF LogInit, LogInv, Files, NoFile

\* the steps that change no state the invariant reads beyond wrote and the
\* per-thread program counters
LEMMA NextLogInv == LogInv /\ [LogNext]_vars => LogInv'
<1> SUFFICES ASSUME LogInv, [LogNext]_vars PROVE LogInv'
  OBVIOUS
<1> USE LogProviderAssumption
<1>1. CASE StartFile
  <2>1. starts \in 0..MaxStarts - 1 /\ starts' = starts + 1
    BY <1>1 DEF StartFile, LogInv, LogTypeOK
  <2>2. starts + 1 \in Files /\ fileState[starts + 1] = "unopened"
    BY <2>1 DEF LogInv, Files
  <2>3. CASE FileEnabled /\ logfile' = starts + 1
             /\ fileState' = [fileState EXCEPT ![starts + 1] = "open"]
    <3>1. UNCHANGED <<closes, created, stopped>> /\ wrote' = {}
      BY <1>1 DEF StartFile
    <3>2. LogTypeOK'
      BY <1>1, <2>1, <2>2, <2>3 DEF StartFile, LogInv, LogTypeOK, Files, FileStates
    <3>3. \A f \in Files : closes'[f] = IF fileState'[f] = "closed" THEN 1 ELSE 0
      BY <2>2, <2>3, <3>1 DEF LogInv
    <3>4. logfile' # NoFile => fileState'[logfile'] = "open"
      BY <2>2, <2>3 DEF LogInv, LogTypeOK
    <3>5. \A f \in Files : f > starts' => fileState'[f] = "unopened"
      BY <2>1, <2>2, <2>3 DEF LogInv, LogTypeOK, Files
    <3>6. QED
      BY <3>1, <3>2, <3>3, <3>4, <3>5 DEF LogInv
  <2>4. CASE UNCHANGED <<logfile, fileState>>
    BY <1>1, <2>1, <2>4 DEF StartFile, LogInv, LogTypeOK, Files, NoFile
  <2>5. CASE logfile' = NoFile /\ UNCHANGED fileState
    BY <1>1, <2>1, <2>5 DEF StartFile, LogInv, LogTypeOK, Files, NoFile
  <2>6. QED
    BY <1>1, <2>3, <2>4, <2>5 DEF StartFile
<1>2. CASE StartUdp
  BY <1>2 DEF StartUdp, LogInv, LogTypeOK
<1>3. CASE StartMark
  BY <1>3 DEF StartMark, LogInv, LogTypeOK
<1>4. ASSUME NEW u \in Loggers, LogBegin(u) PROVE LogInv'
  BY <1>4 DEF LogBegin, LogInv, LogTypeOK
<1>5. ASSUME NEW u \in Loggers, LogLocked(u) PROVE LogInv'
  <2>1. Targets(logLevel[u]) \subseteq Sinks \X ({NoFile} \cup Files)
    BY DEF Targets, LogInv, LogTypeOK, Sinks
  <2>2. QED
    BY <1>5, <2>1 DEF LogLocked, LogInv, LogTypeOK
<1>6. ASSUME NEW lv \in Levels, SetLogLevel(lv) PROVE LogInv'
  BY <1>6 DEF SetLogLevel, LogInv, LogTypeOK
<1>7. ASSUME NEW x \in Sinks, NEW f \in SUBSET Levels, SetLogFilter(x, f)
      PROVE LogInv'
  BY <1>7 DEF SetLogFilter, LogInv, LogTypeOK
<1>8. ASSUME NEW x \in Stoppers, StopCheck(x) PROVE LogInv'
  BY <1>8 DEF StopCheck, LogInv, LogTypeOK
<1>9. ASSUME NEW x \in Stoppers, StopLocked(x) PROVE LogInv'
  <2>1. CASE logfile # NoFile
    <3>1. logfile \in Files /\ fileState[logfile] = "open" /\ closes[logfile] = 0
      BY <2>1 DEF LogInv, LogTypeOK, NoFile, Files
    <3>2. /\ fileState' = [fileState EXCEPT ![logfile] = "closed"]
          /\ closes' = [closes EXCEPT ![logfile] = @ + 1]
      BY <1>9, <2>1 DEF StopLocked
    <3>3. closes' = [closes EXCEPT ![logfile] = 1]
      BY <3>1, <3>2 DEF LogInv, LogTypeOK
    <3>4. /\ logfile' = NoFile /\ created' = FALSE /\ wrote' = {}
          /\ UNCHANGED <<starts, level, filter, startPc, logPc, logLevel>>
          /\ udpSender' = FALSE /\ stopped' = TRUE
          /\ stopPc' = [stopPc EXCEPT ![x] = "idle"]
      BY <1>9 DEF StopLocked
    <3>5. LogTypeOK'
      <4>1. fileState' \in [Files -> FileStates] /\ closes' \in [Files -> Nat]
        BY <3>1, <3>2, <3>3 DEF LogInv, LogTypeOK, FileStates
      <4>2. stopPc' \in [Stoppers -> {"idle", "locking"}]
        BY <3>4 DEF LogInv, LogTypeOK
      <4>3. logfile' \in {NoFile} \cup Files /\ wrote' \subseteq Sinks \X ({NoFile} \cup Files)
        BY <3>4
      <4>4. QED
        BY <3>4, <4>1, <4>2, <4>3 DEF LogInv, LogTypeOK
    <3>6. \A f \in Files : closes'[f] = IF fileState'[f] = "closed" THEN 1 ELSE 0
      BY <3>1, <3>2, <3>3 DEF LogInv, LogTypeOK
    <3>7. \A f \in Files : f > starts' => fileState'[f] = "unopened"
      BY <3>1, <3>2, <3>4 DEF LogInv, LogTypeOK
    <3>8. QED
      BY <3>4, <3>5, <3>6, <3>7 DEF LogInv
  <2>2. CASE logfile = NoFile
    BY <1>9, <2>2 DEF StopLocked, LogInv, LogTypeOK, NoFile, Files
  <2>3. QED
    BY <2>1, <2>2
<1>10. CASE UNCHANGED vars
  BY <1>10 DEF vars, LogInv, LogTypeOK
<1>11. QED
  BY <1>1, <1>2, <1>3, <1>4, <1>5, <1>6, <1>7, <1>8, <1>9, <1>10 DEF LogNext

(* Stop's fclose runs at most once per file, however the destructor and an *)
(* explicit Stop interleave around the unlocked m_created check.           *)
THEOREM FileClosedOnceTheorem == LogSpec => []FileClosedOnce
<1>1. LogInv => FileClosedOnce
  BY DEF LogInv, FileClosedOnce
<1>2. QED
  BY <1>1, InitLogInv, NextLogInv, PTL DEF LogSpec

(* After Stop has run its body, and until Start runs again, no Log call    *)
(* writes to a sink: Log's m_created check under m_log_mtx sees false.     *)
THEOREM NoLogAfterStopTheorem == LogSpec => NoLogAfterStop
<1>1. LogInv /\ [LogNext]_vars => [stopped => wrote' = {}]_vars
  <2> SUFFICES ASSUME LogInv, [LogNext]_vars, stopped
               PROVE  wrote' = {}
    BY DEF vars
  <2>1. ~created
    BY DEF LogInv
  <2>2. CASE UNCHANGED vars
    BY <2>2 DEF LogInv, vars
  <2>3. CASE LogNext
    BY <2>1, <2>3 DEF LogNext, StartFile, StartUdp, StartMark, LogBegin,
                LogLocked, SetLogLevel, SetLogFilter, StopCheck, StopLocked
  <2>4. QED
    BY <2>2, <2>3
<1>2. QED
  BY <1>1, InitLogInv, NextLogInv, PTL DEF LogSpec, NoLogAfterStop

-----------------------------------------------------------------------------
(* Log's fprintf(m_logfile, ...) relies on m_logfile being open whenever   *)
(* m_created is true and the file sink is enabled. Start() takes no lock,  *)
(* so this holds only when Start runs once (a Stop landing between a second *)
(* Start's StartFileLogging and its m_created = true nulls m_logfile and    *)
(* then sees m_created set again) and StartFileLogging cannot fail.        *)
OpenInv ==
  /\ LogInv
  /\ starts = 0 => ~created /\ \A x \in Stoppers : stopPc[x] = "idle"
  /\ startPc # "idle" =>
       /\ starts > 0 /\ ~created
       /\ \A x \in Stoppers : stopPc[x] = "idle"
  /\ FileEnabled /\ (created \/ startPc # "idle") => logfile # NoFile

LEMMA InitOpenInv == LogInit => OpenInv
BY InitLogInv DEF LogInit, OpenInv

LEMMA NextOpenInv ==
  ASSUME MaxStarts = 1, FileEnabled => OpenOutcomes \subseteq {"ok"}
  PROVE  OpenInv /\ [LogNext]_vars => OpenInv'
<1> SUFFICES ASSUME OpenInv, [LogNext]_vars PROVE OpenInv'
  OBVIOUS
<1>0. LogInv'
  BY NextLogInv DEF OpenInv
<1>1. CASE StartFile
  <2>1. starts = 0 /\ ~created /\ \A x \in Stoppers : stopPc[x] = "idle"
    BY <1>1 DEF StartFile, OpenInv, LogInv, LogTypeOK
  <2>2. /\ starts' = 1 /\ startPc' = "udp"
        /\ UNCHANGED <<created, stopPc>>
    BY <1>1, <2>1 DEF StartFile
  <2>3. FileEnabled => logfile' # NoFile
    <3> SUFFICES ASSUME FileEnabled PROVE logfile' # NoFile
      OBVIOUS
    <3>1. PICK o \in OpenOutcomes :
            CASE o = "ok" -> /\ logfile' = starts + 1
                             /\ fileState' = [fileState EXCEPT ![starts + 1] = "open"]
              [] o = "no_dir" -> UNCHANGED <<logfile, fileState>>
              [] o = "fopen_failed" -> /\ logfile' = NoFile
                                       /\ UNCHANGED fileState
      BY <1>1 DEF StartFile
    <3>2. o = "ok"
      OBVIOUS
    <3>3. QED
      BY <3>1, <3>2, <2>1 DEF NoFile
  <2>4. QED
    BY <1>0, <2>1, <2>2, <2>3 DEF OpenInv
<1>2. CASE StartUdp
  BY <1>0, <1>2 DEF StartUdp, OpenInv
<1>3. CASE StartMark
  <2>1. starts > 0 /\ (FileEnabled => logfile # NoFile)
        /\ \A x \in Stoppers : stopPc[x] = "idle"
    BY <1>3 DEF StartMark, OpenInv
  <2>2. /\ startPc' = "idle" /\ created' = TRUE
        /\ UNCHANGED <<starts, logfile, stopPc>>
    BY <1>3 DEF StartMark
  <2>3. QED
    BY <1>0, <2>1, <2>2 DEF OpenInv
<1>4. ASSUME NEW u \in Loggers, LogBegin(u) \/ LogLocked(u) PROVE OpenInv'
  <2>1. UNCHANGED <<created, logfile, starts, startPc, stopPc>>
    BY <1>4 DEF LogBegin, LogLocked
  <2>2. QED
    BY <1>0, <2>1 DEF OpenInv
<1>5. ASSUME NEW lv \in Levels, SetLogLevel(lv) PROVE OpenInv'
  BY <1>0, <1>5 DEF SetLogLevel, OpenInv
<1>6. ASSUME NEW x \in Sinks, NEW f \in SUBSET Levels, SetLogFilter(x, f)
      PROVE OpenInv'
  BY <1>0, <1>6 DEF SetLogFilter, OpenInv
<1>7. ASSUME NEW x \in Stoppers, StopCheck(x) PROVE OpenInv'
  <2>1. starts # 0 /\ startPc = "idle"
    BY <1>7 DEF StopCheck, OpenInv
  <2>2. UNCHANGED <<created, logfile, starts, startPc>>
    BY <1>7 DEF StopCheck
  <2>3. QED
    BY <1>0, <1>7, <2>1, <2>2 DEF StopCheck, OpenInv
<1>8. ASSUME NEW x \in Stoppers, StopLocked(x) PROVE OpenInv'
  <2>1. starts # 0 /\ startPc = "idle"
    BY <1>8 DEF StopLocked, OpenInv
  <2>2. created' = FALSE /\ UNCHANGED <<starts, startPc>>
    BY <1>8 DEF StopLocked
  <2>3. QED
    BY <1>0, <2>1, <2>2 DEF OpenInv
<1>9. CASE UNCHANGED vars
  BY <1>0, <1>9 DEF vars, OpenInv
<1>10. QED
  BY <1>1, <1>2, <1>3, <1>4, <1>5, <1>6, <1>7, <1>8, <1>9 DEF LogNext

(* When Start() runs once and StartFileLogging cannot fail, every fprintf  *)
(* of Log goes to a file fopen opened and no Stop has fclosed. The two     *)
(* hypotheses are needed: runs log_fopen_fail and a second Start racing    *)
(* Stop (MaxStarts = 2) both break LogFileIsOpen.                          *)
THEOREM LogFileOpenOnSingleStart ==
  ASSUME MaxStarts = 1, FileEnabled => OpenOutcomes \subseteq {"ok"}
  PROVE  LogSpec => LogFileIsOpen
<1>1. OpenInv /\ [LogNext]_vars =>
        [\A t \in wrote' : t[1] = "file" =>
           t[2] # NoFile /\ fileState'[t[2]] = "open"]_vars
  <2> SUFFICES ASSUME OpenInv, LogNext, NEW t \in wrote', t[1] = "file"
               PROVE  t[2] # NoFile /\ fileState'[t[2]] = "open"
    BY DEF vars
  <2>1. CASE \E u \in Loggers : LogLocked(u)
    <3>1. PICK u \in Loggers : LogLocked(u)
      BY <2>1
    <3>2. created /\ t \in Targets(logLevel[u]) /\ UNCHANGED fileState
      BY <3>1 DEF LogLocked
    <3>3. t = <<"file", logfile>> /\ FileEnabled
      <4>1. PICK x \in Sinks : /\ logLevel[u] \in filter[x] /\ SinkEnabled(x)
                              /\ t = <<x, IF x = "file" THEN logfile ELSE NoFile>>
        BY <3>2 DEF Targets
      <4>2. x = "file"
        BY <4>1
      <4>3. SinkEnabled("file") = FileEnabled
        BY DEF SinkEnabled
      <4>4. QED
        BY <4>1, <4>2, <4>3
    <3>4. logfile # NoFile /\ fileState[logfile] = "open"
      BY <3>2, <3>3 DEF OpenInv, LogInv
    <3>5. QED
      BY <3>2, <3>3, <3>4
  <2>2. CASE ~\E u \in Loggers : LogLocked(u)
    <3>1. wrote' = {}
      BY <2>2 DEF LogNext, StartFile, StartUdp, StartMark, LogBegin,
                  SetLogLevel, SetLogFilter, StopCheck, StopLocked
    <3>2. QED
      BY <3>1
  <2>3. QED
    BY <2>1, <2>2
<1>2. OpenInv /\ [LogNext]_vars => OpenInv'
  BY NextOpenInv
<1>3. QED
  BY <1>1, <1>2, InitOpenInv, PTL DEF LogSpec, LogFileIsOpen

=============================================================================
