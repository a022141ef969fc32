------------------------------ MODULE ReadSlot ------------------------------
(***************************************************************************)
(* The one-slot read buffer of CDataReader (ecal_reader.cpp): m_read_buf,  *)
(* m_read_buf_received, m_read_buf_mtx and m_read_buf_cv. Transport        *)
(* threads overwrite the slot (the tail of ApplySample when no receive     *)
(* callback is set); reader threads take it in Read(), blocking on the     *)
(* condition variable with a timeout or forever.                           *)
(*                                                                         *)
(* The payload is not modelled: only whether the slot is filled.  A        *)
(* notified waiter is in `signalled` until it re-acquires the mutex.       *)
(* Spurious wake-ups re-check the predicate and wait again, which changes  *)
(* nothing, so they are not steps of their own.                            *)
(***************************************************************************)
EXTENDS Naturals

CONSTANT Readers   \* user threads calling Read()

VARIABLES
  readReceived,    \* m_read_buf_received
  signalled,       \* waiters of m_read_buf_cv notified and not yet running
  readPc           \* per reader: "idle", "wait_timed" or "wait_forever"

slotVars == <<readReceived, signalled, readPc>>

ReadPcs == {"idle", "wait_timed", "wait_forever"}

SlotTypeOK ==
  /\ readReceived \in BOOLEAN
  /\ signalled \subseteq Readers
  /\ readPc \in [Readers -> ReadPcs]

SlotInit ==
  /\ readReceived = FALSE
  /\ signalled = {}
  /\ readPc = [u \in Readers |-> "idle"]

\* readers blocked in wait / wait_for and not yet notified
Blocked == {u \in Readers : readPc[u] # "idle"} \ signalled

\* mutant: the notify_one call dropped
NotifyNone == UNCHANGED signalled

\* m_read_buf_cv.notify_one(): one blocked waiter, if any, is notified
NotifyOne ==
  IF Blocked = {} THEN UNCHANGED signalled
  ELSE \E u \in Blocked : signalled' = signalled \cup {u}

\* ApplySample, `if (!processed)`: overwrite the slot under m_read_buf_mtx
\* and notify one waiter; an undrained sample is lost without a trace
BufferSample ==
  /\ readReceived' = TRUE
  /\ NotifyOne
  /\ UNCHANGED readPc

\* Read(), `if (m_read_buf_received)`: swap the buffer out and return true
Drain(u) ==
  /\ readReceived
  /\ readReceived' = FALSE
  /\ signalled' = signalled \ {u}
  /\ readPc' = [readPc EXCEPT ![u] = "idle"]

\* Read(buf_, time_, rcv_timeout_ms_) while the reader is created: take a
\* buffered sample at once, else block (rcv_timeout_ms_ > 0 or < 0); a poll
\* (rcv_timeout_ms_ = 0) on an empty slot returns false and changes nothing
ReadBegin(u, isCreated) ==
  /\ readPc[u] = "idle"
  /\ isCreated
  /\ \/ Drain(u)
     \/ /\ ~readReceived
        /\ \E mode \in {"wait_timed", "wait_forever"} :
             readPc' = [readPc EXCEPT ![u] = mode]
        /\ UNCHANGED <<readReceived, signalled>>

\* a notified waiter re-acquires m_read_buf_mtx and re-checks the predicate
ReadWake(u) ==
  /\ u \in signalled
  /\ \/ Drain(u)
     \/ /\ ~readReceived
        /\ signalled' = signalled \ {u}
        /\ UNCHANGED <<readPc, readReceived>>

\* wait_for(rcv_timeout_ms_) expires; wait_for returns the predicate, so a
\* sample that arrived meanwhile is still taken
ReadTimeout(u) ==
  /\ readPc[u] = "wait_timed"
  /\ \/ Drain(u)
     \/ /\ ~readReceived
        /\ signalled' = signalled \ {u}
        /\ readPc' = [readPc EXCEPT ![u] = "idle"]
        /\ UNCHANGED readReceived

\* the reader steps, for a reader whose m_created is isCreated
ReaderStep(isCreated) ==
  \E u \in Readers :
    ReadBegin(u, isCreated) \/ ReadWake(u) \/ ReadTimeout(u)

-----------------------------------------------------------------------------
(* The slot on its own: transport threads deliver at any time.            *)
SlotNext == BufferSample \/ ReaderStep(TRUE)

\* The OS eventually runs a notified reader thread.
SlotFairness == \A u \in Readers : WF_slotVars(ReadWake(u))

SlotSpec == SlotInit /\ [][SlotNext]_slotVars /\ SlotFairness

(* A reader blocked in Read(-1) is not left waiting while a sample sits   *)
(* in the slot: the notify_one of ApplySample wakes some waiter, and the   *)
(* woken one, or a timed-out one, takes the sample.                        *)
BufferedSampleTaken ==
  \A u \in Readers :
    (readPc[u] = "wait_forever" /\ readReceived) ~> ~readReceived

=============================================================================
