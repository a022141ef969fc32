----------------------------- MODULE DataReader -----------------------------
(***************************************************************************)
(* The subscriber data path of eCAL: class CDataReader in                  *)
(* src/ecal/core/src/readwrite/ecal_reader.cpp.                            *)
(*                                                                         *)
(* Actors and the atomicity of their steps:                                *)
(*  - transport threads call ApplySample; it takes m_receive_callback_mtx *)
(*    and checks m_created, then runs its body under that lock. Stop      *)
(*    writes m_created without the lock, so a call is two steps;          *)
(*  - the registration thread calls ApplyPublication / RemovePublication;  *)
(*    the connection map is updated under m_connection_map_mtx and the     *)
(*    event is fired after that lock is released, so each is two steps;    *)
(*  - user threads call the callback setters (m_created is checked before  *)
(*    the lock is taken: two steps) and Read (may block on m_read_buf_cv); *)
(*  - the owner of the reader calls Stop, whose four phases each take      *)
(*    their own lock or none.                                              *)
(*                                                                         *)
(* Data is abstracted: a sample is identified by its publisher and send    *)
(* clock, and its payload hash is that pair; data type information is      *)
(* only "default" (a phantom entry) or "given" (an applied publication).   *)
(***************************************************************************)
EXTENDS Integers, Sequences, FiniteSets, FiniteSetsExt, ReadSlot

CONSTANTS
  Layers,          \* transport layers samples can arrive on
  EnabledLayers,   \* m_attributes.{udp,shm,tcp}.enable
  Pubs,            \* publishers (SPublicationInfo / topic_info_.tid)
  Clocks,          \* send clocks a publisher may stamp on a sample
  Ids,             \* filter ids a sample may carry
  Setters,         \* user threads calling the callback setters
  HashQueueSize,   \* hash_queue_size (64 in the code)
  MaxAccepted,     \* bound on m_clock, the count of accepted samples
  DropOutOfOrder   \* Config::Experimental::GetDropOutOfOrderMessages()

ASSUME DataReaderAssumption ==
  /\ EnabledLayers \subseteq Layers
  /\ IsFiniteSet(Pubs)
  /\ Clocks \subseteq Int
  /\ HashQueueSize \in Nat \ {0}
  /\ MaxAccepted \in Nat
  /\ DropOutOfOrder \in BOOLEAN

\* eCAL_Subscriber_Event values a callback can be registered for
EventKinds == {"connected", "disconnected", "update_connection", "dropped"}

\* SConnection.state together with whether its data type info was given:
\* "phantom" is the default SConnection that operator[] inserts
ConnStates == {"absent", "phantom", "inactive", "active"}

\* phases of Stop(); "running" before it, "stopped" after it returned
StopPhases == {"running", "clear_recv", "clear_events", "mark", "stopped"}

UserPcs == {"idle", "add_recv", "rem_recv", "add_event", "rem_event"}

RegPcs == {"idle"} \cup EventKinds

VARIABLES
  created,        \* m_created
  readEnabled,    \* m_layers.<l>.read_enabled
  layerActive,    \* m_layers.<l>.active
  hashQueue,      \* m_sample_hash_queue
  idSet,          \* m_id_set
  writerCounter,  \* m_writer_counter_map (its domain: publishers seen)
  clock,          \* m_clock
  messageDrops,   \* m_message_drops
  recvCb,         \* m_receive_callback is set
  eventCb,        \* m_event_callback_map[k] is set
  conn,           \* m_connection_map
  connCount,      \* m_connection_count
  pc, evArg,      \* setter threads: operation in progress and its event kind
  stopPc,         \* owner thread: phase of Stop()
  regPc, regPub,  \* registration thread: event still to fire, for whom
  \* history variables, read only by the properties
  fired,          \* callbacks invoked by the last step
  acceptLog,      \* samples accepted so far, in order, as <<pub, clock>>
  applies,        \* ApplyPublication calls per publisher since its removal
  ingressPc       \* "checked": an ApplySample holds m_receive_callback_mtx
                  \* and has seen m_created true; "idle": the mutex is free

userVars == <<pc, evArg>>
regVars == <<regPc, regPub>>
ingressVars == <<layerActive, hashQueue, writerCounter, clock, messageDrops,
                 acceptLog, ingressPc>>
vars == <<created, readEnabled, layerActive, hashQueue, idSet, writerCounter,
          clock, messageDrops, recvCb, eventCb, readReceived, signalled,
          readPc, conn, connCount, pc, evArg, stopPc, regPc, regPub, fired,
          acceptLog, applies, ingressPc>>

TypeOK ==
  /\ created \in BOOLEAN
  /\ readEnabled \in [Layers -> BOOLEAN]
  /\ layerActive \in [Layers -> BOOLEAN]
  /\ hashQueue \in Seq(Pubs \X Clocks)
  /\ Len(hashQueue) <= HashQueueSize
  /\ idSet \subseteq Ids
  /\ DOMAIN writerCounter \subseteq Pubs
  /\ writerCounter \in [DOMAIN writerCounter -> Clocks]
  /\ clock \in 0..MaxAccepted
  /\ messageDrops \in Int
  /\ recvCb \in BOOLEAN
  /\ eventCb \in [EventKinds -> BOOLEAN]
  /\ SlotTypeOK
  /\ conn \in [Pubs -> ConnStates]
  /\ connCount \in Nat
  /\ pc \in [Setters -> UserPcs]
  /\ evArg \in [Setters -> EventKinds]
  /\ stopPc \in StopPhases
  /\ regPc \in RegPcs
  /\ regPub \in Pubs
  /\ fired \subseteq EventKinds \cup {"receive"}
  /\ acceptLog \in Seq(Pubs \X Clocks)
  /\ applies \in [Pubs -> 0..2]
  /\ ingressPc \in {"idle", "checked"}

-----------------------------------------------------------------------------
(* Construction: CDataReader(), InitializeLayers(), StartTransportLayer(). *)
Init ==
  /\ created = TRUE
  /\ readEnabled = [l \in Layers |-> l \in EnabledLayers]
  /\ layerActive = [l \in Layers |-> FALSE]
  /\ hashQueue = << >>
  /\ idSet = {}
  /\ writerCounter = [p \in {} |-> 0]
  /\ clock = 0
  /\ messageDrops = 0
  /\ recvCb = FALSE
  /\ eventCb = [k \in EventKinds |-> FALSE]
  /\ SlotInit
  /\ conn = [p \in Pubs |-> "absent"]
  /\ connCount = 0
  /\ pc = [u \in Setters |-> "idle"]
  /\ evArg = [u \in Setters |-> "connected"]
  /\ stopPc = "running"
  /\ regPc = "idle"
  /\ regPub \in Pubs
  /\ fired = {}
  /\ acceptLog = << >>
  /\ applies = [p \in Pubs |-> 0]
  /\ ingressPc = "idle"

-----------------------------------------------------------------------------
(* Ingress: ApplySample and the helpers it calls.                         *)

\* std::find over m_sample_hash_queue
HashSeen(h) == \E i \in 1..Len(hashQueue) : hashQueue[i] = h

\* mutant: the trimming pop_front loop dropped
PushHashNoTrim(q, h) == Append(q, h)

\* push_back, then pop_front while the queue is longer than hash_queue_size
PushHash(q, h) ==
  LET q1 == Append(q, h)
  IN  IF Len(q1) > HashQueueSize THEN Tail(q1) ELSE q1

\* the id check: an empty m_id_set lets every id through
PassesIdFilter(id) == idSet = {} \/ id \in idSet

\* mutant: a clock difference of 0 taken as the next message
ClockVerdictDupAccepted(p, c) ==
  IF p \notin DOMAIN writerCounter THEN "first"
  ELSE LET d == c - writerCounter[p]
       IN  CASE d \in {0, 1} -> "next"
             [] d > 1 -> "gap"
             [] OTHER -> IF DropOutOfOrder THEN "reorder_drop"
                                          ELSE "reorder_keep"

\* CheckMessageClock: how a clock is classified against the stored one
ClockVerdict(p, c) ==
  IF p \notin DOMAIN writerCounter THEN "first"
  ELSE LET d == c - writerCounter[p]
       IN  CASE d = 1 -> "next"
             [] d = 0 -> "duplicate"
             [] d > 1 -> "gap"
             [] OTHER -> IF DropOutOfOrder THEN "reorder_drop"
                                          ELSE "reorder_keep"

\* verdicts on which CheckMessageClock returns true
Accepting == {"first", "next", "gap", "reorder_keep"}

\* mutant: the reorder branch under the keep policy updates the counter
NewWriterCounterOnReorder(p, c, v) ==
  IF v \in Accepting
  THEN [x \in DOMAIN writerCounter \cup {p} |->
          IF x = p THEN c ELSE writerCounter[x]]
  ELSE writerCounter

\* CheckMessageClock: the stored clock after the check
NewWriterCounter(p, c, v) ==
  IF v \in {"first", "next", "gap"}
  THEN [x \in DOMAIN writerCounter \cup {p} |->
          IF x = p THEN c ELSE writerCounter[x]]
  ELSE writerCounter

\* CheckMessageClock: m_message_drops += clock_difference on a gap
NewMessageDrops(p, c, v) ==
  IF v = "gap" THEN messageDrops + (c - writerCounter[p]) ELSE messageDrops

\* ApplySample, from "execute callback": either the receive callback, whose
\* m_connection_map[pub_info] inserts a default entry for an unknown
\* publisher, or the read buffer and its condition variable
DeliverSample(p) ==
  IF recvCb
  THEN /\ conn' = IF conn[p] = "absent" THEN [conn EXCEPT ![p] = "phantom"]
                                        ELSE conn
       /\ UNCHANGED slotVars
  ELSE /\ BufferSample
       /\ UNCHANGED conn

\* ApplySample: the hash is in m_sample_hash_queue, return(size_)
DiscardDuplicate(p, c) ==
  /\ HashSeen(<<p, c>>)
  /\ fired' = {}
  /\ UNCHANGED <<hashQueue, writerCounter, clock, messageDrops, acceptLog,
                 conn, slotVars>>

\* ApplySample: a new hash is queued, then the id check or
\* CheckMessageClock rejects the sample, return(0)
RejectSample(p, c, id) ==
  /\ ~HashSeen(<<p, c>>)
  /\ hashQueue' = PushHash(hashQueue, <<p, c>>)
  /\ ~PassesIdFilter(id) \/ ClockVerdict(p, c) \notin Accepting
  /\ fired' = {}
  /\ UNCHANGED <<writerCounter, clock, messageDrops, acceptLog, conn,
                 slotVars>>

\* ApplySample: a new hash is queued, the id check and CheckMessageClock
\* pass (firing the dropped event on a gap), m_clock++, and the sample
\* goes to the receive callback or to the read buffer
AcceptSample(p, c, id) ==
  LET v == ClockVerdict(p, c)
  IN  /\ ~HashSeen(<<p, c>>)
      /\ hashQueue' = PushHash(hashQueue, <<p, c>>)
      /\ PassesIdFilter(id)
      /\ v \in Accepting
      /\ writerCounter' = NewWriterCounter(p, c, v)
      /\ messageDrops' = NewMessageDrops(p, c, v)
      /\ clock' = clock + 1
      /\ acceptLog' = Append(acceptLog, <<p, c>>)
      /\ fired' = (IF v = "gap" /\ eventCb["dropped"] THEN {"dropped"} ELSE {})
                  \cup (IF recvCb THEN {"receive"} ELSE {})
      /\ DeliverSample(p)

\* ApplySample(topic_info_, ..., id_, clock_, ..., hash_, layer_) of a sample
\* of publisher p with send clock c and filter id id arriving on layer l,
\* after `if (!m_created) return(0);`, on an enabled layer
ProcessSample(l, p, c, id) ==
  /\ l \in EnabledLayers
  /\ layerActive' = [layerActive EXCEPT ![l] = TRUE]
  /\ DiscardDuplicate(p, c) \/ RejectSample(p, c, id) \/ AcceptSample(p, c, id)
  /\ UNCHANGED <<created, readEnabled, idSet, recvCb, eventCb, connCount,
                 userVars, stopPc, regVars, applies>>

\* ApplySample: lock m_receive_callback_mtx and check m_created; a false
\* m_created returns 0 and releases the lock, so only the true case is a
\* step. MaxAccepted bounds m_clock.
ApplySampleBegin ==
  /\ ingressPc = "idle"
  /\ created
  /\ clock < MaxAccepted
  /\ ingressPc' = "checked"
  /\ fired' = {}
  /\ UNCHANGED <<created, readEnabled, layerActive, hashQueue, idSet,
                 writerCounter, clock, messageDrops, recvCb, eventCb, slotVars,
                 conn, connCount, userVars, stopPc, regVars, acceptLog, applies>>

\* the rest of ApplySample under the lock, then its release: a layer that
\* is not enabled returns 0 with no state change
ApplySample(l, p, c, id) ==
  /\ ingressPc = "checked"
  /\ ingressPc' = "idle"
  /\ \/ ProcessSample(l, p, c, id)
     \/ /\ l \notin EnabledLayers
        /\ fired' = {}
        /\ UNCHANGED <<created, readEnabled, layerActive, hashQueue, idSet,
                       writerCounter, clock, messageDrops, recvCb, eventCb,
                       slotVars, conn, connCount, userVars, stopPc, regVars,
                       acceptLog, applies>>

-----------------------------------------------------------------------------
(* Registration thread: ApplyPublication, RemovePublication, Fire*Event.  *)

\* GetConnectionCount over a connection map
ActiveCount(cm) == Cardinality({p \in Pubs : cm[p] = "active"})

\* ApplyPublication(publication_info_, data_type_info_, ...): the part
\* under m_connection_map_mtx; the event is fired by FireEvent
ApplyPublication(p) ==
  /\ regPc = "idle"
  /\ LET conn1 == [conn EXCEPT ![p] = IF conn[p] = "absent" THEN "inactive"
                                                            ELSE "active"]
     IN  /\ conn' = conn1
         /\ connCount' = ActiveCount(conn1)
  /\ regPc' = CASE conn[p] \in {"phantom", "inactive"} -> "connected"
                [] conn[p] = "active"                 -> "update_connection"
                [] OTHER                              -> "idle"
  /\ regPub' = p
  /\ applies' = [applies EXCEPT ![p] = IF @ < 2 THEN @ + 1 ELSE 2]
  /\ fired' = {}
  /\ UNCHANGED <<created, readEnabled, idSet, recvCb, eventCb, ingressVars,
                 slotVars, userVars, stopPc>>

\* RemovePublication(publication_info_): erase, then fire the disconnect
\* event if the map is now empty
RemovePublication(p) ==
  /\ regPc = "idle"
  /\ LET conn1 == [conn EXCEPT ![p] = "absent"]
     IN  /\ conn' = conn1
         /\ connCount' = ActiveCount(conn1)
         /\ regPc' = IF \A q \in Pubs : conn1[q] = "absent"
                     THEN "disconnected" ELSE "idle"
  /\ regPub' = p
  /\ applies' = [applies EXCEPT ![p] = 0]
  /\ fired' = {}
  /\ UNCHANGED <<created, readEnabled, idSet, recvCb, eventCb, ingressVars,
                 slotVars, userVars, stopPc>>

\* FireConnectEvent / FireUpdateEvent / FireDisconnectEvent: under
\* m_event_callback_map_mtx, invoke the callback of that kind if one is set
FireEvent ==
  /\ regPc # "idle"
  /\ fired' = IF eventCb[regPc] THEN {regPc} ELSE {}
  /\ regPc' = "idle"
  /\ UNCHANGED <<created, readEnabled, idSet, recvCb, eventCb, ingressVars,
                 slotVars, conn, connCount, userVars, stopPc, regPub,
                 applies>>

-----------------------------------------------------------------------------
(* User threads.                                                          *)

\* the first half of a setter: `if (!m_created) return(false);`
BeginSetter(u, op, k) ==
  /\ pc[u] = "idle"
  /\ created
  /\ pc' = [pc EXCEPT ![u] = op]
  /\ evArg' = [evArg EXCEPT ![u] = k]
  /\ fired' = {}
  /\ UNCHANGED <<created, readEnabled, idSet, recvCb, eventCb, ingressVars,
                 slotVars, conn, connCount, stopPc, regVars, applies>>

\* the second half: the assignment under its mutex
\* AddReceiveCallback / RemReceiveCallback: m_receive_callback = ...
SetReceiveCallback(u) ==
  /\ pc[u] \in {"add_recv", "rem_recv"}
  /\ ingressPc = "idle"
  /\ recvCb' = (pc[u] = "add_recv")
  /\ pc' = [pc EXCEPT ![u] = "idle"]
  /\ fired' = {}
  /\ UNCHANGED <<created, readEnabled, idSet, eventCb, ingressVars,
                 slotVars, conn, connCount, evArg, stopPc, regVars, applies>>

\* AddEventCallback / RemEventCallback: m_event_callback_map[type_] = ...
SetEventCallback(u) ==
  /\ pc[u] \in {"add_event", "rem_event"}
  /\ eventCb' = [eventCb EXCEPT ![evArg[u]] = (pc[u] = "add_event")]
  /\ pc' = [pc EXCEPT ![u] = "idle"]
  /\ fired' = {}
  /\ UNCHANGED <<created, readEnabled, idSet, recvCb, ingressVars,
                 slotVars, conn, connCount, evArg, stopPc, regVars, applies>>

\* SetFilterIDs(filter_ids_): m_id_set = filter_ids_, without any lock
SetFilterIDs(ids) ==
  /\ idSet' = ids
  /\ fired' = {}
  /\ UNCHANGED <<created, readEnabled, recvCb, eventCb, ingressVars,
                 slotVars, conn, connCount, userVars, stopPc, regVars,
                 applies>>

-----------------------------------------------------------------------------
(* Stop(), by the owner of the reader (its destructor or Destroy()).      *)

\* `if (!m_created) return false;` and StopTransportLayer()
StopLayers ==
  /\ stopPc = "running"
  /\ created
  /\ readEnabled' = [l \in Layers |-> IF l \in EnabledLayers THEN FALSE
                                                          ELSE readEnabled[l]]
  /\ stopPc' = "clear_recv"
  /\ fired' = {}
  /\ UNCHANGED <<created, layerActive, hashQueue, idSet, writerCounter, clock,
                 messageDrops, recvCb, eventCb, slotVars, conn, connCount,
                 userVars, regVars, acceptLog, applies, ingressPc>>

\* m_receive_callback = nullptr under m_receive_callback_mtx
StopClearReceive ==
  /\ stopPc = "clear_recv"
  /\ ingressPc = "idle"
  /\ recvCb' = FALSE
  /\ stopPc' = "clear_events"
  /\ fired' = {}
  /\ UNCHANGED <<created, readEnabled, idSet, eventCb, ingressVars,
                 slotVars, conn, connCount, userVars, regVars, applies>>

\* m_event_callback_map.clear() under m_event_callback_map_mtx
StopClearEvents ==
  /\ stopPc = "clear_events"
  /\ eventCb' = [k \in EventKinds |-> FALSE]
  /\ stopPc' = "mark"
  /\ fired' = {}
  /\ UNCHANGED <<created, readEnabled, idSet, recvCb, ingressVars,
                 slotVars, conn, connCount, userVars, regVars, applies>>

\* m_created = false; Unregister(); return true
StopMark ==
  /\ stopPc = "mark"
  /\ created' = FALSE
  /\ stopPc' = "stopped"
  /\ fired' = {}
  /\ UNCHANGED <<readEnabled, idSet, recvCb, eventCb, ingressVars,
                 slotVars, conn, connCount, userVars, regVars, applies>>

-----------------------------------------------------------------------------
Next ==
  \/ ApplySampleBegin
  \/ \E l \in Layers, p \in Pubs, c \in Clocks, id \in Ids :
       ApplySample(l, p, c, id)
  \/ \E p \in Pubs : ApplyPublication(p) \/ RemovePublication(p)
  \/ FireEvent
  \/ \E u \in Setters :
       \/ BeginSetter(u, "add_recv", evArg[u])
       \/ BeginSetter(u, "rem_recv", evArg[u])
       \/ \E k \in EventKinds : BeginSetter(u, "add_event", k)
                                \/ BeginSetter(u, "rem_event", k)
       \/ SetReceiveCallback(u)
       \/ SetEventCallback(u)
  \/ \E ids \in SUBSET Ids : SetFilterIDs(ids)
  \/ /\ ReaderStep(created)
     /\ fired' = {}
     /\ UNCHANGED <<created, readEnabled, idSet, recvCb, eventCb, ingressVars,
                    conn, connCount, userVars, stopPc, regVars, applies>>
  \/ StopLayers \/ StopClearReceive \/ StopClearEvents \/ StopMark

Spec == Init /\ [][Next]_vars

-----------------------------------------------------------------------------
(* Properties.                                                            *)

\* Indices of the accepted samples of publisher p, in acceptance order.
AcceptedOf(p) == {i \in 1..Len(acceptLog) : acceptLog[i][1] = p}

(* The clock cursor of CheckMessageClock is the largest clock accepted    *)
(* from that publisher: the reorder branch under the keep policy must not  *)
(* pull it back ("do not update the internal clock counter"), and every   *)
(* publisher with a cursor has had a sample accepted.                      *)
CursorIsMaxAccepted ==
  /\ DOMAIN writerCounter = {acceptLog[i][1] : i \in 1..Len(acceptLog)}
  /\ \A p \in DOMAIN writerCounter :
       /\ \A i \in AcceptedOf(p) : acceptLog[i][2] <= writerCounter[p]
       /\ \E i \in AcceptedOf(p) : acceptLog[i][2] = writerCounter[p]

(* P1 of the spec under the drop policy: the clocks ApplySample accepts   *)
(* from one publisher strictly increase, across all layers, even once a    *)
(* duplicate's hash has left the 64-entry hash queue.                      *)
AcceptedClocksIncrease ==
  DropOutOfOrder =>
    \A p \in Pubs : \A i, j \in AcceptedOf(p) :
      i < j => acceptLog[i][2] < acceptLog[j][2]

(* P6 of the spec: once Stop() has returned, no receive or event callback  *)
(* fires. The setters check m_created before taking their mutex, and       *)
(* Stop writes m_created = false outside m_receive_callback_mtx, so an      *)
(* ApplySample that saw it true may still run the callback.                *)
NoCallbackAfterStop ==
  [][stopPc = "stopped" => fired' = {}]_vars

(* P5 of the spec: RemovePublication decides to fire `disconnected` iff    *)
(* the count of active publishers drops from N > 0 to 0.                   *)
DisconnectIffLastActiveGone ==
  [][(regPc = "idle" /\ regPc' = "disconnected")
       <=> (connCount > 0 /\ connCount' = 0)]_vars

(* Section 3 of the spec: a publisher becomes active, and `connected` is   *)
(* decided, only on its second ApplyPublication.                           *)
ConnectedOnSecondApply ==
  [][(regPc = "idle" /\ regPc' = "connected") => applies'[regPub'] = 2]_vars

(* P3 and S2 of the spec: under the drop policy, m_message_drops counts    *)
(* the clocks skipped, i.e. the sum over gaps of (delta - 1).              *)
DropsCountLost ==
  DropOutOfOrder =>
    messageDrops =
      MapThenSumSet(LAMBDA p : writerCounter[p]
                               - acceptLog[CHOOSE i \in AcceptedOf(p) :
                                             \A j \in AcceptedOf(p) : i <= j][2]
                               + 1 - Cardinality(AcceptedOf(p)),
                    DOMAIN writerCounter)

\* the accepted samples, seen as the stream that IngressOrder delivers
Ingress == INSTANCE IngressOrder WITH delivered <- acceptLog

(* Under the drop policy (the runs checking it set DropOutOfOrder to TRUE)  *)
(* the reader implements IngressOrder: every                               *)
(* ApplySample either delivers a sample whose clock is above all clocks    *)
(* accepted from its publisher, across layers and past the hash window,    *)
(* or delivers nothing.                                                    *)
IngressRefinesOrder == Ingress!OrderSpec

=============================================================================
