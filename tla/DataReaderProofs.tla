-------------------------- MODULE DataReaderProofs --------------------------
(***************************************************************************)
(* Proofs about DataReader for every value of its constants.               *)
(***************************************************************************)
EXTENDS DataReader, TLAPS, FiniteSetTheorems

USE DataReaderAssumption

\* PushHash keeps a queue of hashes of at most HashQueueSize entries.
LEMMA PushHashType ==
  ASSUME NEW q \in Seq(Pubs \X Clocks), Len(q) <= HashQueueSize,
         NEW h \in Pubs \X Clocks
  PROVE  /\ PushHash(q, h) \in Seq(Pubs \X Clocks)
         /\ Len(PushHash(q, h)) <= HashQueueSize
BY DEF PushHash

\* GetConnectionCount is a natural number.
LEMMA ActiveCountType ==
  ASSUME NEW cm
  PROVE  ActiveCount(cm) \in Nat
<1>1. IsFiniteSet({p \in Pubs : cm[p] = "active"})
  BY FS_Subset
<1>2. QED
  BY <1>1, FS_CardinalityType DEF ActiveCount

\* The slot variables keep their types under every reader step.
LEMMA ReaderStepType ==
  ASSUME SlotTypeOK, NEW b, ReaderStep(b)
  PROVE  SlotTypeOK'
BY DEF SlotTypeOK, ReaderStep, ReadBegin, ReadWake, ReadTimeout, Drain,
       ReadPcs

\* BufferSample keeps the slot variables' types.
LEMMA BufferSampleType ==
  ASSUME SlotTypeOK, BufferSample
  PROVE  SlotTypeOK'
BY DEF SlotTypeOK, BufferSample, NotifyOne, Blocked

\* An ApplySample past its m_created check holds m_receive_callback_mtx
\* until it has processed its sample; the model bound on m_clock is taken
\* at that check, so it still holds when the body runs.
IngressBound == ingressPc = "checked" => clock < MaxAccepted

-----------------------------------------------------------------------------
(* Every variable of CDataReader keeps its type: TypeOK is an invariant.   *)
(* In particular m_sample_hash_queue never holds more than hash_queue_size *)
(* hashes, and m_writer_counter_map only holds clocks of known publishers. *)
THEOREM TypeCorrect == Spec => []TypeOK
<1>1. Init => TypeOK /\ IngressBound
  <2> SUFFICES ASSUME Init PROVE TypeOK /\ IngressBound
    OBVIOUS
  <2>1. /\ DOMAIN writerCounter \subseteq Pubs
        /\ writerCounter \in [DOMAIN writerCounter -> Clocks]
    BY DEF Init
  <2>2. SlotTypeOK
    BY DEF Init, SlotInit, SlotTypeOK, ReadPcs
  <2>3. /\ pc \in [Setters -> UserPcs]
        /\ evArg \in [Setters -> EventKinds]
        /\ conn \in [Pubs -> ConnStates]
        /\ eventCb \in [EventKinds -> BOOLEAN]
        /\ applies \in [Pubs -> 0..2]
    BY DEF Init, UserPcs, EventKinds, ConnStates
  <2>4. /\ hashQueue \in Seq(Pubs \X Clocks)
        /\ Len(hashQueue) <= HashQueueSize
        /\ acceptLog \in Seq(Pubs \X Clocks)
    BY DEF Init
  <2>5. /\ readEnabled \in [Layers -> BOOLEAN]
        /\ layerActive \in [Layers -> BOOLEAN]
    BY DEF Init
  <2>6. /\ clock \in 0..MaxAccepted
        /\ messageDrops \in Int
        /\ connCount \in Nat
    BY DEF Init
  <2>7. QED
    BY <2>1, <2>2, <2>3, <2>4, <2>5, <2>6 DEF Init, TypeOK, StopPhases, RegPcs,
                                              IngressBound
<1>2. TypeOK /\ IngressBound /\ [Next]_vars => TypeOK'
  <2> SUFFICES ASSUME TypeOK, IngressBound, [Next]_vars PROVE TypeOK'
    OBVIOUS
  <2>1. ASSUME NEW l \in Layers, NEW p \in Pubs, NEW c \in Clocks,
               NEW id \in Ids, ProcessSample(l, p, c, id),
               ingressPc' = "idle", clock < MaxAccepted
        PROVE  TypeOK'
    <3>1. CASE DiscardDuplicate(p, c)
      BY <2>1, <3>1 DEF ApplySample, ProcessSample, DiscardDuplicate, TypeOK,
                        SlotTypeOK, slotVars, userVars, regVars
    <3>2. CASE RejectSample(p, c, id)
      BY <2>1, <3>2, PushHashType DEF ApplySample, ProcessSample, RejectSample,
                                      TypeOK, SlotTypeOK, slotVars, userVars,
                                      regVars
    <3>3. CASE AcceptSample(p, c, id)
      <4> DEFINE v == ClockVerdict(p, c)
      <4>1. writerCounter' = NewWriterCounter(p, c, v)
        BY <3>3 DEF AcceptSample
      <4>2. /\ DOMAIN writerCounter' \subseteq Pubs
            /\ writerCounter' \in [DOMAIN writerCounter' -> Clocks]
        BY <4>1 DEF NewWriterCounter, TypeOK
      <4>3. v = "gap" => p \in DOMAIN writerCounter
        BY DEF ClockVerdict
      <4>4. messageDrops' \in Int
        BY <3>3, <4>3 DEF AcceptSample, NewMessageDrops, TypeOK
      <4>5. SlotTypeOK' /\ conn' \in [Pubs -> ConnStates]
        <5>1. CASE recvCb
          BY <3>3, <5>1 DEF AcceptSample, DeliverSample, TypeOK, SlotTypeOK,
                            slotVars, ConnStates
        <5>2. CASE ~recvCb
          <6>1. BufferSample /\ UNCHANGED conn
            BY <3>3, <5>2 DEF AcceptSample, DeliverSample
          <6>2. QED
            BY <6>1, BufferSampleType DEF TypeOK
        <5>3. QED
          BY <5>1, <5>2
      <4>6. fired' \subseteq EventKinds \cup {"receive"}
        BY <3>3 DEF AcceptSample, EventKinds
      <4>7. clock' \in 0..MaxAccepted
        BY <2>1, <3>3 DEF ApplySample, ProcessSample, AcceptSample, TypeOK
      <4>8. /\ hashQueue' \in Seq(Pubs \X Clocks)
            /\ Len(hashQueue') <= HashQueueSize
            /\ acceptLog' \in Seq(Pubs \X Clocks)
        <5>1. <<p, c>> \in Pubs \X Clocks
          OBVIOUS
        <5>2. hashQueue' = PushHash(hashQueue, <<p, c>>)
          BY <3>3 DEF AcceptSample
        <5>3. acceptLog' = Append(acceptLog, <<p, c>>)
          BY <3>3 DEF AcceptSample
        <5>4. hashQueue \in Seq(Pubs \X Clocks) /\ Len(hashQueue) <= HashQueueSize
          BY DEF TypeOK
        <5>5. acceptLog \in Seq(Pubs \X Clocks)
          BY DEF TypeOK
        <5>6. QED
          BY <5>1, <5>2, <5>3, <5>4, <5>5, PushHashType
      <4>9. layerActive' \in [Layers -> BOOLEAN]
        BY <2>1 DEF ApplySample, ProcessSample, TypeOK
      <4>10. UNCHANGED <<created, readEnabled, idSet, recvCb, eventCb,
                         connCount, userVars, stopPc, regVars, applies>>
        BY <2>1 DEF ApplySample, ProcessSample
      <4>11. QED
        BY <2>1, <4>2, <4>4, <4>5, <4>6, <4>7, <4>8, <4>9, <4>10
        DEF TypeOK, userVars, regVars
    <3>4. QED
      BY <2>1, <3>1, <3>2, <3>3 DEF ProcessSample
  <2>0. CASE ApplySampleBegin
    BY <2>0 DEF ApplySampleBegin, TypeOK, SlotTypeOK, slotVars, userVars,
                regVars
  <2>14. ASSUME NEW l \in Layers, NEW p \in Pubs, NEW c \in Clocks,
                NEW id \in Ids, ApplySample(l, p, c, id)
         PROVE  TypeOK'
    <3>1. ingressPc = "checked" /\ ingressPc' = "idle"
      BY <2>14 DEF ApplySample
    <3>2. CASE ProcessSample(l, p, c, id)
      BY <2>1, <3>1, <3>2 DEF IngressBound
    <3>3. CASE ~ProcessSample(l, p, c, id)
      BY <2>14, <3>1, <3>3 DEF ApplySample, TypeOK, SlotTypeOK, slotVars,
                               userVars, regVars
    <3>4. QED
      BY <3>2, <3>3
  <2>2. ASSUME NEW p \in Pubs, ApplyPublication(p) PROVE TypeOK'
    <3>1. connCount' \in Nat
      BY <2>2, ActiveCountType DEF ApplyPublication
    <3>2. conn' \in [Pubs -> ConnStates]
      BY <2>2 DEF ApplyPublication, TypeOK, ConnStates
    <3>3. regPc' \in RegPcs
      BY <2>2 DEF ApplyPublication, RegPcs, EventKinds
    <3>4. applies' \in [Pubs -> 0..2]
      BY <2>2 DEF ApplyPublication, TypeOK
    <3>5. QED
      BY <2>2, <3>1, <3>2, <3>3, <3>4 DEF ApplyPublication, TypeOK, SlotTypeOK,
                                          ingressVars, slotVars, userVars
  <2>3. ASSUME NEW p \in Pubs, RemovePublication(p) PROVE TypeOK'
    <3>1. connCount' \in Nat
      BY <2>3, ActiveCountType DEF RemovePublication
    <3>2. /\ conn' \in [Pubs -> ConnStates]
          /\ regPc' \in RegPcs
          /\ regPub' \in Pubs
          /\ applies' \in [Pubs -> 0..2]
          /\ fired' = {}
      BY <2>3 DEF RemovePublication, TypeOK, ConnStates, RegPcs, EventKinds
    <3>3. QED
      BY <2>3, <3>1, <3>2 DEF RemovePublication, TypeOK, SlotTypeOK,
                              ingressVars, slotVars, userVars
  <2>4. CASE FireEvent
    BY <2>4 DEF FireEvent, TypeOK, SlotTypeOK, RegPcs, ingressVars, slotVars,
                userVars
  <2>5. ASSUME NEW u \in Setters, NEW op \in UserPcs, NEW k \in EventKinds,
               BeginSetter(u, op, k)
        PROVE  TypeOK'
    BY <2>5 DEF BeginSetter, TypeOK, SlotTypeOK, ingressVars, slotVars,
                regVars
  <2>6. ASSUME NEW u \in Setters, SetReceiveCallback(u) PROVE TypeOK'
    BY <2>6 DEF SetReceiveCallback, TypeOK, SlotTypeOK, UserPcs, ingressVars,
                slotVars, regVars
  <2>7. ASSUME NEW u \in Setters, SetEventCallback(u) PROVE TypeOK'
    BY <2>7 DEF SetEventCallback, TypeOK, SlotTypeOK, UserPcs, ingressVars,
                slotVars, regVars
  <2>8. ASSUME NEW ids \in SUBSET Ids, SetFilterIDs(ids) PROVE TypeOK'
    BY <2>8 DEF SetFilterIDs, TypeOK, SlotTypeOK, ingressVars, slotVars,
                userVars, regVars
  <2>9. CASE /\ ReaderStep(created)
             /\ fired' = {}
             /\ UNCHANGED <<created, readEnabled, idSet, recvCb, eventCb,
                            ingressVars, conn, connCount, userVars, stopPc,
                            regVars, applies>>
    BY <2>9, ReaderStepType DEF TypeOK, ingressVars, userVars, regVars
  <2>10. CASE StopLayers \/ StopClearReceive \/ StopClearEvents \/ StopMark
    BY <2>10 DEF StopLayers, StopClearReceive, StopClearEvents, StopMark,
                 TypeOK, SlotTypeOK, StopPhases, ingressVars, slotVars,
                 userVars, regVars
  <2>11. CASE UNCHANGED vars
    BY <2>11 DEF vars, TypeOK, SlotTypeOK
  <2>12. \A u \in Setters : evArg[u] \in EventKinds
    BY DEF TypeOK
  <2>13. QED
    BY <2>0, <2>14, <2>2, <2>3, <2>4, <2>5, <2>6, <2>7, <2>8, <2>9, <2>10,
       <2>11, <2>12
    DEF Next, UserPcs
<1>3. IngressBound /\ [Next]_vars => IngressBound'
  <2> SUFFICES ASSUME IngressBound, [Next]_vars, ingressPc' = "checked"
               PROVE  clock' < MaxAccepted
    BY DEF IngressBound
  <2>1. CASE ApplySampleBegin
    BY <2>1 DEF ApplySampleBegin
  <2>2. CASE ~ApplySampleBegin
    \* no other step takes the lock, and while it is held m_clock is left alone
    BY <2>2 DEF Next, vars, IngressBound, ApplySample, ApplyPublication,
                RemovePublication, FireEvent, BeginSetter, SetReceiveCallback,
                SetEventCallback, SetFilterIDs, StopLayers, StopClearReceive,
                StopClearEvents, StopMark, ingressVars
  <2>3. QED
    BY <2>1, <2>2
<1>4. QED
  BY <1>1, <1>2, <1>3, PTL DEF Spec

-----------------------------------------------------------------------------
(* The clock cursor.                                                      *)

\* Only AcceptSample changes m_writer_counter_map or the acceptance log.
LEMMA CursorFrame ==
  ASSUME [Next]_vars
  PROVE  \/ \E p \in Pubs, c \in Clocks, id \in Ids : AcceptSample(p, c, id)
         \/ UNCHANGED <<writerCounter, acceptLog>>
<1>1. ASSUME NEW l \in Layers, NEW p \in Pubs, NEW c \in Clocks,
             NEW id \in Ids, ApplySample(l, p, c, id)
      PROVE  \/ AcceptSample(p, c, id)
             \/ UNCHANGED <<writerCounter, acceptLog>>
  BY <1>1 DEF ApplySample, ProcessSample, DiscardDuplicate, RejectSample
<1>2. QED
  BY <1>1 DEF Next, ApplySampleBegin, ApplyPublication, RemovePublication,
              FireEvent, BeginSetter, SetReceiveCallback, SetEventCallback, SetFilterIDs,
              StopLayers, StopClearReceive, StopClearEvents, StopMark,
              ingressVars, vars

\* An accepted sample extends the log by one entry and keeps the others.
LEMMA AcceptedOfStep ==
  ASSUME TypeOK, NEW p \in Pubs, NEW c \in Clocks,
         acceptLog' = Append(acceptLog, <<p, c>>),
         NEW q \in Pubs
  PROVE  /\ Len(acceptLog') = Len(acceptLog) + 1
         /\ \A i \in 1..Len(acceptLog) : acceptLog'[i] = acceptLog[i]
         /\ acceptLog'[Len(acceptLog) + 1] = <<p, c>>
         /\ AcceptedOf(q)' = AcceptedOf(q) \cup
                               (IF q = p THEN {Len(acceptLog) + 1} ELSE {})
BY DEF TypeOK, AcceptedOf

(* An accepted sample keeps the cursor at the largest accepted clock.    *)
LEMMA CursorAccept ==
  ASSUME TypeOK, CursorIsMaxAccepted,
         NEW p \in Pubs, NEW c \in Clocks, NEW id \in Ids,
         AcceptSample(p, c, id)
  PROVE  CursorIsMaxAccepted'
<1> DEFINE v == ClockVerdict(p, c)
           L == Len(acceptLog)
<1>1. /\ writerCounter' = NewWriterCounter(p, c, v)
      /\ acceptLog' = Append(acceptLog, <<p, c>>)
      /\ v \in Accepting
  BY DEF AcceptSample
<1>2. \A q \in Pubs :
        /\ Len(acceptLog') = L + 1
        /\ \A i \in 1..L : acceptLog'[i] = acceptLog[i]
        /\ acceptLog'[L + 1] = <<p, c>>
        /\ AcceptedOf(q)' = AcceptedOf(q) \cup (IF q = p THEN {L + 1} ELSE {})
  BY <1>1, AcceptedOfStep
<1>3. DOMAIN writerCounter' = {acceptLog'[i][1] : i \in 1..Len(acceptLog')}
  <2>1. {acceptLog'[i][1] : i \in 1..Len(acceptLog')}
          = {acceptLog[i][1] : i \in 1..L} \cup {p}
    BY <1>2
  <2>2. DOMAIN writerCounter' = DOMAIN writerCounter \cup {p}
    <3>1. CASE v \in {"first", "next", "gap"}
      BY <1>1, <3>1 DEF NewWriterCounter
    <3>2. CASE v = "reorder_keep"
      BY <1>1, <3>2 DEF NewWriterCounter, ClockVerdict
    <3>3. QED
      BY <1>1, <3>1, <3>2 DEF Accepting
  <2>3. QED
    BY <2>1, <2>2 DEF CursorIsMaxAccepted
<1>7. /\ AcceptedOf(p)' = AcceptedOf(p) \cup {L + 1}
      /\ AcceptedOf(p) \subseteq 1..L
      /\ \A i \in AcceptedOf(p) : acceptLog'[i] = acceptLog[i]
      /\ acceptLog'[L + 1][2] = c
      /\ \A i \in AcceptedOf(p) : acceptLog[i][2] \in Int
  BY <1>2 DEF AcceptedOf, TypeOK
\* the publisher of the sample
<1>4. /\ \A i \in AcceptedOf(p)' : acceptLog'[i][2] <= writerCounter'[p]
      /\ \E i \in AcceptedOf(p)' : acceptLog'[i][2] = writerCounter'[p]
  <2>1. CASE v = "first"
    <3>1. p \notin DOMAIN writerCounter
      BY <2>1 DEF ClockVerdict
    <3>2. AcceptedOf(p) = {}
      BY <3>1 DEF CursorIsMaxAccepted, AcceptedOf
    <3>3. writerCounter'[p] = c
      BY <1>1, <2>1 DEF NewWriterCounter
    <3>4. c \in Int
      OBVIOUS
    <3>5. QED
      BY <1>7, <3>2, <3>3, <3>4
  <2>2. CASE v \in {"next", "gap"}
    <3>1. p \in DOMAIN writerCounter /\ c > writerCounter[p]
      BY <2>2 DEF ClockVerdict, TypeOK
    <3>2. \A i \in AcceptedOf(p) : acceptLog[i][2] <= writerCounter[p]
      BY <3>1 DEF CursorIsMaxAccepted
    <3>3. writerCounter'[p] = c
      BY <1>1, <2>2 DEF NewWriterCounter
    <3>4. writerCounter[p] \in Int /\ c \in Int
      BY <3>1 DEF TypeOK
    <3>5. QED
      BY <1>7, <3>1, <3>2, <3>3, <3>4
  <2>3. CASE v = "reorder_keep"
    <3>1. p \in DOMAIN writerCounter /\ c < writerCounter[p]
      BY <2>3 DEF ClockVerdict, TypeOK
    <3>2. writerCounter' = writerCounter
      BY <1>1, <2>3 DEF NewWriterCounter
    <3>3. /\ \A i \in AcceptedOf(p) : acceptLog[i][2] <= writerCounter[p]
          /\ \E i \in AcceptedOf(p) : acceptLog[i][2] = writerCounter[p]
      BY <3>1 DEF CursorIsMaxAccepted
    <3>4. writerCounter[p] \in Int /\ c \in Int
      BY <3>1 DEF TypeOK
    <3>5. QED
      BY <1>7, <3>1, <3>2, <3>3, <3>4
  <2>4. QED
    BY <1>1, <2>1, <2>2, <2>3 DEF Accepting
\* the other publishers
<1>5. ASSUME NEW q \in DOMAIN writerCounter', q # p
      PROVE  /\ \A i \in AcceptedOf(q)' : acceptLog'[i][2] <= writerCounter'[q]
             /\ \E i \in AcceptedOf(q)' : acceptLog'[i][2] = writerCounter'[q]
  <2>1. q \in DOMAIN writerCounter /\ writerCounter'[q] = writerCounter[q]
    BY <1>1, <1>5 DEF NewWriterCounter
  <2>2. q \in Pubs
    BY <2>1 DEF TypeOK
  <2>3. AcceptedOf(q)' = AcceptedOf(q) /\ AcceptedOf(q) \subseteq 1..L
    BY <1>2, <1>5, <2>2 DEF AcceptedOf
  <2>4. QED
    BY <1>2, <2>1, <2>3 DEF CursorIsMaxAccepted
<1>6. QED
  BY <1>3, <1>4, <1>5 DEF CursorIsMaxAccepted

(* CheckMessageClock keeps, per publisher, the largest clock it accepted: *)
(* the out-of-order branch under the keep policy never pulls the cursor   *)
(* back, so a later in-order sample is classified against the newest one.  *)
THEOREM CursorCorrect == Spec => []CursorIsMaxAccepted
<1>1. Init => CursorIsMaxAccepted
  BY DEF Init, CursorIsMaxAccepted, AcceptedOf
<1>2. TypeOK /\ CursorIsMaxAccepted /\ [Next]_vars => CursorIsMaxAccepted'
  <2> SUFFICES ASSUME TypeOK, CursorIsMaxAccepted, [Next]_vars
               PROVE  CursorIsMaxAccepted'
    OBVIOUS
  <2>1. CASE \E p \in Pubs, c \in Clocks, id \in Ids : AcceptSample(p, c, id)
    BY <2>1, CursorAccept
  <2>2. CASE UNCHANGED <<writerCounter, acceptLog>>
    BY <2>2 DEF CursorIsMaxAccepted, AcceptedOf
  <2>3. QED
    BY <2>1, <2>2, CursorFrame
<1>3. QED
  BY <1>1, <1>2, TypeCorrect, PTL DEF Spec

-----------------------------------------------------------------------------
(* Ordered delivery under the drop policy.                                *)

\* Under the drop policy an accepted sample is above every clock accepted
\* before from its publisher.
LEMMA AcceptFresh ==
  ASSUME TypeOK, CursorIsMaxAccepted, DropOutOfOrder,
         NEW p \in Pubs, NEW c \in Clocks, NEW id \in Ids,
         AcceptSample(p, c, id)
  PROVE  \A i \in 1..Len(acceptLog) : acceptLog[i][1] = p => acceptLog[i][2] < c
<1> DEFINE v == ClockVerdict(p, c)
<1>1. v \in {"first", "next", "gap"}
  BY DEF AcceptSample, Accepting, ClockVerdict
<1>2. CASE v = "first"
  <2>1. p \notin DOMAIN writerCounter
    BY <1>2 DEF ClockVerdict
  <2>2. QED
    BY <2>1 DEF CursorIsMaxAccepted
<1>3. CASE v \in {"next", "gap"}
  <2>1. p \in DOMAIN writerCounter /\ c > writerCounter[p]
    BY <1>3 DEF ClockVerdict, TypeOK
  <2>2. \A i \in AcceptedOf(p) : acceptLog[i][2] <= writerCounter[p]
    BY <2>1 DEF CursorIsMaxAccepted
  <2>3. \A i \in AcceptedOf(p) : acceptLog[i][2] \in Int
    BY DEF AcceptedOf, TypeOK
  <2>4. writerCounter[p] \in Int /\ c \in Int
    BY <2>1 DEF TypeOK
  <2>5. SUFFICES ASSUME NEW i \in 1..Len(acceptLog), acceptLog[i][1] = p
                 PROVE  acceptLog[i][2] < c
    OBVIOUS
  <2>6. i \in AcceptedOf(p)
    BY <2>5 DEF AcceptedOf
  <2>7. acceptLog[i][2] <= writerCounter[p] /\ acceptLog[i][2] \in Int
    BY <2>2, <2>3, <2>6
  <2>8. QED
    BY <2>1, <2>4, <2>7
<1>4. QED
  BY <1>1, <1>2, <1>3

(* ApplySample under the drop policy implements IngressOrder (spec P1):    *)
(* the accepted samples form a stream in which each publisher's clocks     *)
(* strictly increase. The refinement maps IngressOrder's delivered stream  *)
(* to the acceptance log; every other step of the reader is a stutter.     *)
THEOREM IngressRefinement == DropOutOfOrder => (Spec => IngressRefinesOrder)
<1> SUFFICES ASSUME DropOutOfOrder PROVE Spec => Ingress!OrderSpec
  BY DEF IngressRefinesOrder
<1>1. Init => Ingress!OrderInit
  BY DEF Init, Ingress!OrderInit
<1>2. TypeOK /\ CursorIsMaxAccepted /\ [Next]_vars
        => [Ingress!OrderNext]_acceptLog
  <2> SUFFICES ASSUME TypeOK, CursorIsMaxAccepted, [Next]_vars
               PROVE  [Ingress!OrderNext]_acceptLog
    OBVIOUS
  <2>1. CASE \E p \in Pubs, c \in Clocks, id \in Ids : AcceptSample(p, c, id)
    <3>1. PICK p \in Pubs, c \in Clocks, id \in Ids : AcceptSample(p, c, id)
      BY <2>1
    <3>2. \A i \in 1..Len(acceptLog) : acceptLog[i][1] = p => acceptLog[i][2] < c
      BY <3>1, AcceptFresh
    <3>3. acceptLog' = Append(acceptLog, <<p, c>>)
      BY <3>1 DEF AcceptSample
    <3>4. Ingress!Deliver(p, c)
      BY <3>2, <3>3 DEF Ingress!Deliver, Ingress!Fresh
    <3>5. QED
      BY <3>4 DEF Ingress!OrderNext
  <2>2. CASE UNCHANGED <<writerCounter, acceptLog>>
    BY <2>2
  <2>3. QED
    BY <2>1, <2>2, CursorFrame
<1>3. QED
  BY <1>1, <1>2, TypeCorrect, CursorCorrect, PTL DEF Spec, Ingress!OrderSpec

(* P1 under the drop policy, as the reader's invariant: the clocks         *)
(* ApplySample accepts from one publisher strictly increase, whatever the  *)
(* hash queue size and across all layers.                                  *)
THEOREM ClocksIncrease == Spec => []AcceptedClocksIncrease
<1>1. Init => AcceptedClocksIncrease
  BY DEF Init, AcceptedClocksIncrease, AcceptedOf
<1>2. TypeOK /\ CursorIsMaxAccepted /\ AcceptedClocksIncrease /\ [Next]_vars
        => AcceptedClocksIncrease'
  <2> SUFFICES ASSUME TypeOK, CursorIsMaxAccepted, AcceptedClocksIncrease,
                      [Next]_vars, DropOutOfOrder
               PROVE  AcceptedClocksIncrease'
    BY DEF AcceptedClocksIncrease
  <2>1. CASE \E p \in Pubs, c \in Clocks, id \in Ids : AcceptSample(p, c, id)
    <3>1. PICK p \in Pubs, c \in Clocks, id \in Ids : AcceptSample(p, c, id)
      BY <2>1
    <3> DEFINE L == Len(acceptLog)
    <3>2. \A i \in 1..L : acceptLog[i][1] = p => acceptLog[i][2] < c
      BY <3>1, AcceptFresh
    <3>3. acceptLog' = Append(acceptLog, <<p, c>>)
      BY <3>1 DEF AcceptSample
    <3>4. /\ Len(acceptLog') = L + 1
          /\ \A i \in 1..L : acceptLog'[i] = acceptLog[i]
          /\ acceptLog'[L + 1] = <<p, c>>
      BY <3>3 DEF TypeOK
    <3>5. \A q \in Pubs : \A i \in AcceptedOf(q) : acceptLog[i][2] \in Int
      BY DEF AcceptedOf, TypeOK
    <3>6. SUFFICES ASSUME NEW q \in Pubs, NEW i \in AcceptedOf(q)',
                          NEW j \in AcceptedOf(q)', i < j
                   PROVE  acceptLog'[i][2] < acceptLog'[j][2]
      BY DEF AcceptedClocksIncrease
    <3>7. i \in 1..L /\ acceptLog'[i] = acceptLog[i] /\ acceptLog[i][1] = q
      BY <3>4, <3>6 DEF AcceptedOf
    <3>8. CASE j \in 1..L
      BY <3>4, <3>6, <3>7, <3>8 DEF AcceptedClocksIncrease, AcceptedOf
    <3>9. CASE j = L + 1
      <4>1. q = p
        BY <3>4, <3>6, <3>9 DEF AcceptedOf
      <4>2. QED
        BY <3>2, <3>4, <3>7, <3>9, <4>1
    <3>10. QED
      BY <3>4, <3>6, <3>8, <3>9 DEF AcceptedOf
  <2>2. CASE UNCHANGED <<writerCounter, acceptLog>>
    BY <2>2 DEF AcceptedClocksIncrease, AcceptedOf
  <2>3. QED
    BY <2>1, <2>2, CursorFrame
<1>3. QED
  BY <1>1, <1>2, TypeCorrect, CursorCorrect, PTL DEF Spec

=============================================================================
