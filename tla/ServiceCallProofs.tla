-------------------------- MODULE ServiceCallProofs --------------------------
(***************************************************************************)
(* Proofs about CallWithResponse and CallWithCallback (ServiceCall): for   *)
(* any set of servers, outcomes and number of calls, a call returns the   *)
(* and of its instance results and the responses in snapshot order.      *)
(***************************************************************************)
EXTENDS ServiceCall, FiniteSetTheorems, SequenceTheorems, TLAPS

(* The inductive invariant. CallResultMatchesTasks speaks of the state at  *)
(* return only; during the collection loop the flag and the vector are    *)
(* those of the futures got so far, the tasks of those futures are done   *)
(* (their outcome cannot change any more), and the loop returns only past *)
(* the last future.                                                       *)
CollectInv ==
  /\ CallTypeOK
  /\ pc \in {"collect", "done"} =>
       /\ \A i \in 1..next - 1 : task[i] # "running"
       /\ success = (\A i \in 1..next - 1 : task[i] = "ok")
       /\ withResp => responses = [i \in 1..next - 1 |-> Report(task[i])]
  /\ pc = "done" => next = Len(task) + 1

-----------------------------------------------------------------------------
\* the snapshot a call launches on: one task per known server
LEMMA LaunchType ==
  ASSUME CallTypeOK, Launch
  PROVE  /\ inst' \in Seq(Servers)
         /\ task' \in Seq(TaskStates) /\ Len(task') = Len(inst')
         /\ \A i \in 1..Len(task') : task'[i] = "running"
         /\ next' = 1 /\ calls' \in 0..MaxCalls
<1>1. IsFiniteSet(known) /\ Cardinality(known) \in Nat
  BY ServiceCallAssumption, FS_Subset, FS_CardinalityType DEF CallTypeOK
<1>2. PICK order \in GetClientInstances : inst' = order
  BY DEF Launch
<1>3. inst' \in [1..Cardinality(known) -> Servers]
  BY <1>2 DEF GetClientInstances, CallTypeOK
<1> DEFINE n == Cardinality(known)
<1>4. inst' \in Seq(Servers) /\ Len(inst') = n
  BY <1>1, <1>3
<1>5. task' = [i \in 1..n |-> "running"]
  BY DEF Launch
<1>6. task' \in Seq(TaskStates) /\ Len(task') = n
  BY <1>1, <1>5 DEF TaskStates
<1>7. next' = 1 /\ calls' \in 0..MaxCalls
  BY ServiceCallAssumption DEF Launch, CallTypeOK
<1>8. QED
  BY <1>4, <1>5, <1>6, <1>7

LEMMA InitCollectInv == CallInit => CollectInv
BY ServiceCallAssumption DEF CallInit, CollectInv, CallTypeOK

LEMMA NextCollectInv == CollectInv /\ [CallNext]_callVars => CollectInv'
<1> SUFFICES ASSUME CollectInv, [CallNext]_callVars PROVE CollectInv'
  OBVIOUS
<1> USE ServiceCallAssumption
<1>0. CallTypeOK
  BY DEF CollectInv
<1> USE <1>0
<1>c. pc \in {"collect", "done"} =>
        /\ \A i \in 1..next - 1 : task[i] # "running"
        /\ success = (\A i \in 1..next - 1 : task[i] = "ok")
        /\ withResp => responses = [i \in 1..next - 1 |-> Report(task[i])]
  BY DEF CollectInv
<1>d. pc = "done" => next = Len(task) + 1
  BY DEF CollectInv
<1>e. Len(inst) \in Nat /\ next \in Nat /\ Len(task) = Len(inst)
  BY DEF CallTypeOK
<1>1. ASSUME NEW s \in Servers, Discover(s) PROVE CollectInv'
  BY <1>1 DEF Discover, CollectInv, CallTypeOK
<1>2. CASE BeginCallWithResponse \/ BeginCallWithCallback
  <2>1. Launch
    BY <1>2 DEF BeginCallWithResponse, BeginCallWithCallback
  <2>2. /\ inst' \in Seq(Servers)
        /\ task' \in Seq(TaskStates) /\ Len(task') = Len(inst')
        /\ next' = 1 /\ calls' \in 0..MaxCalls
    BY <2>1, LaunchType
  <2>3. /\ withResp' \in BOOLEAN
        /\ withResp' => responses' = << >>
        /\ responses' \in Seq({Report(o) : o \in Outcomes})
    <3>1. CASE BeginCallWithResponse
      BY <3>1 DEF BeginCallWithResponse
    <3>2. CASE BeginCallWithCallback
      <4>1. withResp' = FALSE /\ responses' = responses
        BY <3>2 DEF BeginCallWithCallback
      <4>2. QED
        BY <4>1 DEF CallTypeOK
    <3>3. QED
      BY <1>2, <3>1, <3>2
  <2>4. known' = known /\ pc' = "collect" /\ success' = TRUE
    BY <2>1 DEF Launch
  <2>5. CallTypeOK'
    BY <2>2, <2>3, <2>4 DEF CallTypeOK
  <2>6. 1..next' - 1 = {}
    BY <2>2
  <2>7. withResp' => responses' = [i \in 1..next' - 1 |-> Report(task'[i])]
    BY <2>3, <2>6
  <2>8. QED
    BY <2>4, <2>5, <2>6, <2>7 DEF CollectInv
<1>3. ASSUME NEW k \in 1..Len(task), FinishTask(k) PROVE CollectInv'
  <2>0. UNCHANGED <<known, pc, withResp, inst, next, responses, success, calls>>
    BY <1>3 DEF FinishTask
  <2>1. task[k] = "running"
    BY <1>3 DEF FinishTask
  <2>2. ASSUME pc \in {"collect", "done"}, k < next PROVE FALSE
    <3>1. k \in 1..next - 1
      BY <2>2, <1>e
    <3>2. task[k] # "running"
      BY <2>2, <3>1, <1>c
    <3>3. QED
      BY <3>2, <2>1
  <2>3. pc # "done"
    BY <2>2, <1>d, <1>e
  <2>4. PICK o \in Outcomes : task' = [task EXCEPT ![k] = o]
    BY <1>3 DEF FinishTask
  <2>5. CallTypeOK'
    BY <2>0, <2>4 DEF CallTypeOK, TaskStates
  <2>6. pc = "collect" => \A i \in 1..next - 1 : task'[i] = task[i]
    BY <2>2, <2>4, <1>e DEF CallTypeOK
  <2>7. CASE pc = "idle"
    BY <2>0, <2>5, <2>7 DEF CollectInv
  <2>8. CASE pc = "collect"
    <3>1. \A i \in 1..next - 1 : task'[i] = task[i]
      BY <2>6, <2>8
    <3>2. \A i \in 1..next' - 1 : task'[i] # "running"
      BY <3>1, <2>0, <2>8, <1>c
    <3>3. success' = (\A i \in 1..next' - 1 : task'[i] = "ok")
      BY <3>1, <2>0, <2>8, <1>c
    <3>4. withResp' => responses' = [i \in 1..next' - 1 |-> Report(task'[i])]
      BY <3>1, <2>0, <2>8, <1>c
    <3>5. QED
      BY <2>0, <2>5, <2>8, <3>2, <3>3, <3>4 DEF CollectInv
  <2>9. QED
    BY <2>3, <2>7, <2>8 DEF CallTypeOK
<1>4. CASE CollectResponse
  <2>1. /\ pc = "collect" /\ withResp /\ next \in 1..Len(inst)
        /\ task[next] \in Outcomes
        /\ responses' = Append(responses, Report(task[next]))
        /\ success' = (success /\ task[next] = "ok")
        /\ next' = next + 1
        /\ UNCHANGED <<known, pc, withResp, inst, task, calls>>
    BY <1>4 DEF CollectResponse, CallTypeOK, CollectInv, TaskStates
  <2>2. responses = [i \in 1..next - 1 |-> Report(task[i])]
    BY <2>1, <1>c
  <2>3. 1..next = (1..next - 1) \cup {next}
    BY <2>1, <1>e
  <2>4. /\ responses \in Seq({Report(o) : o \in Outcomes})
        /\ Len(responses) = next - 1
        /\ Report(task[next]) \in {Report(o) : o \in Outcomes}
    BY <2>1, <2>2, <1>e DEF CallTypeOK
  <2>5. /\ responses' \in Seq({Report(o) : o \in Outcomes})
        /\ Len(responses') = next
        /\ \A i \in 1..next - 1 : responses'[i] = Report(task[i])
        /\ responses'[next] = Report(task[next])
    BY <2>1, <2>2, <2>4, <1>e, AppendProperties
  <2>6. responses' = [i \in 1..next |-> Report(task[i])]
    BY <2>3, <2>5
  <2>7. success' = (\A i \in 1..next : task[i] = "ok")
    BY <2>1, <2>3, <1>c
  <2>8. \A i \in 1..next : task[i] # "running"
    BY <2>1, <2>3, <1>c DEF TaskStates
  <2>9. CallTypeOK'
    BY <2>1, <2>5, <1>e DEF CallTypeOK
  <2>10. 1..next' - 1 = 1..next /\ task' = task
    BY <2>1, <1>e
  <2>11. /\ \A i \in 1..next' - 1 : task'[i] # "running"
         /\ success' = (\A i \in 1..next' - 1 : task'[i] = "ok")
         /\ withResp' => responses' = [i \in 1..next' - 1 |-> Report(task'[i])]
    BY <2>6, <2>7, <2>8, <2>10
  <2>12. QED
    BY <2>1, <2>9, <2>10, <2>11 DEF CollectInv
<1>5. CASE CollectCallback
  <2>1. /\ pc = "collect" /\ ~withResp /\ next \in 1..Len(inst)
        /\ task[next] \in Outcomes
        /\ success' = (success /\ task[next] = "ok")
        /\ next' = next + 1
        /\ UNCHANGED <<known, pc, withResp, inst, task, responses, calls>>
    BY <1>5 DEF CollectCallback, CallTypeOK, CollectInv, TaskStates
  <2>2. 1..next = (1..next - 1) \cup {next}
    BY <2>1, <1>e
  <2>3. success' = (\A i \in 1..next : task[i] = "ok")
    BY <2>1, <2>2, <1>c
  <2>4. \A i \in 1..next : task[i] # "running"
    BY <2>1, <2>2, <1>c DEF TaskStates
  <2>5. CallTypeOK'
    BY <2>1, <1>e DEF CallTypeOK
  <2>6. 1..next' - 1 = 1..next /\ task' = task
    BY <2>1, <1>e
  <2>7. /\ \A i \in 1..next' - 1 : task'[i] # "running"
        /\ success' = (\A i \in 1..next' - 1 : task'[i] = "ok")
    BY <2>1, <2>3, <2>4, <2>6
  <2>8. withResp' = FALSE
    BY <2>1 DEF CallTypeOK
  <2>9. QED
    BY <2>1, <2>5, <2>7, <2>8 DEF CollectInv
<1>6. CASE Return
  BY <1>6 DEF Return, CollectInv, CallTypeOK
<1>7. CASE Consume
  BY <1>7 DEF Consume, CollectInv, CallTypeOK
<1>8. CASE UNCHANGED callVars
  BY <1>8 DEF callVars, CollectInv, CallTypeOK
<1>9. QED
  BY <1>1, <1>2, <1>3, <1>4, <1>5, <1>6, <1>7, <1>8 DEF CallNext

(* Whatever order the std::async tasks finish in and whatever discovery   *)
(* does meanwhile, when CallWithResponse or CallWithCallback returns, its *)
(* result is true iff every instance call returned true without throwing, *)
(* and CallWithResponse's vector holds one response per instance of its   *)
(* snapshot, in snapshot order.                                           *)
THEOREM CallResultCorrect == CallSpec => []CallResultMatchesTasks
<1>1. CollectInv => CallResultMatchesTasks
  BY DEF CollectInv, CallResultMatchesTasks, CallTypeOK
<1>2. QED
  BY <1>1, InitCollectInv, NextCollectInv, PTL DEF CallSpec

=============================================================================
