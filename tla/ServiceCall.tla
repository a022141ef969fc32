---------------------------- MODULE ServiceCall ----------------------------
(***************************************************************************)
(* The blocking calls of CServiceClient in                                 *)
(* src/ecal/core/src/service/ecal_service_client.cpp: CallWithResponse and *)
(* CallWithCallback take a snapshot of the client instances, launch one    *)
(* std::async task per instance, then get() the futures in snapshot order, *)
(* folding the results into one return value.                              *)
(*                                                                         *)
(* Service discovery adds and removes servers at any time. A task's        *)
(* outcome is what CClientInstance returned ("ok": true, "failed": false)  *)
(* or that it threw ("throws"). A response is its call state.              *)
(***************************************************************************)
EXTENDS Naturals, Sequences, FiniteSets, SequencesExt

CONSTANTS
  Servers,    \* service servers a client instance may stand for
  Outcomes,   \* what an instance call may end in
  MaxCalls    \* bound on the calls the caller makes

ASSUME ServiceCallAssumption ==
  /\ IsFiniteSet(Servers)
  /\ Outcomes \subseteq {"ok", "failed", "throws"}
  /\ MaxCalls \in Nat

VARIABLES
  known,      \* m_service_client_impl->GetServiceIDs()
  pc,         \* caller: "idle", "collect" (futures launched), "done"
  withResp,   \* the call is CallWithResponse (else CallWithCallback)
  inst,       \* the snapshot `instances`, in order
  task,       \* per launched task: "running" or its outcome
  next,       \* index of the next future to get()
  responses,  \* service_response_vec_
  success,    \* overall_success / return_state
  calls       \* calls made so far

callVars == <<known, pc, withResp, inst, task, next, responses, success, calls>>

TaskStates == {"running"} \cup Outcomes

\* the call state of the response added for a finished task: the instance's
\* own response, or the error response of the catch block
Report(o) == IF o = "throws" THEN "error" ELSE o

CallTypeOK ==
  /\ known \subseteq Servers
  /\ pc \in {"idle", "collect", "done"}
  /\ withResp \in BOOLEAN
  /\ inst \in Seq(Servers)
  /\ task \in Seq(TaskStates) /\ Len(task) = Len(inst)
  /\ next \in 1..Len(inst) + 1
  /\ responses \in Seq({Report(o) : o \in Outcomes})
  /\ success \in BOOLEAN
  /\ calls \in 0..MaxCalls

CallInit ==
  /\ known \in SUBSET Servers
  /\ pc = "idle"
  /\ withResp = TRUE
  /\ inst = << >>
  /\ task = << >>
  /\ next = 1
  /\ responses = << >>
  /\ success = TRUE
  /\ calls = 0

\* the discovery side adds or removes a server of the implementation
Discover(s) ==
  /\ known' = IF s \in known THEN known \ {s} ELSE known \cup {s}
  /\ UNCHANGED <<pc, withResp, inst, task, next, responses, success, calls>>

\* GetClientInstances(): one CClientInstance per id GetServiceIDs()
\* returns, in the order the implementation's map yields them
GetClientInstances ==
  {s \in [1..Cardinality(known) -> known] : Range(s) = known}

\* a call takes its snapshot of instances and launches one std::async task
\* per instance
Launch ==
  /\ pc = "idle"
  /\ calls < MaxCalls
  /\ \E order \in GetClientInstances : inst' = order
  /\ task' = [i \in 1..Cardinality(known) |-> "running"]
  /\ next' = 1
  /\ success' = TRUE
  /\ pc' = "collect"
  /\ calls' = calls + 1
  /\ UNCHANGED known

\* CallWithResponse: launch, then `overall_success = true;
\* service_response_vec_.clear();`
BeginCallWithResponse ==
  /\ Launch
  /\ withResp' = TRUE
  /\ responses' = << >>

\* CallWithCallback: launch, then `return_state = true;`
BeginCallWithCallback ==
  /\ Launch
  /\ withResp' = FALSE
  /\ UNCHANGED responses

\* the async task of instance i returns or throws
FinishTask(i) ==
  /\ i \in 1..Len(task)
  /\ task[i] = "running"
  /\ \E o \in Outcomes : task' = [task EXCEPT ![i] = o]
  /\ UNCHANGED <<known, pc, withResp, inst, next, responses, success, calls>>

\* mutant: the catch block does not clear overall_success
CollectKeepsSuccess ==
  /\ pc = "collect"
  /\ withResp
  /\ next <= Len(inst)
  /\ task[next] # "running"
  /\ responses' = Append(responses, Report(task[next]))
  /\ success' = (success /\ task[next] # "failed")
  /\ next' = next + 1
  /\ UNCHANGED <<known, pc, withResp, inst, task, calls>>

\* CallWithResponse's loop: future.get() on the next future blocks until its
\* task is done; the result's response is appended and its flag and-ed in,
\* an exception appends an error response and clears overall_success
CollectResponse ==
  /\ pc = "collect"
  /\ withResp
  /\ next <= Len(inst)
  /\ task[next] # "running"
  /\ responses' = Append(responses, Report(task[next]))
  /\ success' = (success /\ task[next] = "ok")
  /\ next' = next + 1
  /\ UNCHANGED <<known, pc, withResp, inst, task, calls>>

\* CallWithCallback's loop: `return_state &= future.get();`, and
\* `return_state = false;` when get() throws
CollectCallback ==
  /\ pc = "collect"
  /\ ~withResp
  /\ next <= Len(inst)
  /\ task[next] # "running"
  /\ success' = (success /\ task[next] = "ok")
  /\ next' = next + 1
  /\ UNCHANGED <<known, pc, withResp, inst, task, responses, calls>>

\* all futures collected: the call returns success
Return ==
  /\ pc = "collect"
  /\ next = Len(inst) + 1
  /\ pc' = "done"
  /\ UNCHANGED <<known, withResp, inst, task, next, responses, success, calls>>

\* the caller takes the result and may call again
Consume ==
  /\ pc = "done"
  /\ pc' = "idle"
  /\ UNCHANGED <<known, withResp, inst, task, next, responses, success, calls>>

CallNext ==
  \/ \E s \in Servers : Discover(s)
  \/ BeginCallWithResponse \/ BeginCallWithCallback
  \/ \E i \in 1..Len(task) : FinishTask(i)
  \/ CollectResponse \/ CollectCallback \/ Return \/ Consume

CallSpec == CallInit /\ [][CallNext]_callVars

-----------------------------------------------------------------------------
(* When a call returns, it returns true iff every instance call returned   *)
(* true without throwing, and CallWithResponse's vector holds one response *)
(* per instance of its snapshot, in snapshot order, whatever order the     *)
(* async tasks finished in.                                                *)
CallResultMatchesTasks ==
  pc = "done" =>
    /\ success = (\A i \in 1..Len(task) : task[i] = "ok")
    /\ withResp => responses = [i \in 1..Len(task) |-> Report(task[i])]

=============================================================================
