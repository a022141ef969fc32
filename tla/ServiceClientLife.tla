------------------------- MODULE ServiceClientLife -------------------------
(***************************************************************************)
(* The lifetime of eCAL service client handles: the constructor, the       *)
(* destructor and the move operations of CServiceClient in                 *)
(* src/ecal/core/src/service/ecal_service_client.cpp, and what they do to  *)
(* the client gate's registry of client implementations.                   *)
(*                                                                         *)
(* A handle holds a shared CServiceClientImpl or, once moved from, nullptr. *)
(* g_clientgate() is non-null until the runtime shuts the gate down.       *)
(* A dereference of a null implementation crashes the process: the model   *)
(* records it and takes no step after it.                                  *)
(***************************************************************************)
EXTENDS FiniteSets

CONSTANTS
  Handles,   \* CServiceClient objects the program may construct
  Impls      \* CServiceClientImpl instances CreateInstance may return

\* m_service_client_impl after a move: nullptr
NoImpl == "nullptr"

\* CreateInstance returns a fresh, non-null std::shared_ptr
ASSUME ServiceClientLifeAssumption ==
  /\ IsFiniteSet(Impls)
  /\ Handles \cap Impls = {}
  /\ NoImpl \notin Impls

VARIABLES
  life,        \* per handle: "unborn", "live", "destroyed"
  holds,       \* per handle: m_service_client_impl
  used,        \* implementations created so far
  registered,  \* implementations registered with the client gate
  gateUp,      \* g_clientgate() != nullptr
  crashed      \* a step dereferenced a null m_service_client_impl

lifeVars == <<life, holds, used, registered, gateUp, crashed>>

LifeTypeOK ==
  /\ life \in [Handles -> {"unborn", "live", "destroyed"}]
  /\ holds \in [Handles -> Impls \cup {NoImpl}]
  /\ used \subseteq Impls
  /\ registered \subseteq used
  /\ gateUp \in BOOLEAN
  /\ crashed \in BOOLEAN

LifeInit ==
  /\ life = [h \in Handles |-> "unborn"]
  /\ holds = [h \in Handles |-> NoImpl]
  /\ used = {}
  /\ registered = {}
  /\ gateUp = TRUE
  /\ crashed = FALSE

\* g_clientgate()->Unregister(m_service_client_impl->GetServiceName(), ...)
\* for the implementation i a handle holds: a null i crashes
UnregisterHeld(i) ==
  IF ~gateUp THEN UNCHANGED <<registered, crashed>>
  ELSE IF i = NoImpl THEN /\ crashed' = TRUE
                          /\ UNCHANGED registered
  ELSE /\ registered' = registered \ {i}
       /\ UNCHANGED crashed

\* CServiceClient(service_name_, ...): CreateInstance, then Register when
\* the gate is up
Construct(h) ==
  /\ ~crashed
  /\ life[h] = "unborn"
  /\ \E i \in Impls \ used :
       /\ holds' = [holds EXCEPT ![h] = i]
       /\ used' = used \cup {i}
       /\ registered' = IF gateUp THEN registered \cup {i} ELSE registered
  /\ life' = [life EXCEPT ![h] = "live"]
  /\ UNCHANGED <<gateUp, crashed>>

\* ~CServiceClient(): Unregister when the gate is up, then reset
Destroy(h) ==
  /\ ~crashed
  /\ life[h] = "live"
  /\ UnregisterHeld(holds[h])
  /\ holds' = [holds EXCEPT ![h] = NoImpl]
  /\ life' = [life EXCEPT ![h] = "destroyed"]
  /\ UNCHANGED <<used, gateUp>>

\* CServiceClient(CServiceClient&& rhs): take rhs's implementation and
\* leave rhs holding nullptr
MoveConstruct(h, src) ==
  /\ ~crashed
  /\ life[h] = "unborn"
  /\ life[src] = "live"
  /\ holds' = [holds EXCEPT ![h] = holds[src], ![src] = NoImpl]
  /\ life' = [life EXCEPT ![h] = "live"]
  /\ UNCHANGED <<used, registered, gateUp, crashed>>

\* mutant: the old implementation is not unregistered
MoveAssignNoUnregister(h, src) ==
  /\ ~crashed
  /\ life[h] = "live"
  /\ life[src] = "live"
  /\ h # src
  /\ holds' = [holds EXCEPT ![h] = holds[src], ![src] = NoImpl]
  /\ UNCHANGED <<life, used, registered, gateUp, crashed>>

\* operator=(CServiceClient&& rhs), this != &rhs: Unregister the current
\* implementation when the gate is up, then take rhs's; a self-move
\* changes nothing
MoveAssign(h, src) ==
  /\ ~crashed
  /\ life[h] = "live"
  /\ life[src] = "live"
  /\ h # src
  /\ UnregisterHeld(holds[h])
  /\ holds' = [holds EXCEPT ![h] = holds[src], ![src] = NoImpl]
  /\ UNCHANGED <<life, used, gateUp>>

\* the runtime finalises: g_clientgate() returns nullptr from now on
GateDown ==
  /\ ~crashed
  /\ gateUp
  /\ gateUp' = FALSE
  /\ UNCHANGED <<life, holds, used, registered, crashed>>

LifeNext ==
  \/ \E h \in Handles :
       \/ Construct(h)
       \/ Destroy(h)
       \/ \E src \in Handles : MoveConstruct(h, src) \/ MoveAssign(h, src)
  \/ GateDown

LifeSpec == LifeInit /\ [][LifeNext]_lifeVars

-----------------------------------------------------------------------------
(* While the gate is up, it has exactly the implementations that live      *)
(* handles hold registered: a move-assignment unregisters the one it       *)
(* drops, and a moved-from handle holds none.                              *)
RegisteredIffHeld ==
  gateUp =>
    registered = {holds[h] : h \in {x \in Handles : life[x] = "live"
                                                 /\ holds[x] # NoImpl}}

(* A moved-from CServiceClient is left in a state its destructor and its   *)
(* move-assignment can handle: no step dereferences a null                 *)
(* m_service_client_impl.                                                  *)
NoNullImplDeref == ~crashed

=============================================================================
