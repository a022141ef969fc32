---------------------- MODULE ServiceClientLifeProofs ----------------------
(***************************************************************************)
(* Proofs about the lifetime of CServiceClient handles (ServiceClientLife): *)
(* for any number of handles and implementations, while the client gate   *)
(* exists its registry holds exactly the implementations live handles     *)
(* hold.                                                                  *)
(***************************************************************************)
EXTENDS ServiceClientLife, TLAPS

\* the implementations the live handles hold
Held == {holds[h] : h \in {x \in Handles : life[x] = "live" /\ holds[x] # NoImpl}}

(* The inductive invariant. RegisteredIffHeld alone is not inductive: the  *)
(* destructor and the move assignment unregister the implementation their  *)
(* handle holds, which keeps the registry equal to Held only if no other   *)
(* live handle holds the same one (a move leaves its source holding        *)
(* nullptr), and the constructor adds a fresh one only if no handle holds  *)
(* an implementation that was never created. Only live handles hold one.  *)
LifeInv ==
  /\ LifeTypeOK
  /\ RegisteredIffHeld
  /\ \A h \in Handles : holds[h] # NoImpl => life[h] = "live" /\ holds[h] \in used
  /\ \A h, g \in Handles : h # g /\ holds[h] # NoImpl => holds[h] # holds[g]

-----------------------------------------------------------------------------
LEMMA InitLifeInv == LifeInit => LifeInv
BY ServiceClientLifeAssumption
   DEF LifeInit, LifeInv, LifeTypeOK, RegisteredIffHeld

\* the registry invariant, read through Held
LEMMA HeldIsRegistered ==
  RegisteredIffHeld <=> (gateUp => registered = Held)
BY DEF RegisteredIffHeld, Held

\* a handle whose implementation is replaced by i (or nullptr): Held loses
\* the old implementation and gains i
LEMMA HeldUpdate ==
  ASSUME LifeInv, NEW h \in Handles, NEW i,
         NEW lf \in {"unborn", "live", "destroyed"},
         holds' = [holds EXCEPT ![h] = i], life' = [life EXCEPT ![h] = lf]
  PROVE  Held' = (Held \ {holds[h]}) \cup (IF lf = "live" /\ i # NoImpl
                                           THEN {i} ELSE {})
<1> USE DEF LifeInv, LifeTypeOK
<1>1. ASSUME NEW x \in Held' PROVE x \in (Held \ {holds[h]}) \cup
                                    (IF lf = "live" /\ i # NoImpl THEN {i} ELSE {})
  <2>1. PICK g \in Handles : life'[g] = "live" /\ holds'[g] # NoImpl /\ x = holds'[g]
    BY <1>1 DEF Held
  <2>2. CASE g = h
    BY <2>1, <2>2
  <2>3. CASE g # h
    BY <2>1, <2>3 DEF Held
  <2>4. QED
    BY <2>2, <2>3
<1>2. ASSUME NEW x \in (Held \ {holds[h]}) \cup
                       (IF lf = "live" /\ i # NoImpl THEN {i} ELSE {})
      PROVE  x \in Held'
  <2>1. CASE x \in Held \ {holds[h]}
    <3>1. PICK g \in Handles : life[g] = "live" /\ holds[g] # NoImpl /\ x = holds[g]
      BY <2>1 DEF Held
    <3>2. g # h
      BY <2>1, <3>1
    <3>3. QED
      BY <3>1, <3>2 DEF Held
  <2>2. CASE lf = "live" /\ i # NoImpl /\ x = i
    BY <2>2 DEF Held
  <2>3. QED
    BY <1>2, <2>1, <2>2
<1>3. QED
  BY <1>1, <1>2

LEMMA NextLifeInv == LifeInv /\ [LifeNext]_lifeVars => LifeInv'
<1> SUFFICES ASSUME LifeInv, [LifeNext]_lifeVars PROVE LifeInv'
  OBVIOUS
<1> USE ServiceClientLifeAssumption
<1>1. ASSUME NEW h \in Handles, Construct(h) PROVE LifeInv'
  <2>1. PICK i \in Impls \ used :
          /\ holds' = [holds EXCEPT ![h] = i]
          /\ used' = used \cup {i}
          /\ registered' = IF gateUp THEN registered \cup {i} ELSE registered
    BY <1>1 DEF Construct
  <2>2. holds[h] = NoImpl /\ \A g \in Handles : holds[g] # i
    BY <1>1 DEF Construct, LifeInv
  <2>3. Held' = (Held \ {holds[h]}) \cup {i}
    BY <1>1, <2>1, HeldUpdate DEF Construct
  <2>4. holds[h] \notin Held
    BY <2>2 DEF Held
  <2>5. RegisteredIffHeld'
    <3>1. gateUp' = gateUp
      BY <1>1 DEF Construct
    <3>2. gateUp => registered = Held
      BY HeldIsRegistered DEF LifeInv
    <3>3. QED
      BY <2>1, <2>3, <2>4, <3>1, <3>2 DEF RegisteredIffHeld, Held
  <2>6. QED
    BY <1>1, <2>1, <2>2, <2>5 DEF Construct, LifeInv, LifeTypeOK
<1>2. ASSUME NEW h \in Handles, Destroy(h) PROVE LifeInv'
  <2>1. Held' = Held \ {holds[h]}
    BY <1>2, HeldUpdate DEF Destroy
  <2>2. gateUp' = gateUp /\ (gateUp /\ holds[h] # NoImpl => registered' = registered \ {holds[h]})
                         /\ (~gateUp \/ holds[h] = NoImpl => registered' = registered)
    BY <1>2 DEF Destroy, UnregisterHeld
  <2>3. holds[h] = NoImpl => holds[h] \notin Held
    BY DEF Held
  <2>4. RegisteredIffHeld'
    <3>1. gateUp => registered = Held
      BY HeldIsRegistered DEF LifeInv
    <3>2. QED
      BY <2>1, <2>2, <2>3, <3>1 DEF RegisteredIffHeld, Held
  <2>5. crashed' \in BOOLEAN
    BY <1>2 DEF Destroy, UnregisterHeld, LifeInv, LifeTypeOK
  <2>6. /\ holds' = [holds EXCEPT ![h] = NoImpl]
        /\ life' = [life EXCEPT ![h] = "destroyed"]
        /\ UNCHANGED <<used, gateUp>>
        /\ registered' \subseteq registered
    BY <1>2 DEF Destroy, UnregisterHeld
  <2>7. LifeTypeOK'
    BY <2>5, <2>6 DEF LifeInv, LifeTypeOK
  <2>8. \A g \in Handles : holds'[g] # NoImpl => life'[g] = "live" /\ holds'[g] \in used'
    BY <2>6 DEF LifeInv, LifeTypeOK
  <2>9. \A g, k \in Handles : g # k /\ holds'[g] # NoImpl => holds'[g] # holds'[k]
    BY <2>6 DEF LifeInv
  <2>10. QED
    BY <2>4, <2>7, <2>8, <2>9 DEF LifeInv
<1>3. ASSUME NEW h \in Handles, NEW src \in Handles, MoveConstruct(h, src)
      PROVE LifeInv'
  <2>1. h # src /\ holds[h] = NoImpl
    BY <1>3 DEF MoveConstruct, LifeInv
  <2>2. Held' = Held
    <3>1. ASSUME NEW x \in Held' PROVE x \in Held
      BY <1>3, <2>1, <3>1 DEF MoveConstruct, Held, LifeInv, LifeTypeOK
    <3>2. ASSUME NEW x \in Held PROVE x \in Held'
      BY <1>3, <2>1, <3>2 DEF MoveConstruct, Held, LifeInv, LifeTypeOK
    <3>3. QED
      BY <3>1, <3>2
  <2>3. RegisteredIffHeld'
    <3>1. gateUp => registered = Held
      BY HeldIsRegistered DEF LifeInv
    <3>2. QED
      BY <1>3, <2>2, <3>1 DEF MoveConstruct, RegisteredIffHeld, Held
  <2>4. QED
    BY <1>3, <2>1, <2>3 DEF MoveConstruct, LifeInv, LifeTypeOK
<1>4. ASSUME NEW h \in Handles, NEW src \in Handles, MoveAssign(h, src)
      PROVE LifeInv'
  <2>1. h # src /\ life[h] = "live" /\ life[src] = "live"
    BY <1>4 DEF MoveAssign
  <2>2. Held' = Held \ {holds[h]}
    <3>1. ASSUME NEW x \in Held' PROVE x \in Held \ {holds[h]}
      BY <1>4, <2>1, <3>1 DEF MoveAssign, Held, LifeInv, LifeTypeOK
    <3>2. ASSUME NEW x \in Held \ {holds[h]} PROVE x \in Held'
      BY <1>4, <2>1, <3>2 DEF MoveAssign, Held, LifeInv, LifeTypeOK
    <3>3. QED
      BY <3>1, <3>2
  <2>3. gateUp' = gateUp /\ (gateUp /\ holds[h] # NoImpl => registered' = registered \ {holds[h]})
                         /\ (~gateUp \/ holds[h] = NoImpl => registered' = registered)
    BY <1>4 DEF MoveAssign, UnregisterHeld
  <2>4. holds[h] = NoImpl => holds[h] \notin Held
    BY DEF Held
  <2>5. RegisteredIffHeld'
    <3>1. gateUp => registered = Held
      BY HeldIsRegistered DEF LifeInv
    <3>2. QED
      BY <2>2, <2>3, <2>4, <3>1 DEF RegisteredIffHeld, Held
  <2>6. crashed' \in BOOLEAN
    BY <1>4 DEF MoveAssign, UnregisterHeld, LifeInv, LifeTypeOK
  <2>7. /\ holds' = [holds EXCEPT ![h] = holds[src], ![src] = NoImpl]
        /\ UNCHANGED <<life, used, gateUp>>
        /\ registered' \subseteq registered
    BY <1>4 DEF MoveAssign, UnregisterHeld
  <2>8. LifeTypeOK'
    BY <2>6, <2>7 DEF LifeInv, LifeTypeOK
  <2>9. \A g \in Handles : holds'[g] # NoImpl => life'[g] = "live" /\ holds'[g] \in used'
    BY <2>1, <2>7 DEF LifeInv, LifeTypeOK
  <2>10. \A g, k \in Handles : g # k /\ holds'[g] # NoImpl => holds'[g] # holds'[k]
    BY <2>1, <2>7 DEF LifeInv, LifeTypeOK
  <2>11. QED
    BY <2>5, <2>8, <2>9, <2>10 DEF LifeInv
<1>5. CASE GateDown
  BY <1>5 DEF GateDown, LifeInv, LifeTypeOK, RegisteredIffHeld
<1>6. CASE UNCHANGED lifeVars
  BY <1>6 DEF lifeVars, LifeInv, LifeTypeOK, RegisteredIffHeld
<1>7. QED
  BY <1>1, <1>2, <1>3, <1>4, <1>5, <1>6 DEF LifeNext

(* While the client gate exists, its registry holds exactly the           *)
(* implementations that live CServiceClient handles hold, whatever        *)
(* sequence of constructions, destructions and moves the program runs:    *)
(* no implementation stays registered after its handle is gone or was     *)
(* moved over, and none is registered twice.                              *)
THEOREM RegistryMatchesHandles == LifeSpec => []RegisteredIffHeld
<1>1. LifeInv => RegisteredIffHeld
  BY DEF LifeInv
<1>2. QED
  BY <1>1, InitLifeInv, NextLifeInv, PTL DEF LifeSpec

=============================================================================
