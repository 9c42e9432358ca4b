-------------------------- MODULE SalComposite_proofs --------------------------
(***************************************************************************)
(* Theorems about SalComposite, for any finite number of interfaces the    *)
(* count has room for, whoever calls what when: the spoilers it lists are  *)
(* all there are.                                                          *)
(***************************************************************************)
EXTENDS SalComposite, FiniteSetTheorems, TLAPS

\* Every variable keeps its type; the count keeps to its eight bits.
LEMMA TypeInductive == TypeOK /\ [Next]_vars => TypeOK'
  <1> SUFFICES ASSUME TypeOK, [Next]_vars PROVE TypeOK'
    OBVIOUS
  <1> USE ModulusAssumption DEF TypeOK, shared, setup, Spoilers
  <1>0. 0 \in 0..(RefModulus - 1)
    OBVIOUS
  <1>1. ASSUME NEW p \in Phys, CompositeInit(p) PROVE TypeOK'
    BY <1>1 DEF CompositeInit, Begin, Quiet, Idle
  <1>2. CASE CompositeDeinit
    BY <1>2 DEF CompositeDeinit, Begin, Quiet, Idle
  <1>3. ASSUME NEW f \in todo, Store(f) PROVE TypeOK'
    <2>1. /\ phy' \in {NULL} \cup Phys
          /\ init_ref_count' \in 0..(RefModulus - 1)
          /\ spoilt' \subseteq Spoilers
      BY <1>0, <1>3 DEF Store
    <2> QED
      BY <1>3, <2>1 DEF Store
  <1>4. ASSUME NEW i \in Interfaces, Enter(i, "up") \/ Enter(i, "down")
        PROVE  TypeOK'
    <2>1. spoilt' \subseteq Spoilers
      BY <1>4 DEF Enter
    <2>2. /\ pc' \in [Interfaces -> {"idle", "up", "down"}]
          /\ seen' \in [Interfaces -> 0..(RefModulus - 1)]
      BY <1>4 DEF Enter
    <2> QED
      BY <1>4, <2>1, <2>2 DEF Enter
  <1>5. ASSUME NEW i \in Interfaces, EndUp(i) PROVE TypeOK'
    <2>1. (seen[i] + 1) % RefModulus \in 0..(RefModulus - 1)
      OBVIOUS
    <2> QED
      BY <1>0, <1>5, <2>1 DEF EndUp, Leave
  <1>6. ASSUME NEW i \in Interfaces, EndDown(i) PROVE TypeOK'
    <2>1. (seen[i] + RefModulus - 1) % RefModulus \in 0..(RefModulus - 1)
      OBVIOUS
    <2> QED
      BY <1>0, <1>6, <2>1 DEF EndDown, Leave
  <1>7. CASE UNCHANGED vars
    BY <1>7 DEF vars
  <1> QED
    BY <1>1, <1>2, <1>3, <1>4, <1>5, <1>6, <1>7 DEF Next

LEMMA TypeInitial == Init => TypeOK
  <1>1. 0 \in 0..(RefModulus - 1)
    BY ModulusAssumption
  <1> QED
    BY <1>1 DEF Init, TypeOK, Spoilers

THEOREM TypeCorrect == Spec => []TypeOK
  BY TypeInitial, TypeInductive, PTL DEF Spec

-----------------------------------------------------------------------------
(* The count.                                                              *)

\* Counting one more or one less interface stays inside the count.
LEMMA CountStep ==
  ASSUME CountFits, NEW S \in SUBSET Interfaces, NEW i \in Interfaces
  PROVE  /\ Cardinality(S) \in Nat /\ Cardinality(S) < RefModulus
         /\ Cardinality(S) = 0 <=> S = {}
         /\ i \notin S =>
              /\ Cardinality(S \cup {i}) = Cardinality(S) + 1
              /\ (Cardinality(S) + 1) % RefModulus = Cardinality(S) + 1
         /\ i \in S =>
              /\ Cardinality(S \ {i}) = Cardinality(S) - 1
              /\ (Cardinality(S) + RefModulus - 1) % RefModulus
                   = Cardinality(S) - 1
  <1>1. \A T \in SUBSET Interfaces :
          /\ IsFiniteSet(T) /\ Cardinality(T) \in Nat
          /\ Cardinality(T) < RefModulus
    <2> SUFFICES ASSUME NEW T \in SUBSET Interfaces
                 PROVE  /\ IsFiniteSet(T) /\ Cardinality(T) \in Nat
                        /\ Cardinality(T) < RefModulus
      OBVIOUS
    <2>1. IsFiniteSet(T) /\ Cardinality(T) <= Cardinality(Interfaces)
      BY FS_Subset DEF CountFits
    <2>2. Cardinality(T) \in Nat /\ Cardinality(Interfaces) \in Nat
      BY <2>1, FS_CardinalityType DEF CountFits
    <2> QED
      BY <2>1, <2>2, ModulusAssumption DEF CountFits
  <1>2. Cardinality(S) = 0 <=> S = {}
    BY <1>1, FS_EmptySet
  <1>3. ASSUME i \notin S
        PROVE  /\ Cardinality(S \cup {i}) = Cardinality(S) + 1
               /\ (Cardinality(S) + 1) % RefModulus = Cardinality(S) + 1
    <2>1. Cardinality(S \cup {i}) = Cardinality(S) + 1
      BY <1>1, <1>3, FS_AddElement
    <2>2. Cardinality(S) + 1 \in Nat /\ Cardinality(S) + 1 < RefModulus
      BY <1>1, <2>1
    <2> QED
      BY <2>1, <2>2, ModulusAssumption
  <1>4. ASSUME i \in S
        PROVE  /\ Cardinality(S \ {i}) = Cardinality(S) - 1
               /\ (Cardinality(S) + RefModulus - 1) % RefModulus
                    = Cardinality(S) - 1
    <2>1. Cardinality(S \ {i}) = Cardinality(S) - 1
      BY <1>1, <1>4, FS_RemoveElement
    <2>2. Cardinality(S) - 1 \in Nat /\ Cardinality(S) - 1 < RefModulus
      BY <1>1, <2>1
    <2>3. (Cardinality(S) - 1 + RefModulus) % RefModulus = Cardinality(S) - 1
      BY <2>2, ModulusAssumption
    <2> QED
      BY <1>1, <2>1, <2>3, ModulusAssumption
  <1> QED
    BY <1>1, <1>2, <1>3, <1>4

\* A call that has the struct to itself has left zeroes where it has stored.
AloneInv ==
  todo # {} /\ alone =>
    /\ Quiet
    /\ "init_ref_count" \notin todo => init_ref_count = 0
    /\ "hw_initialized" \notin todo => ~hw_initialized

\* While nothing is spoilt, at most one provider is at work, outside any call of
\* the two functions, and the count it has loaded is still the count.
ExactInv ==
  /\ ExactUnlessSpoilt
  /\ spoilt = {} =>
       /\ todo # {} => Quiet
       /\ \A i \in Interfaces :
            pc[i] # "idle" =>
              /\ seen[i] = init_ref_count
              /\ i \in active <=> pc[i] = "down"
              /\ \A j \in Interfaces : pc[j] # "idle" => j = i

LEMMA AloneInductive == TypeOK /\ AloneInv /\ [Next]_vars => AloneInv'
  <1> SUFFICES ASSUME TypeOK, AloneInv, [Next]_vars PROVE AloneInv'
    OBVIOUS
  <1> USE DEF TypeOK, AloneInv, Quiet, Idle, shared, setup
  <1>1. ASSUME NEW p \in Phys, CompositeInit(p) PROVE AloneInv'
    BY <1>1 DEF CompositeInit, Begin
  <1>2. CASE CompositeDeinit
    BY <1>2 DEF CompositeDeinit, Begin
  <1>3. ASSUME NEW f \in todo, Store(f) PROVE AloneInv'
    BY <1>3 DEF Store
  <1>4. ASSUME NEW i \in Interfaces,
               Enter(i, "up") \/ Enter(i, "down") \/ EndUp(i) \/ EndDown(i)
        PROVE  AloneInv'
    BY <1>4 DEF Enter, EndUp, EndDown, Leave
  <1>5. CASE UNCHANGED vars
    BY <1>5 DEF vars
  <1> QED
    BY <1>1, <1>2, <1>3, <1>4, <1>5 DEF Next

LEMMA ExactInductive ==
  CountFits /\ TypeOK /\ AloneInv /\ ExactInv /\ [Next]_vars => ExactInv'
  <1> SUFFICES ASSUME CountFits, TypeOK, AloneInv, ExactInv, [Next]_vars
               PROVE  ExactInv'
    OBVIOUS
  <1> USE DEF ExactInv, ExactUnlessSpoilt, TypeOK, Quiet, Idle, shared, setup
  <1>1. ASSUME NEW p \in Phys, CompositeInit(p) PROVE ExactInv'
    BY <1>1 DEF CompositeInit, Begin
  <1>2. CASE CompositeDeinit
    BY <1>2 DEF CompositeDeinit, Begin
  <1>3. ASSUME NEW f \in todo, Store(f) PROVE ExactInv'
    <2>1. CASE spoilt = {}
      <3>1. Quiet /\ init_ref_count = 0 /\ ~hw_initialized
        BY <1>3, <2>1, FS_EmptySet
      <3>2. /\ UNCHANGED <<active, pc, seen>> /\ spoilt' = {}
            /\ init_ref_count' = 0 /\ ~hw_initialized'
        BY <1>3, <2>1, <3>1 DEF Store
      <3> QED
        BY <3>1, <3>2, FS_EmptySet
    <2>2. CASE spoilt # {} /\ alone /\ todo' = {}
      <3>1. active' = {} /\ init_ref_count' = 0 /\ ~hw_initialized'
        BY <1>3, <2>2 DEF Store, AloneInv
      <3>2. Quiet /\ UNCHANGED <<active, pc, seen>>
        BY <1>3, <2>2 DEF Store, AloneInv
      <3> QED
        BY <3>1, <3>2, FS_EmptySet
    <2>3. CASE spoilt # {} /\ ~(alone /\ todo' = {})
      BY <1>3, <2>3 DEF Store
    <2> QED
      BY <2>1, <2>2, <2>3
  <1>4. ASSUME NEW i \in Interfaces, NEW what \in {"up", "down"}, Enter(i, what)
        PROVE  ExactInv'
    <2>1. CASE spoilt' # {}
      BY <1>4, <2>1 DEF Enter
    <2>2. CASE spoilt' = {}
      <3>1. spoilt = {} /\ todo = {} /\ Idle /\ (i \in active <=> what = "down")
        BY <1>4, <2>2 DEF Enter
      <3>2. \A j \in Interfaces : j # i => pc'[j] = "idle"
        BY <1>4, <3>1 DEF Enter
      <3>3. pc'[i] = what /\ seen'[i] = init_ref_count
        BY <1>4 DEF Enter
      <3> QED
        BY <1>4, <3>1, <3>2, <3>3 DEF Enter
    <2> QED
      BY <2>1, <2>2
  <1>5. ASSUME NEW i \in Interfaces, EndUp(i), spoilt = {} PROVE ExactInv'
    <2>1. /\ i \notin active /\ seen[i] = Cardinality(active) /\ todo = {}
          /\ \A j \in Interfaces : j # i => pc[j] = "idle"
      BY <1>5 DEF EndUp
    <2>2. \A j \in Interfaces : pc'[j] = "idle"
      BY <1>5, <2>1 DEF EndUp, Leave
    <2>3. CASE UNCHANGED <<init_ref_count, hw_initialized, active>>
      BY <1>5, <2>1, <2>2, <2>3 DEF EndUp, Leave
    <2>4. CASE /\ init_ref_count' = (seen[i] + 1) % RefModulus
               /\ hw_initialized' = (hw_initialized \/ seen[i] = 0)
               /\ active' = active \cup {i}
      <3>0. /\ Cardinality(active \cup {i}) = Cardinality(active) + 1
            /\ (Cardinality(active) + 1) % RefModulus
                 = Cardinality(active) + 1
            /\ Cardinality(active) = 0 <=> active = {}
        BY <2>1, CountStep
      <3>1. init_ref_count' = Cardinality(active')
        BY <2>1, <2>4, <3>0
      <3>2. hw_initialized'
        BY <1>5, <2>1, <2>4, <3>0
      <3> QED
        BY <1>5, <2>1, <2>2, <2>4, <3>1, <3>2 DEF EndUp, Leave
    <2> QED
      BY <1>5, <2>3, <2>4 DEF EndUp
  <1>6. ASSUME NEW i \in Interfaces, EndDown(i), spoilt = {} PROVE ExactInv'
    <2>1. /\ i \in active /\ seen[i] = Cardinality(active) /\ todo = {}
          /\ \A j \in Interfaces : j # i => pc[j] = "idle"
      BY <1>6 DEF EndDown
    <2>2. \A j \in Interfaces : pc'[j] = "idle"
      BY <1>6, <2>1 DEF EndDown, Leave
    <2>3. active' = active \ {i} /\ hw_initialized' = (seen[i] # 1)
      BY <1>6, <2>1 DEF EndDown
    <2>4. /\ Cardinality(active) \in Nat
          /\ Cardinality(active) # 0
          /\ Cardinality(active \ {i}) = Cardinality(active) - 1
          /\ Cardinality(active \ {i}) = 0 <=> active \ {i} = {}
      BY <2>1, CountStep
    <2>5. init_ref_count' = Cardinality(active')
      BY <1>6, <2>1, <2>3, <2>4, CountStep DEF EndDown
    <2>6. seen[i] = 1 <=> active' = {}
      BY <2>1, <2>3, <2>4
    <2> QED
      BY <1>6, <2>1, <2>2, <2>3, <2>5, <2>6 DEF EndDown, Leave
  <1>7. ASSUME NEW i \in Interfaces, EndUp(i) \/ EndDown(i), spoilt # {}
        PROVE  ExactInv'
    BY <1>7 DEF EndUp, EndDown, Leave
  <1>8. CASE UNCHANGED vars
    BY <1>8 DEF vars
  <1> QED
    BY <1>1, <1>2, <1>3, <1>4, <1>5, <1>6, <1>7, <1>8 DEF Next

\* Count and flag are exact unless one of the spoilers has struck since the struct
\* was last set up or released undisturbed, for any number of interfaces that
\* fits in the count, and any calls of any of them.
THEOREM ExactOrSpoilt ==
  ASSUME CountFits PROVE Spec => []ExactUnlessSpoilt
<1>1. Init => AloneInv /\ ExactInv
  BY DEF Init, AloneInv, ExactInv, ExactUnlessSpoilt
<1>2. ExactInv => ExactUnlessSpoilt
  BY DEF ExactInv
<1> QED
  BY <1>1, <1>2, TypeInitial, TypeInductive, AloneInductive, ExactInductive,
     PTL DEF Spec

-----------------------------------------------------------------------------
(* The chip as it is built.                                                *)

H == INSTANCE SalHeaders_proofs

\* A chip has an interface for each of some services, and counts them in a
\* uint8_t.
RealChip == Interfaces \subseteq H!ServiceNames /\ RefModulus = 2^8

LEMMA FewServices ==
  IsFiniteSet(H!ServiceNames) /\ Cardinality(H!ServiceNames) <= 25
  <1> DEFINE row == <<"Accelerometer", "AmbientLight", "Battery", "Button",
                    "Color", "Display", "GNSS", "GSM", "Gyroscope",
                    "Humidity", "LED", "Magnetometer", "Pressure",
                    "Proximity", "Temperature", "Connection", "Transport",
                    "AtParser", "CLI", "Collection", "Filesystem",
                    "KeyValue", "Logging", "Serialization", "Timekeeping">>
  <1>1. row \in Surjection(1..25, H!ServiceNames)
    BY H!TheServices DEF Surjection
  <1>2. ExistsSurjection(1..25, H!ServiceNames)
    BY <1>1 DEF ExistsSurjection
  <1> QED
    BY <1>2, FS_NatSurjection, FS_SurjCardinalityBound

LEMMA RealCountFits == ASSUME RealChip PROVE CountFits
  <1>1. /\ IsFiniteSet(Interfaces) /\ Cardinality(Interfaces) \in Nat
        /\ Cardinality(Interfaces) <= Cardinality(H!ServiceNames)
    BY FewServices, FS_Subset, FS_CardinalityType DEF RealChip
  <1>2. /\ Cardinality(H!ServiceNames) \in Nat
        /\ Cardinality(H!ServiceNames) <= 25
    BY FewServices, FS_CardinalityType
  <1> QED
    BY <1>1, <1>2 DEF RealChip, CountFits

\* Eight bits are enough for whatever services a chip offers: nothing is assumed
\* but that.
THEOREM RealExactOrSpoilt ==
  ASSUME RealChip PROVE Spec => []ExactUnlessSpoilt
  BY RealCountFits, ExactOrSpoilt
=============================================================================
