----------------------------- MODULE SalComposite -----------------------------
(***************************************************************************)
(* The shared state of a composite sensor (cfn_sal_dev_composite.h): one   *)
(* chip behind several service drivers, whose providers count themselves   *)
(* in and out of a uint8_t reference count and bring the hardware up for   *)
(* the first and down after the last.                                      *)
(*                                                                         *)
(* The repository holds the struct, composite_init and composite_deinit:   *)
(* three plain stores each, with no barrier between them and no lock to    *)
(* take, since they are given no driver. The providers are outside it, and *)
(* are modelled from what the struct's fields say they do: they load the   *)
(* count and store it. Every interface has a driver, hence a lock, of its  *)
(* own; nothing keeps two providers, or a provider and the two functions,  *)
(* apart, nor an interface from being initialised twice.                   *)
(*                                                                         *)
(* So the shared state can go wrong, and spoilt records how it may have.   *)
(***************************************************************************)
EXTENDS Naturals, FiniteSets

CONSTANTS
  Interfaces,   \* the service drivers of one chip
  Phys,         \* the physical interfaces the chip may sit behind
  RefModulus,   \* 2^8: init_ref_count is a uint8_t
  NULL

ASSUME ModulusAssumption == RefModulus \in Nat \ {0}
ASSUME PhyAssumption == NULL \notin Phys

\* The count has room for every interface. Not assumed: the theorems that need
\* it say so.
CountFits == IsFiniteSet(Interfaces) /\ Cardinality(Interfaces) < RefModulus

VARIABLES
  phy, init_ref_count, hw_initialized,  \* the shared struct
  todo,    \* the fields composite_init or composite_deinit has still to store
  val,     \* the phy it stores
  active,  \* history: the interfaces that are initialised
  pc,      \* what an interface's provider is doing
  seen,    \* the count it has loaded
  alone,   \* history: composite_init or _deinit has had the struct to itself
  spoilt   \* history: what has gone wrong since it last had

shared == <<phy, init_ref_count, hw_initialized>>
setup == <<todo, val>>
vars == <<shared, setup, active, pc, seen, alone, spoilt>>

Idle == \A i \in Interfaces : pc[i] = "idle"
Quiet == active = {} /\ Idle

\* What may spoil the shared state: nobody has set it up; it is set up or
\* released under an active interface, or a provider is at work within that; two
\* providers' updates overlap; an interface is counted in or out twice.
Spoilers == {"unset", "under", "within", "overlap", "repeat"}

-----------------------------------------------------------------------------
\* The struct is embedded in a sensor struct nobody has cleared.
Init ==
  /\ phy \in {NULL} \cup Phys
  /\ init_ref_count \in 0..(RefModulus - 1)
  /\ hw_initialized \in BOOLEAN
  /\ todo = {} /\ val = NULL
  /\ active = {}
  /\ pc = [i \in Interfaces |-> "idle"]
  /\ seen = [i \in Interfaces |-> 0]
  /\ alone = FALSE
  /\ spoilt = {"unset"}

\* Bound: one call of composite_init or composite_deinit at a time. Nobody asks
\* whether an interface is in use.
Begin(p, fields) ==
  /\ todo = {}
  /\ todo' = fields
  /\ val' = p
  /\ alone' = Quiet
  /\ spoilt' = spoilt
       \cup (IF active = {} THEN {} ELSE {"under"})
       \cup (IF Idle THEN {} ELSE {"within"})
  /\ UNCHANGED <<shared, active, pc, seen>>

\* Slip: composite_init leaves the hardware flag as it finds it.
CompositeInitKeepsFlag(p) == Begin(p, {"phy", "init_ref_count"})

\* composite_init(state, phy). With a NULL argument it and composite_deinit
\* return BAD_PARAM and change nothing: a stuttering step.
CompositeInit(p) == Begin(p, {"phy", "init_ref_count", "hw_initialized"})

\* composite_deinit(state).
CompositeDeinit == Begin(NULL, {"phy", "init_ref_count", "hw_initialized"})

\* The three stores, in any order. The last one ends the call, and if nobody
\* has come in between, whatever went wrong before is made up for.
Store(f) ==
  /\ todo' = todo \ {f}
  /\ phy' = IF f = "phy" THEN val ELSE phy
  /\ init_ref_count' = IF f = "init_ref_count" THEN 0 ELSE init_ref_count
  /\ hw_initialized' = (hw_initialized /\ f # "hw_initialized")
  /\ spoilt' = IF alone /\ todo' = {} THEN {} ELSE spoilt
  /\ UNCHANGED <<val, active, pc, seen, alone>>

-----------------------------------------------------------------------------
(* The interfaces' providers.                                              *)

\* A provider's init or deinit loads the count, whoever else is at work.
Enter(i, what) ==
  /\ pc[i] = "idle"
  /\ pc' = [pc EXCEPT ![i] = what]
  /\ seen' = [seen EXCEPT ![i] = init_ref_count]
  /\ alone' = FALSE
  /\ spoilt' = spoilt
       \cup (IF todo = {} THEN {} ELSE {"within"})
       \cup (IF Idle THEN {} ELSE {"overlap"})
       \cup (IF i \in active <=> what = "down" THEN {} ELSE {"repeat"})
  /\ UNCHANGED <<shared, setup, active>>

Leave(i) ==
  /\ pc' = [pc EXCEPT ![i] = "idle"]
  /\ seen' = [seen EXCEPT ![i] = 0]
  /\ UNCHANGED <<phy, setup, alone, spoilt>>

\* The first interface brings the hardware up, which may fail: the interface
\* is then not initialised and not counted.
EndUp(i) ==
  /\ pc[i] = "up"
  /\ \/ /\ init_ref_count' = (seen[i] + 1) % RefModulus
        /\ hw_initialized' = (hw_initialized \/ seen[i] = 0)
        /\ active' = active \cup {i}
     \/ /\ seen[i] = 0
        /\ UNCHANGED <<init_ref_count, hw_initialized, active>>
  /\ Leave(i)

\* The last one brings it down. Below zero the count wraps, unless the provider
\* minds.
EndDown(i) ==
  /\ pc[i] = "down"
  /\ \/ init_ref_count' = (seen[i] + RefModulus - 1) % RefModulus
     \/ seen[i] = 0 /\ init_ref_count' = 0
  /\ hw_initialized' = (hw_initialized /\ seen[i] # 1)
  /\ active' = active \ {i}
  /\ Leave(i)

Next ==
  \/ \E p \in Phys : CompositeInit(p)
  \/ CompositeDeinit
  \/ \E f \in todo : Store(f)
  \/ \E i \in Interfaces :
       Enter(i, "up") \/ EndUp(i) \/ Enter(i, "down") \/ EndDown(i)

Spec == Init /\ [][Next]_vars

-----------------------------------------------------------------------------
(* Properties.                                                             *)

TypeOK ==
  /\ phy \in {NULL} \cup Phys
  /\ init_ref_count \in 0..(RefModulus - 1)
  /\ hw_initialized \in BOOLEAN
  /\ todo \subseteq {"phy", "init_ref_count", "hw_initialized"}
  /\ val \in {NULL} \cup Phys
  /\ active \subseteq Interfaces
  /\ pc \in [Interfaces -> {"idle", "up", "down"}]
  /\ seen \in [Interfaces -> 0..(RefModulus - 1)]
  /\ alone \in BOOLEAN
  /\ spoilt \subseteq Spoilers

\* The five spoilers are all there are: without them init_ref_count is the number
\* of active interfaces and the flag says whether there are any, in the middle of
\* a call too. And a composite_init or composite_deinit that has the struct to
\* itself makes up for all of them, however count and flag had come to be wrong.
ExactUnlessSpoilt ==
  spoilt = {} =>
    /\ init_ref_count = Cardinality(active)
    /\ hw_initialized <=> active # {}

\* init_ref_count is "the number of active interfaces using this PHY" as long as
\* the providers do their part, whenever composite_init is called.
CountIsActive ==
  spoilt \subseteq {"under"} /\ todo = {} /\ Idle
    => init_ref_count = Cardinality(active)
=============================================================================
