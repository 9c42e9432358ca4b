------------------------------ MODULE SalThreads ------------------------------
(***************************************************************************)
(* One driver shared by several threads, an interrupt handler and the      *)
(* callback its provider raises. The wrappers of SalDriver are taken apart *)
(* into the loads and stores they make, in the order they make them.       *)
(*                                                                         *)
(* Clients wrap the calls in LockedOps with the HAL's CFN_HAL_WITH_LOCK,   *)
(* as tests/compliance.c does: the driver's lock is awaited for a bounded  *)
(* time, the wrapper runs only if it was obtained, and the lock is given   *)
(* back. The other calls run without it. The two fields callback_register  *)
(* writes are unordered stores: no barrier orders them.                    *)
(*                                                                         *)
(* Claim: if every wrapper that touches the struct's fields is called with *)
(* the lock, the driver behaves like the atomic one of SalDriver, even     *)
(* though service calls and interrupts come in without it.                 *)
(***************************************************************************)
EXTENDS Naturals

CONSTANTS
  Threads,        \* client threads
  Driver,         \* the driver they share
  Service,        \* the driver's service
  Tag,            \* its FourCC
  Tables,         \* the api tables its providers offer
  Configs, Registrations,
  Forwards,       \* lifecycle wrappers that only forward
  ServiceCalls,   \* wrapper |-> slot
  LockedOps,      \* the wrappers clients call under CFN_HAL_WITH_LOCK
  Free,           \* nobody holds the lock
  NULL

Ops == {"init", "deinit", "config_set", "config_get", "callback_register"}
         \cup Forwards \cup DOMAIN ServiceCalls

ConfigValues == {NULL} \cup ({Service} \X Configs)
RegValues == {NULL} \cup ({Service} \X Registrations)

ASSUME ThreadsAssumption ==
  /\ Free \notin Threads
  /\ NULL \notin Tables
  /\ NULL \notin {Service} \X Configs
  /\ NULL \notin {Service} \X Registrations

ASSUME OpsAssumption ==
  /\ LockedOps \subseteq Ops
  /\ "none" \notin Ops

VARIABLES
  status, vmt, api, config, cb, arg,  \* the driver's fields
  lock,      \* who holds the driver's lock
  pc,        \* where a thread is
  call,      \* its call: wrapper and argument
  todo,      \* the fields its wrapper has still to store
  out,       \* the outcome of its call, and the value it returns
  inner,     \* the callback run inside its call: no, waiting, done
  applied, refused, last,  \* history, as in SalDriver
  snap       \* history: the fields when lock was taken, NULL if free

fields == <<status, vmt, api, config, cb, arg>>
history == <<applied, refused, last>>
vars == <<fields, lock, pc, call, todo, out, inner, history, snap>>

NoCall == [op |-> "none", val |-> NULL]
NoOut == [result |-> "none", hit |-> NULL, value |-> NULL]
Hit(slot) == [class |-> Service, slot |-> slot]
Out(result, hit, value) == [result |-> result, hit |-> hit, value |-> value]
Has(table, slot) == table # NULL /\ slot \in table.filled

Shared == [status |-> status, vmt |-> vmt, config |-> config, cb |-> cb,
           applied |-> applied, refused |-> refused]

\* What a wrapper passes on to the HAL or returns.
Arguments(op) ==
  CASE op = "config_set" -> ConfigValues
    [] op = "callback_register" -> RegValues
    [] OTHER -> {NULL}

\* Slip: init trusts populate to have bound vmt.
StoresNoVmt(op) ==
  CASE op = "config_set" -> {"config"}
    [] op = "callback_register" -> {"cb", "arg"}
    [] OTHER -> {}

\* The fields a wrapper stores before it enters the HAL.
Stores(op) ==
  CASE op = "init" -> {"vmt"}
    [] op = "config_set" -> {"config"}
    [] op = "callback_register" -> {"cb", "arg"}
    [] OTHER -> {}

\* The table a wrapper's call goes through, and the slot of it.
TableOf(op) == IF op \in DOMAIN ServiceCalls THEN api ELSE vmt
SlotOf(op) == IF op \in DOMAIN ServiceCalls THEN ServiceCalls[op] ELSE op

Active(t) == pc[t] \in {"wrapper", "copy", "provider", "done"}
Locked(t) == lock = t
Goto(t, l) == pc' = [pc EXCEPT ![t] = l]

-----------------------------------------------------------------------------
Init ==
  /\ status = "ZEROED" /\ vmt = NULL /\ api = NULL
  /\ config = NULL /\ cb = NULL /\ arg = NULL
  /\ lock = Free
  /\ pc = [t \in Threads |-> "idle"]
  /\ call = [t \in Threads |-> NoCall]
  /\ todo = [t \in Threads |-> {}]
  /\ out = [t \in Threads |-> NoOut]
  /\ inner = [t \in Threads |-> "no"]
  /\ applied = NULL /\ refused = FALSE
  /\ last = [op |-> "none", via |-> NULL, on |-> NULL, result |-> NULL,
             hit |-> NULL, value |-> NULL]
  /\ snap = NULL

Record(op, o) ==
  last' = [op |-> op, via |-> Service, on |-> Driver, result |-> o.result,
           hit |-> o.hit, value |-> o.value]

\* The driver is populated once, before any thread knows of it.
Populate(t, c, r) ==
  /\ status = "ZEROED"
  /\ status' = "CONSTRUCTED"
  /\ \E v \in {NULL, t} : vmt' = v
  /\ api' = t /\ config' = c /\ cb' = r /\ arg' = r
  /\ refused' = FALSE
  /\ Record("populate", Out("OK", NULL, NULL))
  /\ UNCHANGED <<lock, pc, call, todo, out, inner, applied, snap>>

\* A thread calls a wrapper, through the lock or directly.
Begin(t, op, v) ==
  /\ status # "ZEROED"
  /\ pc[t] = "idle"
  /\ Goto(t, IF op \in LockedOps THEN "waiting" ELSE "wrapper")
  /\ call' = [call EXCEPT ![t] = [op |-> op, val |-> v]]
  /\ todo' = [todo EXCEPT ![t] = Stores(op)]
  /\ UNCHANGED <<fields, lock, out, inner, history, snap>>

\* Slip: the lock is taken whoever holds it.
AcquireAnyway(t) ==
  /\ pc[t] = "waiting"
  /\ lock' = t
  /\ snap' = Shared
  /\ Goto(t, "wrapper")
  /\ UNCHANGED <<fields, call, todo, out, inner, history>>

Acquire(t) ==
  /\ pc[t] = "waiting"
  /\ lock = Free
  /\ lock' = t
  /\ snap' = Shared
  /\ Goto(t, "wrapper")
  /\ UNCHANGED <<fields, call, todo, out, inner, history>>

\* Slip: the lock is awaited without a bound.
NeverTimesOut(t) == pc[t] = "waiting" /\ FALSE

\* The lock was not to be had in time: the wrapper is not called at all.
TimesOut(t) ==
  /\ pc[t] = "waiting"
  /\ lock # Free
  /\ Goto(t, "idle")
  /\ call' = [call EXCEPT ![t] = NoCall]
  /\ todo' = [todo EXCEPT ![t] = {}]
  /\ UNCHANGED <<fields, lock, out, inner, history, snap>>

-----------------------------------------------------------------------------
(* Inside a wrapper.                                                       *)

\* init binds vmt; config_set and callback_register store their arguments.
StoreField(t, f) ==
  /\ pc[t] = "wrapper"
  /\ f \in todo[t]
  /\ todo' = [todo EXCEPT ![t] = @ \ {f}]
  /\ vmt' = IF f = "vmt" THEN api ELSE vmt
  /\ config' = IF f = "config" THEN call[t].val ELSE config
  /\ cb' = IF f = "cb" THEN call[t].val ELSE cb
  /\ arg' = IF f = "arg" THEN call[t].val ELSE arg
  /\ UNCHANGED <<status, api, lock, pc, call, out, inner, history, snap>>

\* Slip: config_get without the test of driver->config.
ConfigTestOmitted(t) ==
  /\ pc[t] = "wrapper"
  /\ call[t].op = "config_get"
  /\ Goto(t, "copy") /\ UNCHANGED out
  /\ UNCHANGED <<fields, lock, call, todo, inner, history, snap>>

\* config_get tests the pointer, and the caller's own ...
ConfigTest(t) ==
  /\ pc[t] = "wrapper"
  /\ call[t].op = "config_get"
  /\ \/ /\ config # NULL
        /\ Goto(t, "copy") /\ UNCHANGED out
     \/ /\ Goto(t, "done")
        /\ out' = [out EXCEPT ![t] = Out("BAD_PARAM", NULL, NULL)]
  /\ UNCHANGED <<fields, lock, call, todo, inner, history, snap>>

\* ... and then loads it again to copy what it points to.
ConfigCopy(t) ==
  /\ pc[t] = "copy"
  /\ Goto(t, "done")
  /\ out' = [out EXCEPT ![t] = Out("OK", NULL, config)]
  /\ UNCHANGED <<fields, lock, call, todo, inner, history, snap>>

\* Slip: the HAL is called before the struct's fields are stored.
InHalTooEarly(t) == pc[t] = "wrapper" /\ call[t].op # "config_get"

\* The wrapper has stored what it had to: the HAL takes over.
InHal(t) ==
  pc[t] = "wrapper" /\ todo[t] = {} /\ call[t].op # "config_get"

\* What a call does to the driver once it has its result.
Effects(op, v, result) ==
  /\ status' = CASE result = "OK" /\ op = "init" -> "INITIALIZED"
                 [] result = "OK" /\ op = "deinit" -> "CONSTRUCTED"
                 [] OTHER -> status
  /\ applied' = CASE result = "OK" /\ op = "init" -> config
                  [] result = "OK" /\ op = "config_set" -> v
                  [] OTHER -> applied
  /\ refused' = CASE result = "OK" /\ op = "init" -> FALSE
                  [] op = "config_set" -> result # "OK"
                  [] OTHER -> refused

Returned(t, o) ==
  /\ Goto(t, "done")
  /\ out' = [out EXCEPT ![t] = o]
  /\ Effects(call[t].op, call[t].val, o.result)

\* The HAL answers itself: an empty slot, or for the lifecycle calls a reason
\* of its own.
HalRefuses(t) ==
  LET op == call[t].op
      empty == ~Has(TableOf(op), SlotOf(op))
      results == IF op \in DOMAIN ServiceCalls
                 THEN {r \in {"NOT_SUPPORTED"} : empty}
                 ELSE {r \in {"NOT_SUPPORTED", "OK", "FAIL"} :
                         empty \/ r = "FAIL"}
  IN /\ InHal(t)
     /\ \E r \in results : Returned(t, Out(r, NULL, call[t].val))
     /\ UNCHANGED <<vmt, api, config, cb, arg, lock, call, todo, inner, last,
                    snap>>

\* The provider's function is entered ...
ProviderEntered(t) ==
  /\ InHal(t)
  /\ Has(TableOf(call[t].op), SlotOf(call[t].op))
  /\ Goto(t, "provider")
  /\ UNCHANGED <<fields, lock, call, todo, out, inner, history, snap>>

\* ... and comes back with a result of its own.
ProviderReturns(t) ==
  /\ pc[t] = "provider"
  /\ inner[t] # "waiting"
  /\ \E r \in {"OK", "FAIL"} :
       Returned(t, Out(r, Hit(SlotOf(call[t].op)), call[t].val))
  /\ UNCHANGED <<vmt, api, config, cb, arg, lock, call, todo, inner, last,
                 snap>>

\* The provider may raise the driver's callback from inside a locked call, and
\* the callback, which is given the driver, may make a locked call on it. Its
\* own thread holds the lock. At most one such call per call.
CallbackReenters(t) ==
  /\ pc[t] = "provider" /\ Locked(t)
  /\ cb # NULL /\ inner[t] = "no"
  /\ inner' = [inner EXCEPT ![t] = "waiting"]
  /\ UNCHANGED <<fields, lock, pc, call, todo, out, history, snap>>

\* Slip: whoever holds the lock waits for it without a bound.
InnerWaitsForever(t) ==
  /\ inner[t] = "waiting"
  /\ lock = Free
  /\ inner' = [inner EXCEPT ![t] = "done"]
  /\ UNCHANGED <<fields, lock, pc, call, todo, out, history, snap>>

\* That call gives up after the timeout: nobody else can free the lock.
InnerTimesOut(t) ==
  /\ inner[t] = "waiting"
  /\ inner' = [inner EXCEPT ![t] = "done"]
  /\ UNCHANGED <<fields, lock, pc, call, todo, out, history, snap>>

\* Slip: a call that fails leaves the locked block without unlocking.
ReturnKeepsLock(t) ==
  /\ pc[t] = "done"
  /\ Record(call[t].op, out[t])
  /\ lock' = IF Locked(t) /\ out[t].result = "OK" THEN Free ELSE lock
  /\ Goto(t, "idle")
  /\ call' = [call EXCEPT ![t] = NoCall]
  /\ out' = [out EXCEPT ![t] = NoOut]
  /\ inner' = [inner EXCEPT ![t] = "no"]
  /\ snap' = IF lock' = Free THEN NULL ELSE snap
  /\ UNCHANGED <<fields, todo, applied, refused>>

\* The wrapper returns; under CFN_HAL_WITH_LOCK the lock is given back.
Return(t) ==
  /\ pc[t] = "done"
  /\ Record(call[t].op, out[t])
  /\ lock' = IF Locked(t) THEN Free ELSE lock
  /\ Goto(t, "idle")
  /\ call' = [call EXCEPT ![t] = NoCall]
  /\ out' = [out EXCEPT ![t] = NoOut]
  /\ inner' = [inner EXCEPT ![t] = "no"]
  /\ snap' = IF Locked(t) THEN NULL ELSE snap
  /\ UNCHANGED <<fields, todo, applied, refused>>

\* handle_interrupt, in interrupt context: it cannot wait for a lock, and it
\* runs between any two steps of the threads.
HandleInterrupt ==
  /\ Record("handle_interrupt",
            Out("OK",
                IF Has(api, "handle_interrupt") THEN Hit("handle_interrupt")
                                                ELSE NULL, NULL))
  /\ UNCHANGED <<fields, lock, pc, call, todo, out, inner, applied, refused,
                 snap>>

Step(t) ==
  \/ Acquire(t) \/ TimesOut(t)
  \/ \E f \in todo[t] : StoreField(t, f)
  \/ ConfigTest(t) \/ ConfigCopy(t)
  \/ HalRefuses(t) \/ ProviderEntered(t)
  \/ InnerTimesOut(t)
  \/ Return(t)

Next ==
  \/ \E t \in {NULL} \cup Tables, c \in ConfigValues, r \in RegValues :
       Populate(t, c, r)
  \/ \E t \in Threads :
       \/ \E op \in Ops : \E v \in Arguments(op) : Begin(t, op, v)
       \/ Step(t)
       \/ ProviderReturns(t)
       \/ CallbackReenters(t)
  \/ HandleInterrupt

Spec == Init /\ [][Next]_vars

\* The scheduler runs every thread that can run, and a timeout expires. Nothing
\* is assumed of the provider, nor of Begin and Populate.
Fairness == \A t \in Threads : WF_vars(Step(t))
FairSpec == Spec /\ Fairness

-----------------------------------------------------------------------------
(* Properties.                                                             *)

TypeOK ==
  /\ status \in {"ZEROED", "CONSTRUCTED", "INITIALIZED"}
  /\ vmt \in {NULL} \cup Tables /\ api \in {NULL} \cup Tables
  /\ config \in ConfigValues /\ cb \in RegValues /\ arg \in RegValues
  /\ lock \in {Free} \cup Threads
  /\ pc \in [Threads -> {"idle", "waiting", "wrapper", "copy", "provider",
                         "done"}]
  /\ call \in [Threads -> [op : Ops \cup {"none"},
                           val : ConfigValues \cup RegValues]]
  /\ \A t \in Threads : call[t].val \in Arguments(call[t].op)
  /\ todo \in [Threads -> SUBSET {"vmt", "config", "cb", "arg"}]
  /\ \A t \in Threads :
       todo[t] \subseteq (IF pc[t] \in {"waiting", "wrapper"}
                          THEN Stores(call[t].op) ELSE {})
  /\ inner \in [Threads -> {"no", "waiting", "done"}]
  /\ applied \in ConfigValues /\ refused \in BOOLEAN

\* The lock is with the thread inside a locked call and with nobody else: no
\* timeout and no failing call leaves it behind, and a call that timed out does
\* not give back another's.
LockHeldInside ==
  \A t \in Threads : lock = t <=> Active(t) /\ call[t].op \in LockedOps

\* config_get loads driver->config twice, to test it and to copy from it: no
\* other thread gets to clear it in between.
NoNullDereference ==
  \A t \in Threads : pc[t] = "copy" => config # NULL

\* A callback is never paired with another registration's argument, except
\* while a callback_register stands between its two stores.
BetweenStores(t) ==
  call[t].op = "callback_register" /\ pc[t] = "wrapper"
    /\ todo[t] # {} /\ todo[t] # {"cb", "arg"}

CallbackPaired ==
  cb = arg \/ \E t \in Threads : BetweenStores(t)

\* On an initialised driver the HAL's table is the driver's, at every point of
\* every interleaving, with or without the lock.
OneProvider ==
  /\ vmt \in {NULL, api}
  /\ status = "INITIALIZED" => vmt = api

\* While no call is under way and no config_set has been refused, config_get
\* would report what the HAL accepted last: accepting and storing never cross
\* between two threads.
ConfigAgrees ==
  lock = Free /\ status = "INITIALIZED" /\ ~refused => config = applied

\* Every call ends, even if another thread's provider never comes back: only
\* the caller of a provider that hangs is stuck.
CallsEnd ==
  \A t \in Threads : pc[t] # "idle" ~> pc[t] \in {"idle", "provider"}

\* If the providers' functions come back, the lock does too, even when a
\* callback calls its own driver under the lock it already holds.
LockComesBack ==
  (\A t \in Threads : WF_vars(ProviderReturns(t)))
    => (lock # Free ~> lock = Free)

-----------------------------------------------------------------------------
(* The atomic driver. A locked call takes effect when it returns; until then  *)
(* the fields are what they were when it obtained the lock.                   *)

Seen == IF lock = Free THEN Shared ELSE snap

Atomic == INSTANCE SalDriver WITH
  Drivers <- {Driver},
  Services <- {Service},
  Fourcc <- [s \in {Service} |-> Tag],
  Generic <- [s \in {Service} |-> Ops \ DOMAIN ServiceCalls],
  Interrupts <- {Service},
  Calls <- [s \in {Service} |-> ServiceCalls],
  BaseOps <- Forwards,
  ForeignOps <- {},
  class <- [d \in {Driver} |-> Service],
  type <- [d \in {Driver} |-> IF status = "ZEROED" THEN 0 ELSE Tag],
  status <- [d \in {Driver} |-> Seen.status],
  vmt <- [d \in {Driver} |-> Seen.vmt],
  api <- [d \in {Driver} |-> api],
  config <- [d \in {Driver} |-> Seen.config],
  reg <- [d \in {Driver} |-> Seen.cb],
  applied <- [d \in {Driver} |-> Seen.applied],
  refused <- [d \in {Driver} |-> Seen.refused]

\* Under the locking discipline, every interleaving is one of atomic calls.
BehavesAtomically == Atomic!Spec
=============================================================================
