--------------------------- MODULE SalAtomic_proofs ---------------------------
(***************************************************************************)
(* SalThreads implements SalDriver, for any number of threads: if the      *)
(* lifecycle wrappers are called under the lock, every interleaving of     *)
(* their loads and stores, of service calls, callbacks and interrupts is   *)
(* one of atomic calls.                                                    *)
(***************************************************************************)
EXTENDS SalThreads_proofs

\* The lifecycle wrappers are locked; no service wrapper goes by the name of
\* one that stores a field; tables are made for the service.
LifecycleLocked ==
  /\ Ops \ DOMAIN ServiceCalls \subseteq LockedOps
  /\ DOMAIN ServiceCalls \cap {"init", "deinit", "config_set", "config_get",
                               "callback_register"} = {}

TablesFit == \A t \in Tables : t.class = Service

IsService(op) == op \in DOMAIN ServiceCalls

-----------------------------------------------------------------------------
(* What a call may come to.                                                *)

ServiceOuts(table, op) ==
  IF Has(table, ServiceCalls[op])
  THEN {Out(r, Hit(ServiceCalls[op]), NULL) : r \in {"OK", "FAIL"}}
  ELSE {Out("NOT_SUPPORTED", NULL, NULL)}

BaseOuts(table, op, val) ==
  {Out("FAIL", NULL, val)} \cup
  (IF Has(table, op) THEN {Out(r, Hit(op), val) : r \in {"OK", "FAIL"}}
                     ELSE {Out(r, NULL, val) : r \in {"NOT_SUPPORTED", "OK"}})

ConfigOuts(held) ==
  {Out("BAD_PARAM", NULL, NULL)} \cup
  {Out("OK", NULL, c) : c \in {held} \ {NULL}}

\* The outcomes of a call on a driver with these two tables and this config.
Outs(service, base, held, op, val) ==
  IF IsService(op) THEN ServiceOuts(service, op)
  ELSE IF op = "config_get" THEN ConfigOuts(held) ELSE BaseOuts(base, op, val)

\* Where calls are: an unlocked call is never the holder's, a provider entered
\* is there, and a call that is done has one of the outcomes it may have.
CallInv ==
  /\ out = [t \in Threads |-> out[t]]
  /\ status = "ZEROED" => api = NULL
  /\ lock # Free => Active(lock) /\ call[lock].op \in LockedOps
  /\ \A t \in Threads :
       /\ pc[t] # "idle" => call[t].op \in Ops
       /\ pc[t] = "waiting" => call[t].op \in LockedOps
       /\ pc[t] = "copy" => call[t].op = "config_get" /\ config # NULL
       /\ pc[t] = "provider" =>
            /\ call[t].op # "config_get"
            /\ Has(TableOf(call[t].op), SlotOf(call[t].op))
       /\ pc[t] = "done" =>
            out[t] \in Outs(api, vmt, config, call[t].op, call[t].val)

\* How far the holder's call has taken the fields from what they were.
SnapInv ==
  lock # Free =>
    LET op == call[lock].op
        val == call[lock].val
        ok == pc[lock] = "done" /\ out[lock].result = "OK"
    IN  /\ vmt = IF op = "init" /\ "vmt" \notin todo[lock] THEN api ELSE snap.vmt
        /\ config = IF op = "config_set" /\ "config" \notin todo[lock]
                    THEN val ELSE snap.config
        /\ cb = IF op = "callback_register" /\ "cb" \notin todo[lock]
                THEN val ELSE snap.cb
        /\ status = CASE ok /\ op = "init" -> "INITIALIZED"
                      [] ok /\ op = "deinit" -> "CONSTRUCTED"
                      [] OTHER -> snap.status
        /\ applied = CASE ok /\ op = "init" -> config
                       [] ok /\ op = "config_set" -> val
                       [] OTHER -> snap.applied
        /\ refused = CASE ok /\ op = "init" -> FALSE
                       [] pc[lock] = "done" /\ op = "config_set" -> ~ok
                       [] OTHER -> snap.refused

-----------------------------------------------------------------------------
\* A lifecycle wrapper at work has the lock, so there is only one.
LEMMA Holder ==
  ASSUME LifecycleLocked, TypeOK, LockInv, CallInv, NEW t \in Threads, Active(t),
         ~IsService(call[t].op)
  PROVE  lock = t
  BY DEF LifecycleLocked, LockInv, LockHeldInside, CallInv, IsService, Active,
         TypeOK

LEMMA StoresLifecycle ==
  ASSUME LifecycleLocked, NEW op, NEW f \in Stores(op)
  PROVE  ~IsService(op) /\ op # "config_get"
  BY DEF LifecycleLocked, IsService, Stores

\* A thread's step that leaves the fields alone, and takes the thread alone to
\* a place where CallInv holds of it, keeps CallInv.
LEMMA CallFrame ==
  ASSUME CallInv, TypeOK, NEW t \in Threads,
         UNCHANGED <<api, vmt, config>>, out' = [s \in Threads |-> out'[s]],
         status' = "ZEROED" => status = "ZEROED",
         lock' # Free => Active(lock)' /\ call'[lock'].op \in LockedOps,
         \A s \in Threads \ {t} : /\ pc'[s] = pc[s] /\ call'[s] = call[s]
                                /\ out'[s] = out[s],
         pc'[t] # "idle" => call'[t].op \in Ops,
         pc'[t] = "waiting" => call'[t].op \in LockedOps,
         pc'[t] = "copy" => call'[t].op = "config_get" /\ config # NULL,
         pc'[t] = "provider" =>
            /\ call'[t].op # "config_get"
            /\ Has(TableOf(call'[t].op), SlotOf(call'[t].op)),
         pc'[t] = "done" =>
            out'[t] \in Outs(api, vmt, config, call'[t].op, call'[t].val)
  PROVE  CallInv'
  <1>1. \A s \in Threads \ {t} :
          TableOf(call[s].op)' = TableOf(call[s].op)
    BY DEF TableOf
  <1>2. \A s \in Threads \ {t} : SlotOf(call[s].op)' = SlotOf(call[s].op)
    BY DEF SlotOf
  <1> QED
    BY <1>1, <1>2 DEF CallInv, TableOf, SlotOf

LEMMA ServiceArgument ==
  ASSUME LifecycleLocked, TypeOK, NEW t \in Threads, IsService(call[t].op)
  PROVE  call[t].val = NULL
  BY DEF LifecycleLocked, TypeOK, IsService, Arguments

\* A call with a result has one of its outcomes.
LEMMA ResultInOuts ==
  ASSUME LifecycleLocked, TypeOK, CallInv, NEW t \in Threads,
         HalRefuses(t) \/ ProviderReturns(t)
  PROVE  \E o \in Outs(api, vmt, config, call[t].op, call[t].val) :
           /\ Returned(t, o)
           /\ UNCHANGED <<vmt, api, config, cb, arg, lock, call, todo, inner,
                          last, snap>>
  <1> DEFINE op == call[t].op
             val == call[t].val
  <1>1. op # "config_get"
    BY DEF HalRefuses, ProviderReturns, InHal, CallInv
  <1>2. IsService(op) => val = NULL
    BY ServiceArgument
  <1>3. ASSUME HalRefuses(t)
        PROVE  \E o \in Outs(api, vmt, config, op, val) : Returned(t, o)
    <2>1. CASE IsService(op)
      BY <1>2, <1>3, <2>1
      DEF HalRefuses, Outs, ServiceOuts, IsService, TableOf, SlotOf
    <2>2. CASE ~IsService(op)
      BY <1>1, <1>3, <2>2
      DEF HalRefuses, Outs, BaseOuts, IsService, TableOf, SlotOf
    <2> QED
      BY <2>1, <2>2
  <1>4. ASSUME ProviderReturns(t)
        PROVE  \E o \in Outs(api, vmt, config, op, val) : Returned(t, o)
    <2>1. Has(TableOf(op), SlotOf(op))
      BY <1>4 DEF ProviderReturns, CallInv
    <2>2. CASE IsService(op)
      BY <1>2, <1>4, <2>1, <2>2
      DEF ProviderReturns, Outs, ServiceOuts, IsService, TableOf, SlotOf
    <2>3. CASE ~IsService(op)
      BY <1>1, <1>4, <2>1, <2>3
      DEF ProviderReturns, Outs, BaseOuts, IsService, TableOf, SlotOf
    <2> QED
      BY <2>2, <2>3
  <1> QED
    BY <1>3, <1>4 DEF HalRefuses, ProviderReturns

\* A store is the holder's, and no call of another thread depends on it.
LEMMA StoreIsHolders ==
  ASSUME LifecycleLocked, TypeOK, LockInv, CallInv,
         NEW t \in Threads, NEW f \in todo[t], StoreField(t, f)
  PROVE  /\ lock = t /\ ~IsService(call[t].op) /\ call[t].op # "config_get"
         /\ \A s \in Threads \ {t} : Active(s) => IsService(call[s].op)
  <1>1. f \in Stores(call[t].op) /\ Active(t)
    BY DEF StoreField, TypeOK, Active
  <1> QED
    BY <1>1, StoresLifecycle, Holder

LEMMA CallInductive ==
  ASSUME LifecycleLocked
  PROVE  TypeOK /\ TableInv /\ LockInv /\ CallInv /\ [Next]_vars => CallInv'
  <1> SUFFICES ASSUME TypeOK, TableInv, LockInv, CallInv, [Next]_vars
               PROVE CallInv'
    OBVIOUS
  <1> USE ThreadsAssumption DEF Goto, Active
  <1>1. ASSUME NEW t \in {NULL} \cup Tables, NEW c \in ConfigValues,
               NEW r \in RegValues, Populate(t, c, r)
        PROVE CallInv'
    <2>1. \A s \in Threads : pc[s] = "idle"
      BY <1>1 DEF Populate, TableInv
    <2>2. lock = Free
      BY <2>1 DEF CallInv, TypeOK
    <2> QED
      BY <1>1, <2>1, <2>2 DEF Populate, CallInv
  <1>2. ASSUME NEW t \in Threads, NEW op \in Ops, NEW v \in Arguments(op),
               Begin(t, op, v)
        PROVE CallInv'
    <2>1. /\ pc[t] = "idle" /\ lock # t
          /\ \A s \in Threads \ {t} :
               pc'[s] = pc[s] /\ call'[s] = call[s] /\ out'[s] = out[s]
          /\ pc'[t] = IF op \in LockedOps THEN "waiting" ELSE "wrapper"
          /\ call'[t].op = op
          /\ UNCHANGED <<fields, lock, out>>
      BY <1>2 DEF Begin, CallInv, TypeOK
    <2>2. lock' # Free => Active(lock)' /\ call'[lock].op \in LockedOps
      BY <2>1 DEF CallInv, TypeOK
    <2>3. out' = [s \in Threads |-> out'[s]]
      BY <2>1 DEF CallInv
    <2> QED
      BY <2>1, <2>2, <2>3, CallFrame DEF fields
  <1>3. ASSUME NEW t \in Threads, Acquire(t) PROVE CallInv'
    <2>1. /\ pc[t] = "waiting" /\ lock' = t
          /\ \A s \in Threads \ {t} : pc'[s] = pc[s]
          /\ pc'[t] = "wrapper"
          /\ UNCHANGED <<fields, call, out>>
      BY <1>3 DEF Acquire, TypeOK
    <2>2. call[t].op \in Ops \cap LockedOps
      BY <2>1 DEF CallInv
    <2>3. out' = [s \in Threads |-> out'[s]]
      BY <2>1 DEF CallInv
    <2> QED
      BY <2>1, <2>2, <2>3, CallFrame DEF fields
  <1>4. ASSUME NEW t \in Threads, TimesOut(t) PROVE CallInv'
    <2>1. /\ pc[t] = "waiting" /\ lock # t
          /\ \A s \in Threads \ {t} : pc'[s] = pc[s] /\ call'[s] = call[s]
          /\ pc'[t] = "idle"
          /\ UNCHANGED <<fields, lock, out>>
      BY <1>4 DEF TimesOut, CallInv, TypeOK
    <2>2. lock' # Free => Active(lock)' /\ call'[lock].op \in LockedOps
      BY <2>1 DEF CallInv, TypeOK
    <2>3. out' = [s \in Threads |-> out'[s]]
      BY <2>1 DEF CallInv
    <2> QED
      BY <2>1, <2>2, <2>3, CallFrame DEF fields
  <1>5. ASSUME NEW t \in Threads, NEW f \in todo[t], StoreField(t, f)
        PROVE CallInv'
    <2>1. /\ lock = t
          /\ \A s \in Threads \ {t} : Active(s) => IsService(call[s].op)
      BY <1>5, StoreIsHolders
    <2>2. pc[t] = "wrapper" /\ UNCHANGED <<status, api, lock, pc, call, out>>
      BY <1>5 DEF StoreField
    <2>3. \A s \in Threads \ {t} :
            pc[s] = "provider" => TableOf(call[s].op) = api
                                  /\ TableOf(call[s].op)' = api
      BY <2>1, <2>2 DEF TableOf, IsService
    <2>4. \A s \in Threads : SlotOf(call[s].op)' = SlotOf(call[s].op)
      BY <2>2 DEF SlotOf
    <2>5. \A s \in Threads \ {t} :
            pc[s] = "done" =>
              Outs(api', vmt', config', call'[s].op, call'[s].val)
                = Outs(api, vmt, config, call[s].op, call[s].val)
      BY <2>1, <2>2 DEF Outs
    <2>6. \A s \in Threads \ {t} : pc[s] # "copy"
      BY <2>1, StoresLifecycle DEF CallInv, IsService, LifecycleLocked
    <2> QED
      BY <2>1, <2>2, <2>3, <2>4, <2>5, <2>6 DEF CallInv
  <1>6. ASSUME NEW t \in Threads, ConfigTest(t) \/ ConfigCopy(t)
        PROVE CallInv'
    <2>1. /\ Active(t) /\ call[t].op = "config_get"
          /\ UNCHANGED <<fields, lock, call>>
          /\ out' = [out EXCEPT ![t] = out'[t]]
          /\ \A s \in Threads \ {t} : pc'[s] = pc[s]
          /\ \/ pc'[t] = "copy" /\ config # NULL
             \/ /\ pc'[t] = "done"
                /\ \/ out'[t] = Out("BAD_PARAM", NULL, NULL)
                   \/ config # NULL /\ out'[t] = Out("OK", NULL, config)
      BY <1>6 DEF ConfigTest, ConfigCopy, CallInv, TypeOK
    <2>2. /\ out' = [s \in Threads |-> out'[s]]
          /\ \A s \in Threads \ {t} : out'[s] = out[s]
      BY <2>1 DEF CallInv
    <2>3. ~IsService(call[t].op)
      BY <2>1 DEF LifecycleLocked, IsService
    <2>4. pc'[t] = "done"
          => out'[t] \in Outs(api, vmt, config, call'[t].op, call'[t].val)
      BY <2>1, <2>3 DEF Outs, ConfigOuts
    <2>5. lock' # Free => Active(lock)' /\ call'[lock].op \in LockedOps
      BY <2>1 DEF CallInv, TypeOK
    <2> QED
      BY <2>1, <2>2, <2>4, <2>5, CallFrame DEF fields, CallInv
  <1>7. ASSUME NEW t \in Threads, ProviderEntered(t) PROVE CallInv'
    <2>1. /\ pc[t] = "wrapper" /\ call[t].op # "config_get"
          /\ Has(TableOf(call[t].op), SlotOf(call[t].op))
          /\ pc'[t] = "provider"
          /\ UNCHANGED <<fields, lock, call, out>>
          /\ \A s \in Threads \ {t} : pc'[s] = pc[s]
      BY <1>7 DEF ProviderEntered, InHal, TypeOK
    <2>2. lock' # Free => Active(lock)' /\ call'[lock].op \in LockedOps
      BY <2>1 DEF CallInv, TypeOK
    <2>3. out' = [s \in Threads |-> out'[s]]
      BY <2>1 DEF CallInv
    <2> QED
      BY <2>1, <2>2, <2>3, CallFrame DEF fields, CallInv
  <1>8. ASSUME NEW t \in Threads, HalRefuses(t) \/ ProviderReturns(t)
        PROVE CallInv'
    <2>1. PICK o \in Outs(api, vmt, config, call[t].op, call[t].val) :
            /\ Returned(t, o)
            /\ UNCHANGED <<vmt, api, config, cb, arg, lock, call, todo, inner,
                           last, snap>>
      BY <1>8, ResultInOuts
    <2>2. /\ out' = [s \in Threads |-> out'[s]] /\ out'[t] = o
          /\ \A s \in Threads \ {t} : out'[s] = out[s] /\ pc'[s] = pc[s]
          /\ pc'[t] = "done"
      BY <2>1 DEF Returned, CallInv, TypeOK
    <2>3. Active(t) /\ call[t].op \in Ops
      BY <1>8 DEF HalRefuses, ProviderReturns, InHal, CallInv
    <2>4. lock' # Free => Active(lock)' /\ call'[lock].op \in LockedOps
      BY <2>1, <2>2, <2>3 DEF CallInv, TypeOK
    <2>5. status' = "ZEROED" => status = "ZEROED"
      BY <2>1 DEF Returned, Effects
    <2> QED
      BY <2>1, <2>2, <2>3, <2>4, <2>5, CallFrame
  <1>9. ASSUME NEW t \in Threads, Return(t) PROVE CallInv'
    <2>1. /\ pc'[t] = "idle"
          /\ \A s \in Threads \ {t} :
               pc'[s] = pc[s] /\ call'[s] = call[s] /\ out'[s] = out[s]
          /\ out' = [s \in Threads |-> out'[s]]
          /\ lock' = IF lock = t THEN Free ELSE lock
          /\ UNCHANGED fields
      BY <1>9 DEF Return, Locked, CallInv, TypeOK
    <2>2. lock' # Free => Active(lock)' /\ call'[lock].op \in LockedOps
      BY <2>1 DEF CallInv, TypeOK
    <2> QED
      BY <2>1, <2>2, CallFrame DEF fields
  <1>10. CASE \/ HandleInterrupt \/ UNCHANGED vars
              \/ \E t \in Threads : CallbackReenters(t) \/ InnerTimesOut(t)
    <2>1. UNCHANGED <<fields, lock, pc, call, out>>
      BY <1>10 DEF HandleInterrupt, CallbackReenters, InnerTimesOut, vars
    <2>2. /\ \A s \in Threads : TableOf(call[s].op)' = TableOf(call[s].op)
          /\ \A s \in Threads : SlotOf(call[s].op)' = SlotOf(call[s].op)
      BY <2>1 DEF TableOf, SlotOf, fields
    <2> QED
      BY <2>1, <2>2 DEF CallInv, fields
  <1> QED
    BY <1>1, <1>2, <1>3, <1>4, <1>5, <1>6, <1>7, <1>8, <1>9, <1>10
    DEF Next, Step

-----------------------------------------------------------------------------
(* The holder's call and what it started from.                             *)

LEMMA SnapFrame ==
  ASSUME SnapInv, UNCHANGED <<fields, applied, refused, snap, lock>>,
         lock # Free => /\ pc'[lock] = pc[lock] /\ call'[lock] = call[lock]
                        /\ todo'[lock] = todo[lock] /\ out'[lock] = out[lock]
  PROVE  SnapInv'
  BY DEF SnapInv, fields

\* A service call's result changes none of the fields SalDriver knows of.
LEMMA ServiceEffects ==
  ASSUME LifecycleLocked, NEW op, NEW v, NEW result, IsService(op),
         Effects(op, v, result)
  PROVE  UNCHANGED <<status, applied, refused>>
  BY DEF LifecycleLocked, IsService, Effects

LEMMA SnapInductive ==
  ASSUME LifecycleLocked
  PROVE  TypeOK /\ TableInv /\ LockInv /\ CallInv /\ SnapInv /\ [Next]_vars
           => SnapInv'
  <1> SUFFICES ASSUME TypeOK, TableInv, LockInv, CallInv, SnapInv, [Next]_vars
               PROVE SnapInv'
    OBVIOUS
  <1> USE ThreadsAssumption DEF Goto
  <1>0. lock # Free => lock \in Threads /\ Active(lock)
    BY DEF CallInv, TypeOK
  <1>1. ASSUME NEW t \in {NULL} \cup Tables, NEW c \in ConfigValues,
               NEW r \in RegValues, Populate(t, c, r)
        PROVE SnapInv'
    <2>1. lock = Free /\ lock' = lock
      BY <1>0, <1>1 DEF Populate, TableInv, Active
    <2> QED
      BY <2>1 DEF SnapInv
  <1>2. ASSUME NEW t \in Threads,
               \/ \E op \in Ops : \E v \in Arguments(op) : Begin(t, op, v)
               \/ TimesOut(t)
        PROVE SnapInv'
    <2>1. ~Active(t)
      BY <1>2 DEF Begin, TimesOut, Active
    <2>2. lock # t
      BY <1>0, <2>1
    <2> QED
      BY <1>0, <1>2, <2>2, SnapFrame DEF Begin, TimesOut, TypeOK, history
  <1>3. ASSUME NEW t \in Threads, Acquire(t) PROVE SnapInv'
    <2>1. /\ lock' = t /\ snap' = Shared /\ pc'[t] = "wrapper"
          /\ todo[t] = Stores(call[t].op)
          /\ UNCHANGED <<fields, call, todo, applied, refused>>
      BY <1>3 DEF Acquire, TableInv, TypeOK, history
    <2> QED
      BY <2>1, StoresOf DEF SnapInv, Shared, fields
  <1>4. ASSUME NEW t \in Threads, NEW f \in todo[t], StoreField(t, f)
        PROVE SnapInv'
    <2>1. lock = t
      BY <1>4, StoreIsHolders
    <2>2. /\ pc[t] = "wrapper" /\ f \in Stores(call[t].op)
          /\ todo'[t] = todo[t] \ {f}
          /\ vmt' = IF f = "vmt" THEN api ELSE vmt
          /\ config' = IF f = "config" THEN call[t].val ELSE config
          /\ cb' = IF f = "cb" THEN call[t].val ELSE cb
          /\ UNCHANGED <<status, api, lock, pc, call, out, applied, refused,
                         snap>>
      BY <1>4 DEF StoreField, TypeOK, history
    <2>3. /\ f = "vmt" => call[t].op = "init"
          /\ f = "config" => call[t].op = "config_set"
          /\ f = "cb" => call[t].op = "callback_register"
      BY <2>2, StoresOf
    <2> QED
      BY <2>1, <2>2, <2>3 DEF SnapInv
  <1>5. ASSUME NEW t \in Threads, ConfigTest(t) \/ ConfigCopy(t)
        PROVE SnapInv'
    <2>1. /\ Active(t) /\ call[t].op = "config_get"
          /\ pc[t] # "done"
          /\ UNCHANGED <<fields, lock, call, todo, applied, refused, snap>>
      BY <1>5 DEF ConfigTest, ConfigCopy, CallInv, Active, history
    <2>2. lock = t
      BY <2>1, Holder DEF LifecycleLocked, IsService
    <2> QED
      BY <2>1, <2>2 DEF SnapInv, fields
  <1>6. ASSUME NEW t \in Threads, ProviderEntered(t) PROVE SnapInv'
    <2>1. /\ pc[t] # "done" /\ pc' = [pc EXCEPT ![t] = "provider"]
          /\ UNCHANGED <<fields, lock, call, todo, out, applied, refused, snap>>
      BY <1>6 DEF ProviderEntered, InHal, history
    <2>2. \A s \in Threads :
            /\ pc'[s] = "done" <=> pc[s] = "done"
            /\ s # t => pc'[s] = pc[s]
      BY <2>1 DEF TypeOK
    <2> QED
      BY <1>0, <2>1, <2>2 DEF SnapInv, fields
  <1>7. ASSUME NEW t \in Threads, HalRefuses(t) \/ ProviderReturns(t)
        PROVE SnapInv'
    <2>1. PICK o \in Outs(api, vmt, config, call[t].op, call[t].val) :
            /\ Returned(t, o)
            /\ UNCHANGED <<vmt, api, config, cb, arg, lock, call, todo, inner,
                           last, snap>>
      BY <1>7, ResultInOuts
    <2>2. /\ out'[t] = o /\ pc'[t] = "done" /\ pc[t] # "done"
          /\ \A s \in Threads \ {t} : out'[s] = out[s] /\ pc'[s] = pc[s]
      BY <1>7, <2>1
      DEF Returned, HalRefuses, ProviderReturns, InHal, CallInv, TypeOK
    <2>3. CASE IsService(call[t].op)
      <3>1. UNCHANGED <<status, applied, refused>>
        BY <2>1, <2>3, ServiceEffects DEF Returned
      <3>2. CASE lock = t
        <4>1. call[t].op \notin {"init", "deinit", "config_set",
                                "callback_register"}
          BY <2>3 DEF LifecycleLocked, IsService
        <4> QED
          BY <2>1, <2>2, <3>1, <3>2, <4>1 DEF SnapInv
      <3>3. CASE lock # t
        BY <1>0, <2>1, <2>2, <3>1, <3>3, SnapFrame DEF fields
      <3> QED
        BY <3>2, <3>3
    <2>4. CASE ~IsService(call[t].op)
      <3>1. lock = t
        BY <1>7, <2>4, Holder
        DEF HalRefuses, ProviderReturns, InHal, Active
      <3>2. /\ status = snap.status /\ applied = snap.applied
            /\ refused = snap.refused
        BY <2>2, <3>1 DEF SnapInv
      <3>3. Effects(call[t].op, call[t].val, o.result)
        BY <2>1 DEF Returned
      <3> QED
        BY <2>1, <2>2, <3>1, <3>2, <3>3 DEF SnapInv, Effects
    <2> QED
      BY <2>3, <2>4
  <1>8. ASSUME NEW t \in Threads, Return(t) PROVE SnapInv'
    <2>1. CASE lock = t
      BY <1>8, <2>1 DEF Return, Locked, SnapInv
    <2>2. CASE lock # t
      BY <1>0, <1>8, <2>2, SnapFrame DEF Return, Locked, TypeOK
    <2> QED
      BY <2>1, <2>2
  <1>9. CASE \/ HandleInterrupt \/ UNCHANGED vars
             \/ \E t \in Threads : CallbackReenters(t) \/ InnerTimesOut(t)
    BY <1>9, SnapFrame
    DEF HandleInterrupt, CallbackReenters, InnerTimesOut, vars, history
  <1> QED
    BY <1>1, <1>2, <1>3, <1>4, <1>5, <1>6, <1>7, <1>8, <1>9 DEF Next, Step

-----------------------------------------------------------------------------
(* The refinement.                                                         *)

LEMMA Single ==
  ASSUME NEW a, NEW b
  PROVE  /\ [d \in {Driver} |-> a][Driver] = a
         /\ [[d \in {Driver} |-> a] EXCEPT ![Driver] = b]
              = [d \in {Driver} |-> b]
  OBVIOUS

\* The outcomes of a step-level call are those SalDriver allows.
LEMMA BaseOutcome ==
  ASSUME TablesFit, status # "ZEROED", NEW table \in {NULL} \cup Tables,
         NEW op, NEW val, NEW o \in BaseOuts(table, op, val)
  PROVE  /\ o.value = val
         /\ \E p \in Atomic!BaseCall(Service, Driver, table, op) :
              p.result = o.result /\ p.hit = o.hit
  <1>1. Atomic!BaseCall(Service, Driver, table, op) =
          {Atomic!Out("FAIL", NULL)} \cup
          (IF Has(table, op) THEN Atomic!Provider(table, op)
           ELSE {Atomic!Out("NOT_SUPPORTED", NULL), Atomic!Out("OK", NULL)})
    BY DEF Atomic!BaseCall, Atomic!TypeChecked, Atomic!Has, Has
  <1>2. Has(table, op) => Hit(op) = Atomic!Hit(table, op)
    BY DEF Has, Hit, Atomic!Hit, TablesFit
  <1>3. \E result, hit :
          /\ o = Out(result, hit, val)
          /\ Atomic!Out(result, hit) \in Atomic!BaseCall(Service, Driver, table, op)
    <2>1. CASE o = Out("FAIL", NULL, val)
      BY <1>1, <2>1
    <2>2. CASE /\ Has(table, op)
               /\ o \in {Out(r, Hit(op), val) : r \in {"OK", "FAIL"}}
      BY <1>1, <1>2, <2>2 DEF Atomic!Provider
    <2>3. CASE /\ ~Has(table, op)
               /\ o \in {Out(r, NULL, val) : r \in {"NOT_SUPPORTED", "OK"}}
      BY <1>1, <2>3
    <2> QED
      BY <2>1, <2>2, <2>3 DEF BaseOuts
  <1> QED
    BY <1>3 DEF Out, Atomic!Out

LEMMA ServiceOutcome ==
  ASSUME TablesFit, status # "ZEROED", api \in {NULL} \cup Tables,
         NEW op \in DOMAIN ServiceCalls, NEW o \in ServiceOuts(api, op)
  PROVE  /\ o.value = NULL
         /\ \E p \in Atomic!CheckAndCall(Service, Driver, ServiceCalls[op]) :
              p.result = o.result /\ p.hit = o.hit
  <1> DEFINE slot == ServiceCalls[op]
  <1>1. Atomic!CheckAndCall(Service, Driver, slot) =
          IF Has(api, slot) THEN Atomic!Provider(api, slot)
                            ELSE {Atomic!Out("NOT_SUPPORTED", NULL)}
    BY DEF Atomic!CheckAndCall, Atomic!TypeChecked, Atomic!Has, Has
  <1>2. Has(api, slot) => Hit(slot) = Atomic!Hit(api, slot)
    BY DEF Has, Hit, Atomic!Hit, TablesFit
  <1>3. \E result, hit :
          /\ o = Out(result, hit, NULL)
          /\ Atomic!Out(result, hit) \in Atomic!CheckAndCall(Service, Driver, slot)
    BY <1>1, <1>2 DEF ServiceOuts, Atomic!Provider
  <1> QED
    BY <1>3 DEF Out, Atomic!Out

\* The driver's fields before and after, as SalDriver sees them.
LEMMA Stutter ==
  ASSUME Seen' = Seen, UNCHANGED <<api, last>>,
         status' = "ZEROED" <=> status = "ZEROED"
  PROVE  UNCHANGED Atomic!vars
  BY DEF Atomic!vars

LEMMA PopulateRefines ==
  ASSUME TablesFit, TypeOK, TableInv, CallInv, NEW t \in {NULL} \cup Tables,
         NEW c \in ConfigValues, NEW r \in RegValues, Populate(t, c, r)
  PROVE  Atomic!Next
  <1>1. lock = Free /\ lock' = Free
    BY DEF Populate, TableInv, CallInv, Active, TypeOK
  <1>2. Seen = Shared /\ Seen' = Shared'
    BY <1>1 DEF Seen
  <1>3. Atomic!Populate(Driver, t, c, r)
    BY <1>2, Single
    DEF Populate, Shared, Record, Out, Atomic!Populate, Atomic!Record,
        Atomic!Out
  <1>4. /\ t \in Atomic!TablesOf(Service)
        /\ c \in Atomic!ConfigsOf(Service)
        /\ r \in Atomic!RegistrationsOf(Service)
    BY DEF TablesFit, Atomic!TablesOf, Atomic!ConfigsOf, ConfigValues,
           RegValues, Atomic!RegistrationsOf
  <1> QED
    BY <1>3, <1>4, Single DEF Atomic!Next

LEMMA InterruptRefines ==
  ASSUME TablesFit, TypeOK, CallInv, HandleInterrupt
  PROVE  Atomic!Next
  <1>1. Seen' = Seen /\ UNCHANGED <<api, status>>
    BY DEF HandleInterrupt, fields, Seen, Shared
  <1>2. Has(api, "handle_interrupt") =>
          /\ Hit("handle_interrupt") = Atomic!Hit(api, "handle_interrupt")
          /\ status # "ZEROED"
    BY DEF Has, Hit, Atomic!Hit, TablesFit, TypeOK, CallInv
  <1>3. Atomic!HandleInterrupt(Service, Driver)
    <2>1. CASE Has(api, "handle_interrupt")
      BY <1>1, <1>2, <2>1
      DEF HandleInterrupt, Record, Out, Atomic!HandleInterrupt, Has,
          Atomic!Has, Atomic!May, Atomic!Record, Atomic!Out
    <2>2. CASE ~Has(api, "handle_interrupt")
      BY <1>1, <2>2
      DEF HandleInterrupt, Record, Out, Atomic!HandleInterrupt, Has,
          Atomic!Has, Atomic!May, Atomic!Record, Atomic!Out
    <2> QED
      BY <2>1, <2>2
  <1> QED
    BY <1>3 DEF Atomic!Next

\* A service call that returns.
LEMMA ServiceRefines ==
  ASSUME LifecycleLocked, TablesFit, TypeOK, TableInv, CallInv, SnapInv,
         NEW t \in Threads, Return(t), IsService(call[t].op)
  PROVE  Atomic!Next
  <1> DEFINE op == call[t].op
  <1>1. /\ pc[t] = "done" /\ status # "ZEROED"
        /\ out[t] \in ServiceOuts(api, op)
    BY DEF Return, TableInv, CallInv, Outs
  <1>2. op \notin {"init", "deinit", "config_set", "callback_register"}
    BY DEF LifecycleLocked, IsService
  <1>3. /\ Seen'.status = Seen.status /\ Seen'.vmt = Seen.vmt
        /\ Seen'.config = Seen.config /\ Seen'.cb = Seen.cb
        /\ Seen'.applied = Seen.applied /\ Seen'.refused = Seen.refused
    <2>1. UNCHANGED Shared
      BY DEF Return, Shared, fields
    <2>2. CASE lock = t
      <3>1. Seen = snap /\ Seen' = Shared
        BY <2>1, <2>2, ThreadsAssumption DEF Return, Locked, Seen
      <3> QED
        BY <1>2, <2>2, <3>1, ThreadsAssumption DEF SnapInv, Shared
    <2>3. CASE lock # t
      BY <2>1, <2>3 DEF Return, Locked, Seen
    <2> QED
      BY <2>2, <2>3
  <1>4. PICK p \in Atomic!CheckAndCall(Service, Driver, ServiceCalls[op]) :
          p.result = out[t].result /\ p.hit = out[t].hit
    BY <1>1, ServiceOutcome DEF IsService, TypeOK
  <1>5. out[t].value = NULL
    BY <1>1, ServiceOutcome DEF IsService, TypeOK
  <1>6. Atomic!Call(op, Service, Driver)
    BY <1>3, <1>4, <1>5
    DEF Return, Record, fields, Atomic!Call, Atomic!May, Atomic!Record
  <1> QED
    BY <1>6 DEF Atomic!Next, IsService

\* A lifecycle call that returns.
LEMMA LifecycleRefines ==
  ASSUME LifecycleLocked, TablesFit, TypeOK, TableInv, LockInv, CallInv,
         SnapInv, NEW t \in Threads, Return(t), ~IsService(call[t].op)
  PROVE  Atomic!Next
  <1> DEFINE op == call[t].op
             val == call[t].val
  <1>1. /\ pc[t] = "done" /\ status # "ZEROED" /\ op \in Ops /\ todo[t] = {}
        /\ val \in Arguments(op)
        /\ out[t] \in Outs(api, vmt, config, op, val)
    BY DEF Return, TableInv, CallInv, TypeOK
  <1>2. lock = t /\ lock # Free
    BY <1>1, Holder, ThreadsAssumption DEF Active
  <1>3. /\ Seen = snap
        /\ Seen' = [status |-> status, vmt |-> vmt, config |-> config,
                    cb |-> cb, applied |-> applied, refused |-> refused]
        /\ UNCHANGED <<status, api>>
    BY <1>2 DEF Return, Locked, Seen, Shared, fields
  <1>4. last' = [op |-> op, via |-> Service, on |-> Driver,
                 result |-> out[t].result, hit |-> out[t].hit,
                 value |-> out[t].value]
    BY DEF Return, Record
  <1>5. /\ vmt = IF op = "init" THEN api ELSE snap.vmt
        /\ config = IF op = "config_set" THEN val ELSE snap.config
        /\ cb = IF op = "callback_register" THEN val ELSE snap.cb
    BY <1>1, <1>2 DEF SnapInv
  <1>6. /\ status = CASE out[t].result = "OK" /\ op = "init" -> "INITIALIZED"
                      [] out[t].result = "OK" /\ op = "deinit" -> "CONSTRUCTED"
                      [] OTHER -> snap.status
        /\ applied = CASE out[t].result = "OK" /\ op = "init" -> config
                       [] out[t].result = "OK" /\ op = "config_set" -> val
                       [] OTHER -> snap.applied
        /\ refused = CASE out[t].result = "OK" /\ op = "init" -> FALSE
                       [] op = "config_set" -> out[t].result # "OK"
                       [] OTHER -> snap.refused
    BY <1>1, <1>2 DEF SnapInv
  <1>7. op # "config_get" =>
          /\ out[t].value = val
          /\ \E p \in Atomic!BaseCall(Service, Driver, vmt, op) :
               p.result = out[t].result /\ p.hit = out[t].hit
    <2> SUFFICES ASSUME op # "config_get"
                 PROVE  /\ out[t].value = val
                        /\ \E p \in Atomic!BaseCall(Service, Driver, vmt, op) :
                             p.result = out[t].result /\ p.hit = out[t].hit
      OBVIOUS
    <2>1. out[t] \in BaseOuts(vmt, op, val)
      BY <1>1 DEF Outs
    <2>2. vmt \in {NULL} \cup Tables
      BY DEF TypeOK
    <2> HIDE DEF op, val
    <2> QED
      BY ONLY <1>1, <2>1, <2>2, BaseOutcome, TablesFit
  <1>8. op \notin {"config_set", "callback_register"} => val = NULL
    BY <1>1 DEF Arguments
  <1> USE <1>1, <1>3, <1>4, <1>5, <1>6, <1>8, Single
  <1>9. CASE op = "init"
    BY <1>7, <1>9
    DEF Atomic!Next, Atomic!InitDriver, Atomic!May, Atomic!Record
  <1>10. CASE op = "deinit"
    BY <1>7, <1>10
    DEF Atomic!Next, Atomic!Deinit, Atomic!May, Atomic!Record, IsService
  <1>11. CASE op = "config_set"
    <2>1. val \in Atomic!ConfigsOf(Service)
      BY <1>11 DEF Arguments, ConfigValues, Atomic!ConfigsOf
    <2>2. PICK p \in Atomic!BaseCall(Service, Driver, vmt, "config_set") :
            p.result = out[t].result /\ p.hit = out[t].hit
      BY <1>7, <1>11
    <2>3. applied = (IF p.result = "OK" THEN val ELSE snap.applied)
          /\ refused = (p.result # "OK")
      BY <1>11, <2>2
    <2>4. /\ vmt = snap.vmt /\ status = snap.status /\ cb = snap.cb
          /\ config = val
      BY <1>11
    <2>5. /\ "config_set" \in Ops \ DOMAIN ServiceCalls
          /\ last' = [op |-> "config_set", via |-> Service, on |-> Driver,
                      result |-> p.result, hit |-> p.hit, value |-> val]
      BY <1>7, <1>11, <2>2 DEF IsService
    <2>6. Atomic!ConfigSet(Service, Driver, val)
      BY ONLY <1>3, <2>2, <2>3, <2>4, <2>5, Single
      DEF Atomic!ConfigSet, Atomic!May, Atomic!Record
    <2> QED
      BY <2>1, <2>6 DEF Atomic!Next
  <1>12. CASE op = "callback_register"
    <2>1. val \in Atomic!RegistrationsOf(Service)
      BY <1>12 DEF Arguments, RegValues, Atomic!RegistrationsOf
    <2>2. Atomic!CallbackRegister(Service, Driver, val)
      BY <1>7, <1>12
      DEF Atomic!CallbackRegister, Atomic!May, Atomic!Record, IsService
    <2> QED
      BY <2>1, <2>2 DEF Atomic!Next
  <1>13. CASE op = "config_get"
    <2>1. \/ out[t] = Out("BAD_PARAM", NULL, NULL)
          \/ snap.config # NULL /\ out[t] = Out("OK", NULL, snap.config)
      BY <1>13 DEF Outs, ConfigOuts
    <2>2. Atomic!ConfigGet(Service, Driver)
      BY <1>13, <2>1
      DEF Atomic!ConfigGet, Atomic!May, Atomic!Record, Atomic!Out, Out,
          IsService
    <2> QED
      BY <2>2 DEF Atomic!Next
  <1>14. CASE op \notin {"init", "deinit", "config_set", "config_get",
                         "callback_register"}
    <2>1. op \in Forwards
      BY <1>14 DEF Ops, IsService
    <2>2. Atomic!Forward(op, Service, Driver)
      BY <1>7, <1>14 DEF Atomic!Forward, Atomic!May, Atomic!Record, IsService
    <2> QED
      BY <2>1, <2>2 DEF Atomic!Next
  <1> QED
    BY <1>9, <1>10, <1>11, <1>12, <1>13, <1>14

\* Any other step of a thread changes nothing SalDriver knows of.
LEMMA InsideRefines ==
  ASSUME LifecycleLocked, TypeOK, TableInv, LockInv, CallInv,
         NEW t \in Threads,
         \/ Step(t) /\ ~Return(t)
         \/ ProviderReturns(t) \/ CallbackReenters(t)
         \/ \E op \in Ops : \E v \in Arguments(op) : Begin(t, op, v)
  PROVE  UNCHANGED Atomic!vars
  <1> USE ThreadsAssumption DEF Seen
  <1>1. CASE \/ TimesOut(t) \/ ConfigTest(t) \/ ConfigCopy(t)
             \/ ProviderEntered(t) \/ CallbackReenters(t) \/ InnerTimesOut(t)
             \/ \E op \in Ops : \E v \in Arguments(op) : Begin(t, op, v)
    <2>1. UNCHANGED <<fields, lock, snap, history>>
      BY <1>1
      DEF TimesOut, ConfigTest, ConfigCopy, ProviderEntered, CallbackReenters,
          InnerTimesOut, Begin
    <2>2. Seen' = Seen /\ UNCHANGED <<api, last, status>>
      BY <2>1 DEF fields, history, Shared
    <2> QED
      BY <2>2, Stutter
  <1>2. CASE Acquire(t)
    <2>1. lock = Free /\ lock' # Free /\ snap' = Shared
          /\ UNCHANGED <<fields, history>>
      BY <1>2 DEF Acquire
    <2>2. Seen' = Seen /\ UNCHANGED <<api, last, status>>
      BY <2>1 DEF fields, history
    <2> QED
      BY <2>2, Stutter
  <1>3. ASSUME NEW f \in todo[t], StoreField(t, f)
        PROVE UNCHANGED Atomic!vars
    <2>1. lock = t /\ UNCHANGED <<lock, snap, api, status, history>>
      BY <1>3, StoreIsHolders DEF StoreField
    <2>2. Seen' = Seen /\ UNCHANGED <<api, last, status>>
      BY <2>1 DEF history
    <2> QED
      BY <2>2, Stutter
  <1>4. CASE HalRefuses(t) \/ ProviderReturns(t)
    <2>1. PICK o \in Outs(api, vmt, config, call[t].op, call[t].val) :
            /\ Returned(t, o)
            /\ UNCHANGED <<vmt, api, config, cb, arg, lock, call, todo, inner,
                           last, snap>>
      BY <1>4, ResultInOuts
    <2>2. Active(t) /\ status # "ZEROED"
      BY <1>4 DEF HalRefuses, ProviderReturns, InHal, Active, TableInv
    <2>3. status' # "ZEROED"
      BY <2>1, <2>2 DEF Returned, Effects
    <2>4. Seen' = Seen
      <3>1. CASE IsService(call[t].op)
        <4>1. UNCHANGED <<status, applied, refused>>
          BY <2>1, <3>1, ServiceEffects DEF Returned
        <4> QED
          BY <2>1, <4>1 DEF Shared
      <3>2. CASE ~IsService(call[t].op)
        <4>1. lock = t
          BY <2>2, <3>2, Holder
        <4> QED
          BY <2>1, <4>1
      <3> QED
        BY <3>1, <3>2
    <2> QED
      BY <2>1, <2>2, <2>3, <2>4, Stutter
  <1> QED
    BY <1>1, <1>2, <1>3, <1>4 DEF Step

\* If clients call the lifecycle wrappers under the lock, the driver behaves
\* as if every call were atomic, whatever comes in without the lock.
THEOREM LockedCallsAreAtomic ==
  ASSUME LifecycleLocked, TablesFit
  PROVE  Spec => BehavesAtomically
<1> DEFINE Inv == TypeOK /\ TableInv /\ LockInv /\ CallInv /\ SnapInv
<1>1. Init => Inv /\ Atomic!Init
  <2> SUFFICES ASSUME Init PROVE Inv /\ Atomic!Init
    OBVIOUS
  <2>1. CallInv /\ SnapInv
    BY DEF Init, CallInv, SnapInv
  <2>2. Atomic!Init
    BY DEF Init, Seen, Shared, Atomic!Init, Atomic!Untyped
  <2> QED
    BY <2>1, <2>2, TypeInitial, TableInitial, LockInitial
<1>2. Inv /\ [Next]_vars => Inv'
  BY TypeInductive, TableInductive, LockInductive, CallInductive, SnapInductive
<1>3. Inv /\ [Next]_vars => [Atomic!Next]_Atomic!vars
  <2> SUFFICES ASSUME Inv, [Next]_vars PROVE [Atomic!Next]_Atomic!vars
    OBVIOUS
  <2>1. ASSUME NEW t \in {NULL} \cup Tables, NEW c \in ConfigValues,
               NEW r \in RegValues, Populate(t, c, r)
        PROVE Atomic!Next
    BY <2>1, PopulateRefines
  <2>2. ASSUME NEW t \in Threads, Return(t) PROVE Atomic!Next
    BY <2>2, ServiceRefines, LifecycleRefines
  <2>3. CASE HandleInterrupt
    BY <2>3, InterruptRefines
  <2>4. CASE UNCHANGED vars
    <3>1. Seen' = Seen /\ UNCHANGED <<api, last, status>>
      BY <2>4 DEF vars, fields, history, Seen, Shared
    <3> QED
      BY <3>1, Stutter
  <2> QED
    BY <2>1, <2>2, <2>3, <2>4, InsideRefines DEF Next
<1> QED
  BY <1>1, <1>2, <1>3, PTL DEF Spec, BehavesAtomically, Atomic!Spec

-----------------------------------------------------------------------------
(* The headers.                                                            *)

H == INSTANCE SalHeaders_proofs

\* The driver is of one of the 25 services, with the wrappers its header has.
RealService ==
  /\ Service \in H!ServiceNames
  /\ ServiceCalls = H!Catalog[Service].calls

\* Whichever of the 25 services the driver is of, locking its lifecycle calls is
\* enough: no header has a service wrapper that stores into the struct.
THEOREM RealLockedCallsAreAtomic ==
  ASSUME RealService, TablesFit, Ops \ DOMAIN ServiceCalls \subseteq LockedOps
  PROVE  Spec => BehavesAtomically
<1>1. DOMAIN ServiceCalls \cap H!LifecycleWrappers = {}
  BY H!SlotsApart DEF RealService, H!OneWrapperPerSlot
<1>2. LifecycleLocked
  BY <1>1 DEF LifecycleLocked, H!LifecycleWrappers, H!LifecycleSlots
<1> QED
  BY <1>2, LockedCallsAreAtomic
=============================================================================
