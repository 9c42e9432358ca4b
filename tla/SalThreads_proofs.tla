--------------------------- MODULE SalThreads_proofs ---------------------------
(***************************************************************************)
(* Theorems about SalThreads, for any number of threads and any provider:  *)
(* locking the wrappers that touch config and the callback fields is       *)
(* enough for those fields, and the HAL's table needs no lock at all.      *)
(***************************************************************************)
EXTENDS SalThreads, TLAPS

FieldOps == {"config_set", "config_get", "callback_register"}
FieldsLocked == FieldOps \subseteq LockedOps

LEMMA StoresOf ==
  ASSUME NEW op
  PROVE  /\ Stores(op) \subseteq {"vmt", "config", "cb", "arg"}
         /\ "vmt" \in Stores(op) <=> op = "init"
         /\ "config" \in Stores(op) <=> op = "config_set"
         /\ "cb" \in Stores(op) <=> op = "callback_register"
         /\ "arg" \in Stores(op) <=> op = "callback_register"
         /\ Stores("callback_register") = {"cb", "arg"}
  BY DEF Stores

LEMMA ArgumentsOf ==
  ASSUME NEW op, NEW v \in Arguments(op)
  PROVE  /\ v \in ConfigValues \cup RegValues
         /\ op = "config_set" => v \in ConfigValues
         /\ op = "callback_register" => v \in RegValues
  BY DEF Arguments, ConfigValues, RegValues

LEMMA NoArgument == NULL \in Arguments("none") /\ Stores("none") = {}
  BY DEF Arguments, Stores

-----------------------------------------------------------------------------
(* Type correctness.                                                       *)

LEMMA TypeInductive == TypeOK /\ [Next]_vars => TypeOK'
  <1> SUFFICES ASSUME TypeOK, [Next]_vars PROVE TypeOK'
    OBVIOUS
  <1> USE DEF TypeOK, Goto
  <1>1. ASSUME NEW t \in {NULL} \cup Tables, NEW c \in ConfigValues,
               NEW r \in RegValues, Populate(t, c, r)
        PROVE TypeOK'
    BY <1>1 DEF Populate
  <1>2. ASSUME NEW t \in Threads, NEW op \in Ops, NEW v \in Arguments(op),
               Begin(t, op, v)
        PROVE TypeOK'
    BY <1>2, StoresOf, ArgumentsOf DEF Begin, fields, history
  <1>3. ASSUME NEW t \in Threads, Acquire(t) PROVE TypeOK'
    BY <1>3 DEF Acquire, fields, history
  <1>4. ASSUME NEW t \in Threads, TimesOut(t) PROVE TypeOK'
    BY <1>4, NoArgument DEF TimesOut, NoCall, fields, history, ConfigValues
  <1>5. ASSUME NEW t \in Threads, NEW f \in todo[t], StoreField(t, f)
        PROVE TypeOK'
    <2>1. f \in Stores(call[t].op) /\ call[t].val \in Arguments(call[t].op)
      BY <1>5 DEF StoreField
    <2>2. /\ f = "config" => call[t].val \in ConfigValues
          /\ f \in {"cb", "arg"} => call[t].val \in RegValues
      BY <2>1, StoresOf, ArgumentsOf
    <2> QED
      BY <1>5, <2>2 DEF StoreField, history
  <1>6. ASSUME NEW t \in Threads,
               \/ ConfigTest(t) \/ ConfigCopy(t) \/ ProviderEntered(t)
               \/ CallbackReenters(t) \/ InnerTimesOut(t)
        PROVE TypeOK'
    BY <1>6, StoresOf
    DEF ConfigTest, ConfigCopy, ProviderEntered, CallbackReenters, InHal,
        InnerTimesOut, fields, history
  <1>7. ASSUME NEW t \in Threads, NEW o, Returned(t, o), todo[t] = {},
               UNCHANGED <<vmt, api, config, cb, arg, lock, call, todo, inner>>
        PROVE TypeOK'
    <2>1. call[t].op = "config_set" => call[t].val \in ConfigValues
      BY ArgumentsOf
    <2>2. status' \in {"ZEROED", "CONSTRUCTED", "INITIALIZED"}
      BY <1>7 DEF Returned, Effects
    <2>3. applied' \in ConfigValues
      BY <1>7, <2>1 DEF Returned, Effects
    <2>4. refused' \in BOOLEAN
      BY <1>7 DEF Returned, Effects
    <2> QED
      BY <1>7, <2>2, <2>3, <2>4 DEF Returned
  <1>8. ASSUME NEW t \in Threads, HalRefuses(t) \/ ProviderReturns(t)
        PROVE TypeOK'
    BY <1>7, <1>8 DEF HalRefuses, ProviderReturns, InHal
  <1>9. ASSUME NEW t \in Threads, Return(t) PROVE TypeOK'
    <2> USE <1>9, NoArgument DEF Return, NoCall, fields, ConfigValues
    <2>1. call' \in [Threads -> [op : Ops \cup {"none"},
                                 val : ConfigValues \cup RegValues]]
      OBVIOUS
    <2>2. todo' = todo /\ todo[t] = {}
      OBVIOUS
    <2> QED
      BY <2>1, <2>2
  <1>10. CASE HandleInterrupt
    BY <1>10 DEF HandleInterrupt, fields
  <1>11. CASE UNCHANGED vars
    BY <1>11 DEF vars, fields, history
  <1> QED
    BY <1>1, <1>2, <1>3, <1>4, <1>5, <1>6, <1>8, <1>9, <1>10, <1>11
    DEF Next, Step

LEMMA TypeInitial == Init => TypeOK
  <1> SUFFICES ASSUME Init PROVE TypeOK
    OBVIOUS
  <1> USE DEF Init
  <1>1. NULL \in ConfigValues /\ NULL \in RegValues
    BY DEF ConfigValues, RegValues
  <1>2. NoCall \in [op : Ops \cup {"none"}, val : ConfigValues \cup RegValues]
    BY <1>1 DEF NoCall
  <1>3. \A t \in Threads : call[t].val \in Arguments(call[t].op)
    BY NoArgument DEF NoCall
  <1> QED
    BY <1>1, <1>2, <1>3 DEF TypeOK

\* Whatever the threads do, with or without the lock, every field keeps its
\* type, every call carries an argument of its wrapper, and a wrapper past its
\* stores has none left to make.
THEOREM TypeCorrect == Spec => []TypeOK
  BY TypeInitial, TypeInductive, PTL DEF Spec

-----------------------------------------------------------------------------
(* The HAL's table.                                                        *)

\* A zeroed driver has no callers; a running init that has done its store left
\* vmt bound, and nobody unbinds it.
TableInv ==
  /\ vmt \in {NULL, api}
  /\ status = "INITIALIZED" => vmt = api
  /\ status = "ZEROED" => \A t \in Threads : pc[t] = "idle"
  /\ \A t \in Threads :
       Active(t) /\ call[t].op = "init" /\ "vmt" \notin todo[t] => vmt = api
  /\ \A t \in Threads :
       pc[t] = "waiting" => todo[t] = Stores(call[t].op)

LEMMA TableInductive == TypeOK /\ TableInv /\ [Next]_vars => TableInv'
  <1> SUFFICES ASSUME TypeOK, TableInv, [Next]_vars PROVE TableInv'
    OBVIOUS
  <1> USE DEF TypeOK, TableInv, Active, Goto
  <1>1. ASSUME NEW t \in {NULL} \cup Tables, NEW c \in ConfigValues,
               NEW r \in RegValues, Populate(t, c, r)
        PROVE TableInv'
    BY <1>1 DEF Populate
  <1>2. ASSUME NEW t \in Threads, NEW op \in Ops, NEW v \in Arguments(op),
               Begin(t, op, v)
        PROVE TableInv'
    BY <1>2, StoresOf DEF Begin, fields, history
  <1>3. ASSUME NEW t \in Threads, Acquire(t) \/ TimesOut(t) PROVE TableInv'
    BY <1>3, StoresOf DEF Acquire, TimesOut, fields, history
  <1>4. ASSUME NEW t \in Threads, NEW f \in todo[t], StoreField(t, f)
        PROVE TableInv'
    BY <1>4, StoresOf DEF StoreField, history
  <1>5. ASSUME NEW t \in Threads,
               \/ ConfigTest(t) \/ ConfigCopy(t) \/ ProviderEntered(t)
               \/ CallbackReenters(t) \/ InnerTimesOut(t) \/ Return(t)
        PROVE TableInv'
    BY <1>5
    DEF ConfigTest, ConfigCopy, ProviderEntered, CallbackReenters, InHal,
        InnerTimesOut, Return, fields, history
  <1>6. ASSUME NEW t \in Threads, NEW o, Returned(t, o), todo[t] = {},
               Active(t), UNCHANGED <<vmt, api, call, todo>>
        PROVE TableInv'
    <2>1. /\ status' = "INITIALIZED" => call[t].op = "init"
                                        \/ status = "INITIALIZED"
          /\ status' = "ZEROED" => status = "ZEROED"
      BY <1>6 DEF Returned, Effects
    <2> QED
      BY <1>6, <2>1 DEF Returned
  <1>7. ASSUME NEW t \in Threads, HalRefuses(t) \/ ProviderReturns(t)
        PROVE TableInv'
    BY <1>6, <1>7 DEF HalRefuses, ProviderReturns, InHal
  <1>8. CASE HandleInterrupt
    BY <1>8 DEF HandleInterrupt, fields
  <1>9. CASE UNCHANGED vars
    BY <1>9 DEF vars, fields, history
  <1> QED
    BY <1>1, <1>2, <1>3, <1>4, <1>5, <1>7, <1>8, <1>9 DEF Next, Step

LEMMA TableInitial == Init => TableInv
  BY NoArgument DEF Init, TableInv, Active, NoCall

\* init's store of base.vmt needs no lock: on an initialised driver the table
\* the HAL calls through is the driver's own, in every interleaving of any
\* number of threads.
THEOREM OneProviderAlways == Spec => []OneProvider
<1>1. Init => TypeOK /\ TableInv
  BY TypeInitial, TableInitial
<1>2. TypeOK /\ TableInv /\ [Next]_vars => TypeOK' /\ TableInv'
  BY TypeInductive, TableInductive
<1>3. TableInv => OneProvider
  BY DEF TableInv, OneProvider
<1> QED
  BY <1>1, <1>2, <1>3, PTL DEF Spec

-----------------------------------------------------------------------------
(* The lock.                                                               *)

\* A thread inside a locked wrapper holds the lock and nobody else does; who
\* waits for it waits for a locked wrapper.
LockInv ==
  /\ LockHeldInside
  /\ \A t \in Threads : pc[t] = "waiting" => call[t].op \in LockedOps

LEMMA LockInductive == TypeOK /\ LockInv /\ [Next]_vars => LockInv'
  <1> SUFFICES ASSUME TypeOK, LockInv, [Next]_vars PROVE LockInv'
    OBVIOUS
  <1> USE DEF TypeOK, LockInv, LockHeldInside, Active, Goto
  <1>1. ASSUME NEW t \in {NULL} \cup Tables, NEW c \in ConfigValues,
               NEW r \in RegValues, Populate(t, c, r)
        PROVE LockInv'
    BY <1>1 DEF Populate
  <1>2. ASSUME NEW t \in Threads, NEW op \in Ops, NEW v \in Arguments(op),
               Begin(t, op, v)
        PROVE LockInv'
    BY <1>2 DEF Begin
  <1>3. ASSUME NEW t \in Threads, Acquire(t) \/ TimesOut(t) PROVE LockInv'
    BY <1>3, ThreadsAssumption, OpsAssumption DEF Acquire, TimesOut, NoCall
  <1>4. ASSUME NEW t \in Threads, NEW f \in todo[t], StoreField(t, f)
        PROVE LockInv'
    BY <1>4 DEF StoreField
  <1>5. ASSUME NEW t \in Threads,
               \/ ConfigTest(t) \/ ConfigCopy(t) \/ ProviderEntered(t)
               \/ CallbackReenters(t) \/ InnerTimesOut(t)
        PROVE LockInv'
    BY <1>5
    DEF ConfigTest, ConfigCopy, ProviderEntered, CallbackReenters, InHal,
        InnerTimesOut
  <1>6. ASSUME NEW t \in Threads, HalRefuses(t) \/ ProviderReturns(t)
        PROVE LockInv'
    BY <1>6 DEF HalRefuses, ProviderReturns, Returned, InHal
  <1>7. ASSUME NEW t \in Threads, Return(t) PROVE LockInv'
    BY <1>7, ThreadsAssumption, OpsAssumption DEF Return, Locked, NoCall
  <1>8. CASE HandleInterrupt
    BY <1>8 DEF HandleInterrupt
  <1>9. CASE UNCHANGED vars
    BY <1>9 DEF vars
  <1> QED
    BY <1>1, <1>2, <1>3, <1>4, <1>5, <1>6, <1>7, <1>8, <1>9 DEF Next, Step

LEMMA LockInitial == Init => LockInv
  <1> SUFFICES ASSUME Init PROVE LockInv
    OBVIOUS
  <1>1. \A t \in Threads : lock # t /\ pc[t] = "idle"
    BY ThreadsAssumption DEF Init
  <1> QED
    BY <1>1 DEF LockInv, LockHeldInside, Active

\* The lock is neither lost nor stolen, whichever wrappers clients lock and
\* however their calls end.
THEOREM LockIsHeldInside == Spec => []LockHeldInside
<1>1. Init => TypeOK /\ LockInv
  BY TypeInitial, LockInitial
<1>2. TypeOK /\ LockInv /\ [Next]_vars => TypeOK' /\ LockInv'
  BY TypeInductive, LockInductive
<1>3. LockInv => LockHeldInside
  BY DEF LockInv
<1> QED
  BY <1>1, <1>2, <1>3, PTL DEF Spec

\* config_get between its two loads, callback_register between its two stores.
FieldInv ==
  /\ \A t \in Threads :
       pc[t] = "copy" => call[t].op = "config_get" /\ config # NULL
  /\ \A t \in Threads :
       BetweenStores(t) => /\ "cb" \notin todo[t] => cb = call[t].val
                           /\ "arg" \notin todo[t] => arg = call[t].val
  /\ CallbackPaired

LEMMA FieldInductive ==
  ASSUME FieldsLocked
  PROVE  TypeOK /\ TableInv /\ LockInv /\ FieldInv /\ [Next]_vars => FieldInv'
  <1> SUFFICES ASSUME TypeOK, TableInv, LockInv, FieldInv, [Next]_vars
               PROVE FieldInv'
    OBVIOUS
  <1>0. \A s, t \in Threads :
          /\ call[s].op \in FieldOps /\ Active(s)
          /\ call[t].op \in FieldOps /\ Active(t)
          => s = t
    BY DEF LockInv, LockHeldInside, FieldsLocked
  <1> USE DEF TypeOK, FieldInv, CallbackPaired, BetweenStores, Goto
  <1>1. ASSUME NEW t \in {NULL} \cup Tables, NEW c \in ConfigValues,
               NEW r \in RegValues, Populate(t, c, r)
        PROVE FieldInv'
    BY <1>1 DEF Populate, TableInv
  <1>2. ASSUME NEW t \in Threads, NEW op \in Ops, NEW v \in Arguments(op),
               Begin(t, op, v)
        PROVE FieldInv'
    BY <1>2, StoresOf DEF Begin, fields
  <1>3. ASSUME NEW t \in Threads, Acquire(t) \/ TimesOut(t) PROVE FieldInv'
    BY <1>3, StoresOf DEF Acquire, TimesOut, TableInv, fields
  <1>4. ASSUME NEW t \in Threads, NEW f \in todo[t], StoreField(t, f)
        PROVE FieldInv'
    <2> USE <1>4 DEF StoreField
    <2>1. pc[t] = "wrapper" /\ todo[t] \subseteq Stores(call[t].op)
      OBVIOUS
    <2>2. CASE call[t].op = "callback_register"
      <3>1. todo[t] \subseteq {"cb", "arg"}
        BY <2>1, <2>2, StoresOf
      <3>2. config' = config
        BY <3>1
      <3>3. \A s \in Threads : s # t => ~BetweenStores(s)
        BY <1>0, <2>1, <2>2 DEF FieldOps, Active
      <3>4. todo[t] = {"cb", "arg"} \/ todo[t] = {f}
        BY <3>1
      <3>5. \A s \in Threads : s # t => ~BetweenStores(s)'
        BY <3>3
      <3>6. CASE todo[t] = {"cb", "arg"}
        <4>1. BetweenStores(t)'
          <5>1. PICK g \in {"cb", "arg"} : g # f
            OBVIOUS
          <5>2. g \in todo'[t] /\ f \notin todo'[t] /\ f \in {"cb", "arg"}
            BY <3>6, <5>1
          <5> QED
            BY <2>1, <2>2, <5>2
        <4>2. /\ f = "cb" => cb' = call[t].val
              /\ f = "arg" => arg' = call[t].val
          OBVIOUS
        <4> QED
          BY <2>1, <3>1, <3>2, <3>5, <3>6, <4>1, <4>2
      <3>7. CASE todo[t] = {f}
        <4>1. BetweenStores(t)
          BY <2>1, <2>2, <3>1, <3>7
        <4>2. cb' = call[t].val /\ arg' = call[t].val
          BY <3>1, <3>7, <4>1
        <4>3. ~BetweenStores(t)'
          BY <3>7
        <4> QED
          BY <3>2, <3>5, <4>2, <4>3
      <3> QED
        BY <3>4, <3>6, <3>7
    <2>3. CASE call[t].op # "callback_register"
      <3>1. cb' = cb /\ arg' = arg
        BY <2>1, <2>3, StoresOf
      <3>2. \A s \in Threads : BetweenStores(s)' <=> BetweenStores(s)
        BY <2>3
      <3>3. \A s \in Threads : BetweenStores(s) => todo'[s] = todo[s]
        BY <2>3
      <3>4. ASSUME NEW s \in Threads, pc'[s] = "copy" PROVE config' # NULL
        <4>1. f # "config"
          BY <1>0, <2>1, <3>4, StoresOf DEF FieldOps, Active
        <4> QED
          BY <3>4, <4>1
      <3> QED
        BY <3>1, <3>2, <3>3, <3>4
    <2> QED
      BY <2>2, <2>3
  <1>5. ASSUME NEW t \in Threads, ~BetweenStores(t), ~BetweenStores(t)',
               UNCHANGED <<config, cb, arg>>,
               \A s \in Threads \ {t} : /\ call'[s] = call[s] /\ pc'[s] = pc[s]
                                      /\ todo'[s] = todo[s],
               pc'[t] = "copy" => call'[t].op = "config_get" /\ config # NULL
        PROVE FieldInv'
    <2>1. \A s \in Threads : BetweenStores(s)' <=> BetweenStores(s)
      BY <1>5
    <2> QED
      BY <1>5, <2>1
  <1>6. ASSUME NEW t \in Threads,
               \/ ConfigTest(t) \/ ConfigCopy(t) \/ HalRefuses(t)
               \/ ProviderEntered(t) \/ ProviderReturns(t) \/ Return(t)
        PROVE FieldInv'
    <2>1. /\ ~BetweenStores(t) /\ ~BetweenStores(t)'
          /\ pc'[t] = "copy" => call'[t].op = "config_get" /\ config # NULL
      BY <1>6
      DEF ConfigTest, ConfigCopy, HalRefuses, ProviderEntered, ProviderReturns,
          Return, Returned, InHal
    <2>2. UNCHANGED <<config, cb, arg>>
      BY <1>6
      DEF ConfigTest, ConfigCopy, HalRefuses, ProviderEntered, ProviderReturns,
          Return, fields
    <2>3. \A s \in Threads \ {t} : /\ call'[s] = call[s] /\ pc'[s] = pc[s]
                                  /\ todo'[s] = todo[s]
      BY <1>6
      DEF ConfigTest, ConfigCopy, HalRefuses, ProviderEntered, ProviderReturns,
          Return, Returned
    <2> QED
      BY <1>5, <2>1, <2>2, <2>3
  <1>7. ASSUME NEW t \in Threads, CallbackReenters(t) \/ InnerTimesOut(t)
        PROVE FieldInv'
    BY <1>7 DEF CallbackReenters, InnerTimesOut, fields
  <1>8. CASE HandleInterrupt
    BY <1>8 DEF HandleInterrupt, fields
  <1>9. CASE UNCHANGED vars
    BY <1>9 DEF vars, fields
  <1> QED
    BY <1>1, <1>2, <1>3, <1>4, <1>6, <1>7, <1>8, <1>9 DEF Next, Step

LEMMA FieldInitial == Init => FieldInv
  BY DEF Init, FieldInv, CallbackPaired, BetweenStores

\* If clients lock the three wrappers that touch config and the callback
\* fields, no config_get copies from a pointer another thread has cleared, and
\* no callback is left with another registration's argument, however the calls
\* of any number of threads interleave and whatever else runs without the lock.
THEOREM FieldsNeedOnlyTheirLock ==
  ASSUME FieldsLocked
  PROVE  Spec => [](NoNullDereference /\ CallbackPaired)
<1>1. Init => TypeOK /\ TableInv /\ LockInv /\ FieldInv
  BY TypeInitial, TableInitial, LockInitial, FieldInitial
<1>2. TypeOK /\ TableInv /\ LockInv /\ FieldInv /\ [Next]_vars
      => TypeOK' /\ TableInv' /\ LockInv' /\ FieldInv'
  BY TypeInductive, TableInductive, LockInductive, FieldInductive
<1>3. FieldInv => NoNullDereference /\ CallbackPaired
  BY DEF FieldInv, NoNullDereference
<1> QED
  BY <1>1, <1>2, <1>3, PTL DEF Spec

\* In particular config_get's second load never finds NULL, if config_set and
\* config_get are called under the lock.
THEOREM NeverNullDereference ==
  ASSUME FieldsLocked
  PROVE  Spec => []NoNullDereference
<1>1. Spec => [](NoNullDereference /\ CallbackPaired)
  BY FieldsNeedOnlyTheirLock
<1> QED
  BY <1>1, PTL

-----------------------------------------------------------------------------
(* The configuration.                                                      *)

Pending(t) ==
  /\ call[t].op = "config_set"
  /\ pc[t] \in {"wrapper", "provider"}
  /\ "config" \notin todo[t]

\* A config_set on its way to its result has config to itself.
AgreeInv ==
  /\ \A t \in Threads : Pending(t) => config = call[t].val
  /\ status = "INITIALIZED" /\ ~refused /\ (\A t \in Threads : ~Pending(t))
       => config = applied

LEMMA AgreeInductive ==
  ASSUME {"init", "config_set"} \subseteq LockedOps
  PROVE  TypeOK /\ TableInv /\ LockInv /\ AgreeInv /\ [Next]_vars => AgreeInv'
  <1> SUFFICES ASSUME TypeOK, TableInv, LockInv, AgreeInv, [Next]_vars
               PROVE AgreeInv'
    OBVIOUS
  <1>0. \A s, t \in Threads :
          /\ call[s].op \in {"init", "config_set"} /\ Active(s)
          /\ call[t].op \in {"init", "config_set"} /\ Active(t)
          => s = t
    BY DEF LockInv, LockHeldInside
  <1> USE DEF TypeOK, AgreeInv, Pending, Goto
  <1>1. ASSUME NEW t \in {NULL} \cup Tables, NEW c \in ConfigValues,
               NEW r \in RegValues, Populate(t, c, r)
        PROVE AgreeInv'
    BY <1>1 DEF Populate, TableInv
  <1>2. ASSUME NEW t \in Threads, ~Pending(t), ~Pending(t)',
               UNCHANGED <<status, config, applied, refused>>,
               \A s \in Threads \ {t} : /\ call'[s] = call[s] /\ pc'[s] = pc[s]
                                      /\ todo'[s] = todo[s]
        PROVE AgreeInv'
    <2>1. \A s \in Threads : Pending(s)' <=> Pending(s)
      BY <1>2
    <2> QED
      BY <1>2, <2>1
  <1>3. ASSUME NEW t \in Threads, NEW op \in Ops, NEW v \in Arguments(op),
               Begin(t, op, v)
        PROVE AgreeInv'
    <2>1. ~Pending(t) /\ ~Pending(t)'
      BY <1>3, StoresOf DEF Begin
    <2> QED
      BY <1>2, <1>3, <2>1 DEF Begin, fields, history
  <1>4. ASSUME NEW t \in Threads,
               \/ Acquire(t) \/ TimesOut(t) \/ ConfigTest(t) \/ ConfigCopy(t)
               \/ Return(t)
        PROVE AgreeInv'
    <2>1. ~Pending(t) /\ ~Pending(t)'
      BY <1>4, StoresOf
      DEF Acquire, TimesOut, ConfigTest, ConfigCopy, Return, TableInv, NoCall
    <2>2. UNCHANGED <<status, config, applied, refused>>
      BY <1>4
      DEF Acquire, TimesOut, ConfigTest, ConfigCopy, Return, fields, history
    <2>3. \A s \in Threads \ {t} : /\ call'[s] = call[s] /\ pc'[s] = pc[s]
                                  /\ todo'[s] = todo[s]
      BY <1>4 DEF Acquire, TimesOut, ConfigTest, ConfigCopy, Return
    <2> QED
      BY <1>2, <2>1, <2>2, <2>3
  <1>5. ASSUME NEW t \in Threads, NEW f \in todo[t], StoreField(t, f)
        PROVE AgreeInv'
    <2> USE <1>5 DEF StoreField
    <2>1. pc[t] = "wrapper" /\ todo[t] \subseteq Stores(call[t].op)
      OBVIOUS
    <2>2. f = "config" <=> call[t].op = "config_set"
      BY <2>1, StoresOf DEF Stores
    <2>3. CASE f = "config"
      <3>1. \A s \in Threads : Pending(s) => s = t
        BY <1>0, <2>1, <2>2, <2>3 DEF Active
      <3>2. Pending(t)' /\ \A s \in Threads : Pending(s)' => s = t
        BY <2>1, <2>2, <2>3, <3>1
      <3> QED
        BY <2>3, <3>2
    <2>4. CASE f # "config"
      <3>1. ~Pending(t) /\ ~Pending(t)'
        BY <2>2, <2>4
      <3> QED
        BY <1>2, <2>4, <3>1 DEF history
    <2> QED
      BY <2>3, <2>4
  <1>6. ASSUME NEW t \in Threads, ProviderEntered(t) PROVE AgreeInv'
    <2>1. \A s \in Threads : Pending(s)' <=> Pending(s)
      BY <1>6 DEF ProviderEntered, InHal
    <2> QED
      BY <1>6, <2>1 DEF ProviderEntered, fields, history
  <1>7. ASSUME NEW t \in Threads, NEW o, Returned(t, o), todo[t] = {},
               pc[t] \in {"wrapper", "provider"},
               UNCHANGED <<config, call, todo>>
        PROVE AgreeInv'
    <2> USE <1>7 DEF Returned
    <2>1. ~Pending(t)' /\ (Pending(t) <=> call[t].op = "config_set")
      OBVIOUS
    <2>2. \A s \in Threads \ {t} : Pending(s)' <=> Pending(s)
      OBVIOUS
    <2>3. \A s \in Threads : Pending(s)' => config' = call'[s].val
      BY <2>1, <2>2
    <2>4. CASE call[t].op = "config_set"
      <3>1. config = call[t].val
        BY <2>1, <2>4
      <3>2. refused' <=> o.result # "OK"
        BY <2>4 DEF Effects
      <3>3. o.result = "OK" => applied' = call[t].val
        BY <2>4 DEF Effects
      <3> QED
        BY <2>3, <3>1, <3>2, <3>3
    <2>5. CASE call[t].op = "init"
      <3>1. \A s \in Threads : ~Pending(s)
        BY <1>0, <2>5 DEF Active
      <3>2. o.result = "OK" => applied' = config
        BY <2>5 DEF Effects
      <3>3. o.result # "OK" => UNCHANGED <<status, applied, refused>>
        BY <2>5 DEF Effects
      <3> QED
        BY <2>3, <3>1, <3>2, <3>3
    <2>6. CASE call[t].op \notin {"init", "config_set"}
      <3>1. /\ UNCHANGED <<applied, refused>>
            /\ status' \in {status, "CONSTRUCTED"}
        BY <2>6 DEF Effects
      <3>2. (\A s \in Threads : ~Pending(s)')
            => \A s \in Threads : ~Pending(s)
        BY <2>1, <2>2, <2>6
      <3> QED
        BY <2>3, <3>1, <3>2
    <2> QED
      BY <2>4, <2>5, <2>6
  <1>8. ASSUME NEW t \in Threads, HalRefuses(t) \/ ProviderReturns(t)
        PROVE AgreeInv'
    BY <1>7, <1>8 DEF HalRefuses, ProviderReturns, InHal
  <1>9. CASE \/ HandleInterrupt
             \/ \E t \in Threads : CallbackReenters(t) \/ InnerTimesOut(t)
    BY <1>9
    DEF HandleInterrupt, CallbackReenters, InnerTimesOut, fields, history
  <1>10. CASE UNCHANGED vars
    BY <1>10 DEF vars, fields, history
  <1> QED
    BY <1>1, <1>3, <1>4, <1>5, <1>6, <1>8, <1>9, <1>10 DEF Next, Step

LEMMA AgreeInitial == Init => AgreeInv
  BY DEF Init, AgreeInv, Pending

\* Locking init and config_set is enough for config_get to agree with the
\* HAL: the store of the pointer and the HAL's verdict on it cannot be pulled
\* apart by another thread's.
THEOREM ConfigAgreesUnderLock ==
  ASSUME {"init", "config_set"} \subseteq LockedOps
  PROVE  Spec => []ConfigAgrees
<1>1. Init => TypeOK /\ TableInv /\ LockInv /\ AgreeInv
  BY TypeInitial, TableInitial, LockInitial, AgreeInitial
<1>2. TypeOK /\ TableInv /\ LockInv /\ AgreeInv /\ [Next]_vars
      => TypeOK' /\ TableInv' /\ LockInv' /\ AgreeInv'
  BY TypeInductive, TableInductive, LockInductive, AgreeInductive
<1>3. TypeOK /\ LockInv /\ AgreeInv => ConfigAgrees
  BY ThreadsAssumption
  DEF TypeOK, LockInv, LockHeldInside, AgreeInv, ConfigAgrees, Pending, Active
<1> QED
  BY <1>1, <1>2, <1>3, PTL DEF Spec
=============================================================================
