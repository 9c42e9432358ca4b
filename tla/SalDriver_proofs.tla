--------------------------- MODULE SalDriver_proofs ---------------------------
(***************************************************************************)
(* Theorems about SalDriver, for any set of drivers, services, tables and  *)
(* configurations, and whatever the HAL and the providers answer.          *)
(***************************************************************************)
EXTENDS SalDriver, TLAPS

-----------------------------------------------------------------------------
(* What the HAL's entry points may answer.                                 *)

\* A provider function is only reached behind a tag that matches, in the
\* table the entry point was given.
LEMMA CheckAndCallHit ==
  ASSUME NEW s, NEW d, NEW slot, NEW o \in CheckAndCall(s, d, slot),
         o.hit # NULL
  PROVE  /\ type[d] = Fourcc[s]
         /\ api[d] # NULL
         /\ o.hit = Hit(api[d], slot)
  BY DEF CheckAndCall, TypeChecked, Provider, Has, Out, Hit

LEMMA BaseCallHit ==
  ASSUME NEW s, NEW d, NEW v, NEW slot, NEW o \in BaseCall(s, d, v, slot),
         o.hit # NULL
  PROVE  /\ type[d] = Fourcc[s]
         /\ v # NULL
         /\ o.hit = Hit(v, slot)
  BY DEF BaseCall, TypeChecked, Provider, Has, Out, Hit

\* A base call that is not refused passed the tag check.
LEMMA BaseCallOk ==
  ASSUME NEW s, NEW d, NEW v, NEW slot, NEW o \in BaseCall(s, d, v, slot),
         o.result = "OK"
  PROVE  type[d] = Fourcc[s]
  BY DEF BaseCall, TypeChecked, Out

-----------------------------------------------------------------------------
(* Type correctness.                                                       *)

\* Every variable keeps its type under every wrapper.
THEOREM TypeCorrect == Spec => []TypeOK
<1>1. Init => TypeOK
  BY DEF Init, TypeOK, Untyped, Statuses, AnyTable, AnyConfig, AnyRegistration
<1>2. TypeOK /\ [Next]_vars => TypeOK'
  <2> SUFFICES ASSUME TypeOK, [Next]_vars PROVE TypeOK'
    OBVIOUS
  <2> USE DEF TypeOK, Statuses, AnyTable, AnyConfig, AnyRegistration
  <2>1. ASSUME NEW s \in Services, NullDriver(s) PROVE TypeOK'
    BY <2>1 DEF NullDriver
  <2>2. ASSUME NEW d \in Drivers, NEW t \in TablesOf(class[d]),
               NEW c \in ConfigsOf(class[d]),
               NEW r \in RegistrationsOf(class[d]), Populate(d, t, c, r)
        PROVE TypeOK'
    BY <2>2, CatalogAssumption
    DEF Populate, TablesOf, ConfigsOf, RegistrationsOf
  <2>3. ASSUME NEW s \in Services, NEW d \in Drivers, InitDriver(s, d)
        PROVE TypeOK'
    BY <2>3 DEF InitDriver
  <2>4. ASSUME NEW s \in Services, NEW d \in Drivers, Deinit(s, d)
        PROVE TypeOK'
    BY <2>4 DEF Deinit
  <2>5. ASSUME NEW s \in Services, NEW d \in Drivers, NEW c \in ConfigsOf(s),
               ConfigSet(s, d, c)
        PROVE TypeOK'
    BY <2>5 DEF ConfigSet, ConfigsOf
  <2>6. ASSUME NEW s \in Services, NEW d \in Drivers, ConfigGet(s, d)
        PROVE TypeOK'
    BY <2>6 DEF ConfigGet
  <2>7. ASSUME NEW s \in Services, NEW d \in Drivers,
               NEW r \in RegistrationsOf(s), CallbackRegister(s, d, r)
        PROVE TypeOK'
    BY <2>7 DEF CallbackRegister, RegistrationsOf
  <2>8. ASSUME NEW s \in Services, NEW d \in Drivers, NEW op,
               Forward(op, s, d) \/ Call(op, s, d)
        PROVE TypeOK'
    BY <2>8 DEF Forward, Call
  <2>9. ASSUME NEW s \in Services, NEW d \in Drivers, HandleInterrupt(s, d)
        PROVE TypeOK'
    BY <2>9 DEF HandleInterrupt
  <2>10. CASE UNCHANGED vars
    BY <2>10 DEF vars
  <2> QED
    BY <2>1, <2>2, <2>3, <2>4, <2>5, <2>6, <2>7, <2>8, <2>9, <2>10 DEF Next
<1> QED
  BY <1>1, <1>2, PTL DEF Spec

-----------------------------------------------------------------------------
(* One provider per driver.                                                *)

\* The table of the lifecycle calls and the table of the service calls are
\* never two different ones, and on an initialised driver they coincide.
THEOREM OneProviderAlways == Spec => []OneProvider
<1>1. Init => OneProvider
  BY DEF Init, OneProvider
<1>2. TypeOK /\ OneProvider /\ [Next]_vars => OneProvider'
  <2> SUFFICES ASSUME TypeOK, OneProvider, [Next]_vars PROVE OneProvider'
    OBVIOUS
  <2> USE DEF TypeOK, OneProvider
  <2>1. ASSUME NEW e \in Drivers, NEW t \in TablesOf(class[e]),
               NEW c, NEW r, Populate(e, t, c, r)
        PROVE OneProvider'
    BY <2>1 DEF Populate
  <2>2. ASSUME NEW s \in Services, NEW e \in Drivers, InitDriver(s, e)
        PROVE OneProvider'
    BY <2>2 DEF InitDriver
  <2>3. ASSUME NEW s \in Services, NEW e \in Drivers, Deinit(s, e)
        PROVE OneProvider'
    BY <2>3 DEF Deinit
  <2>4. CASE UNCHANGED <<status, vmt, api>>
    BY <2>4
  <2> QED
    BY <2>1, <2>2, <2>3, <2>4
    DEF Next, vars, NullDriver, ConfigSet, ConfigGet, CallbackRegister,
        Forward, Call, HandleInterrupt
<1> QED
  BY <1>1, <1>2, TypeCorrect, PTL DEF Spec

-----------------------------------------------------------------------------
(* The configuration the struct holds and the one the HAL accepted.        *)

\* On an initialised driver the two differ only after a refused config_set.
THEOREM ConfigAgreesAlways == Spec => []ConfigAgrees
<1>1. Init => ConfigAgrees
  BY DEF Init, ConfigAgrees
<1>2. TypeOK /\ ConfigAgrees /\ [Next]_vars => ConfigAgrees'
  <2> SUFFICES ASSUME TypeOK, ConfigAgrees, [Next]_vars PROVE ConfigAgrees'
    OBVIOUS
  <2> USE DEF TypeOK, ConfigAgrees
  <2>1. ASSUME NEW e \in Drivers, NEW t, NEW c, NEW r, Populate(e, t, c, r)
        PROVE ConfigAgrees'
    BY <2>1 DEF Populate
  <2>2. ASSUME NEW s \in Services, NEW e \in Drivers, InitDriver(s, e)
        PROVE ConfigAgrees'
    BY <2>2 DEF InitDriver
  <2>3. ASSUME NEW s \in Services, NEW e \in Drivers, Deinit(s, e)
        PROVE ConfigAgrees'
    BY <2>3 DEF Deinit
  <2>4. ASSUME NEW s \in Services, NEW e \in Drivers, NEW c,
               ConfigSet(s, e, c)
        PROVE ConfigAgrees'
    BY <2>4 DEF ConfigSet
  <2>5. CASE UNCHANGED <<status, config, applied, refused>>
    BY <2>5
  <2> QED
    BY <2>1, <2>2, <2>3, <2>4, <2>5
    DEF Next, vars, NullDriver, ConfigGet, CallbackRegister, Forward, Call,
        HandleInterrupt
<1> QED
  BY <1>1, <1>2, TypeCorrect, PTL DEF Spec

-----------------------------------------------------------------------------
(* Type safety of the dispatch.                                            *)

\* A driver's tag is its own service's as soon as it has one, and its tables
\* are its own service's: what the FourCC check tells the wrapper is true.
Tagged ==
  \A d \in Drivers :
    /\ IF status[d] = "ZEROED" THEN type[d] = Untyped
                               ELSE type[d] = Fourcc[class[d]]
    /\ api[d] \in TablesOf(class[d])
    /\ vmt[d] \in TablesOf(class[d])

\* The latest call reached a function of the right service.
RightHit ==
  last.hit # NULL =>
    /\ last.on \in Drivers
    /\ last.hit.class = last.via
    /\ last.hit.class = class[last.on]
    /\ status[last.on] # "ZEROED"

DispatchInv == TypeOK /\ Tagged /\ RightHit

LEMMA TaggedMatch ==
  ASSUME TagsDistinct, TypeOK, Tagged, NEW d \in Drivers, NEW s \in Services,
         type[d] = Fourcc[s]
  PROVE  s = class[d] /\ status[d] # "ZEROED"
  BY DEF TagsDistinct, TypeOK, Tagged, Untyped

\* A hit in one of the driver's own tables, behind a matching tag, is right.
LEMMA HitIsRight ==
  ASSUME TagsDistinct, TypeOK, Tagged, NEW d \in Drivers, NEW s \in Services,
         NEW v \in TablesOf(class[d]), v # NULL, NEW slot, NEW hit,
         type[d] = Fourcc[s], hit = Hit(v, slot)
  PROVE  hit.class = s /\ hit.class = class[d] /\ status[d] # "ZEROED"
  BY TaggedMatch DEF TablesOf, Hit

LEMMA TaggedInductive == TagsDistinct /\ TypeOK /\ Tagged /\ [Next]_vars => Tagged'
  <1> SUFFICES ASSUME TagsDistinct, TypeOK, Tagged, [Next]_vars PROVE Tagged'
    OBVIOUS
  <1> USE DEF Tagged, TypeOK
  <1>1. ASSUME NEW e \in Drivers, NEW t \in TablesOf(class[e]),
               NEW c, NEW r, Populate(e, t, c, r)
        PROVE Tagged'
    BY <1>1 DEF Populate, TablesOf
  <1>2. ASSUME NEW s \in Services, NEW e \in Drivers, InitDriver(s, e)
        PROVE Tagged'
    <2>1. CASE status' = status
      BY <1>2, <2>1 DEF InitDriver, TablesOf
    <2>2. CASE status' = [status EXCEPT ![e] = "INITIALIZED"]
               /\ type[e] = Fourcc[s]
      BY <1>2, <2>2, TaggedMatch DEF InitDriver, TablesOf
    <2> QED
      BY <1>2, <2>1, <2>2, BaseCallOk DEF InitDriver
  <1>3. ASSUME NEW s \in Services, NEW e \in Drivers, Deinit(s, e)
        PROVE Tagged'
    <2>1. CASE status' = status
      BY <1>3, <2>1 DEF Deinit, TablesOf
    <2>2. CASE status' = [status EXCEPT ![e] = "CONSTRUCTED"]
               /\ type[e] = Fourcc[s]
      BY <1>3, <2>2, TaggedMatch DEF Deinit, TablesOf
    <2> QED
      BY <1>3, <2>1, <2>2, BaseCallOk DEF Deinit
  <1>4. CASE UNCHANGED <<class, type, status, vmt, api>>
    BY <1>4 DEF TablesOf
  <1> QED
    BY <1>1, <1>2, <1>3, <1>4
    DEF Next, vars, NullDriver, ConfigSet, ConfigGet, CallbackRegister,
        Forward, Call, HandleInterrupt

LEMMA DispatchInductive ==
  TagsDistinct /\ DispatchInv /\ TypeOK' /\ [Next]_vars => DispatchInv'
  <1> SUFFICES ASSUME TagsDistinct, DispatchInv, TypeOK', [Next]_vars
               PROVE  DispatchInv'
    OBVIOUS
  <1> USE DEF DispatchInv
  <1>1. Tagged'
    BY TaggedInductive
  <1>2. ASSUME NEW s \in Services, NullDriver(s) PROVE RightHit'
    BY <1>2 DEF NullDriver, Record, Out, RightHit
  <1>3. ASSUME NEW e \in Drivers, NEW t, NEW c, NEW r, Populate(e, t, c, r)
        PROVE RightHit'
    BY <1>3 DEF Populate, Record, Out, RightHit
  <1>4. ASSUME NEW s \in Services, NEW e \in Drivers, NEW op,
               NEW v \in TablesOf(class[e]), NEW slot,
               NEW o \in BaseCall(s, e, v, slot), NEW value,
               Record(op, s, e, o, value),
               UNCHANGED <<class, type>>
        PROVE RightHit'
    <2> SUFFICES ASSUME o.hit # NULL
                 PROVE  o.hit.class = s /\ o.hit.class = class[e]
                          /\ status'[e] # "ZEROED"
      BY <1>4 DEF Record, RightHit
    <2>1. type[e] = Fourcc[s] /\ v # NULL /\ o.hit = Hit(v, slot)
      BY BaseCallHit
    <2>2. o.hit.class = s /\ o.hit.class = class[e] /\ status[e] # "ZEROED"
      BY <2>1, HitIsRight
    <2>3. type'[e] # Untyped
      BY <1>4, <2>1 DEF TagsDistinct, Untyped
    <2> QED
      BY <1>1, <2>2, <2>3 DEF Tagged
  <1>5. ASSUME NEW s \in Services, NEW e \in Drivers, InitDriver(s, e)
        PROVE RightHit'
    BY <1>4, <1>5 DEF InitDriver, Tagged
  <1>6. ASSUME NEW s \in Services, NEW e \in Drivers, Deinit(s, e)
        PROVE RightHit'
    BY <1>4, <1>6 DEF Deinit, Tagged
  <1>7. ASSUME NEW s \in Services, NEW e \in Drivers, NEW c,
               ConfigSet(s, e, c)
        PROVE RightHit'
    BY <1>4, <1>7 DEF ConfigSet, Tagged
  <1>8. ASSUME NEW s \in Services, NEW e \in Drivers, ConfigGet(s, e)
        PROVE RightHit'
    BY <1>8 DEF ConfigGet, Record, Out, RightHit
  <1>9. ASSUME NEW s \in Services, NEW e \in Drivers, NEW r,
               CallbackRegister(s, e, r)
        PROVE RightHit'
    BY <1>4, <1>9 DEF CallbackRegister, Tagged
  <1>10. ASSUME NEW s \in Services, NEW e \in Drivers, NEW op,
                Forward(op, s, e)
         PROVE RightHit'
    BY <1>4, <1>10 DEF Forward, Tagged
  <1>11. ASSUME NEW s \in Services, NEW e \in Drivers, NEW op, Call(op, s, e)
         PROVE RightHit'
    <2> PICK o \in CheckAndCall(s, e, Calls[s][op]) : Record(op, s, e, o, NULL)
      BY <1>11 DEF Call
    <2> SUFFICES ASSUME o.hit # NULL
                 PROVE  o.hit.class = s /\ o.hit.class = class[e]
                          /\ status[e] # "ZEROED"
      BY <1>11 DEF Call, Record, RightHit
    <2> QED
      BY CheckAndCallHit, HitIsRight DEF Tagged
  <1>12. ASSUME NEW s \in Services, NEW e \in Drivers, HandleInterrupt(s, e)
         PROVE RightHit'
    <2>1. CASE type[e] = Fourcc[s] /\ Has(api[e], "handle_interrupt")
      <3>1. /\ api[e] \in TablesOf(class[e])
            /\ api[e] # NULL
        BY <2>1 DEF Has, Tagged
      <3>2. LET hit == Hit(api[e], "handle_interrupt")
            IN  hit.class = s /\ hit.class = class[e] /\ status[e] # "ZEROED"
        BY <2>1, <3>1, HitIsRight
      <3> QED
        BY <1>12, <2>1, <3>2 DEF HandleInterrupt, Record, Out, RightHit
    <2>2. CASE ~(type[e] = Fourcc[s] /\ Has(api[e], "handle_interrupt"))
      BY <1>12, <2>2 DEF HandleInterrupt, Record, Out, RightHit
    <2> QED
      BY <2>1, <2>2
  <1>13. ASSUME UNCHANGED vars PROVE RightHit'
    BY <1>13 DEF vars, RightHit
  <1>14. RightHit'
    BY <1>2, <1>3, <1>5, <1>6, <1>7, <1>8, <1>9, <1>10, <1>11, <1>12, <1>13
    DEF Next
  <1> QED
    BY <1>1, <1>14 DEF DispatchInv

\* With tags that are all different and none of them zero, no call ever runs a
\* provider function of another service than the one it was written for.
THEOREM DispatchIsTypeSafe ==
  ASSUME TagsDistinct
  PROVE  Spec => []DispatchTypeSafe
<1>1. Init => TypeOK /\ DispatchInv
  <2> SUFFICES ASSUME Init PROVE TypeOK /\ DispatchInv
    OBVIOUS
  <2>1. TypeOK
    BY DEF Init, TypeOK, Untyped, Statuses, AnyTable, AnyConfig,
           AnyRegistration
  <2>2. Tagged
    BY DEF Init, Tagged, TablesOf
  <2>3. RightHit
    BY DEF Init, RightHit
  <2> QED
    BY <2>1, <2>2, <2>3 DEF DispatchInv
<1>2. TagsDistinct /\ DispatchInv /\ TypeOK' /\ [Next]_vars => DispatchInv'
  BY DispatchInductive
<1>3. DispatchInv => DispatchTypeSafe
  BY DEF DispatchInv, RightHit, DispatchTypeSafe
<1> QED
  BY <1>1, <1>2, <1>3, TypeCorrect, PTL DEF Spec

-----------------------------------------------------------------------------
(* Foreign calls.                                                          *)

\* config_set and callback_register write before the tag is looked at; these
\* results leave them out of the wrappers that may be called on a driver of
\* another service.
WritersAreOwn ==
  "config_set" \notin ForeignOps /\ "callback_register" \notin ForeignOps

\* A foreign call is then refused without a trace: it runs no provider and
\* changes no field, but that init may bind vmt to the driver's own api.
THEOREM ForeignCallsAreInert ==
  ASSUME TagsDistinct, WritersAreOwn, NULL \notin Drivers
  PROVE  Spec => ForeignCallInert
<1> DEFINE Inert ==
      \A d \in Drivers :
        last'.on = d /\ last'.via # class[d] =>
          /\ last'.hit = NULL
          /\ type'[d] = type[d] /\ status'[d] = status[d] /\ api'[d] = api[d]
          /\ config'[d] = config[d] /\ reg'[d] = reg[d]
          /\ vmt'[d] \in {vmt[d], api[d]}
<1>1. TypeOK /\ Tagged /\ [Next]_vars => [Inert]_vars
  <2> SUFFICES ASSUME TypeOK, Tagged, Next,
                      NEW d \in Drivers, last'.on = d, last'.via # class[d]
               PROVE  /\ last'.hit = NULL
                      /\ UNCHANGED <<type, status, api, config, reg>>
                      /\ vmt'[d] \in {vmt[d], api[d]}
    OBVIOUS
  <2> DEFINE Goal == /\ last'.hit = NULL
                     /\ UNCHANGED <<type, status, api, config, reg>>
                     /\ vmt'[d] \in {vmt[d], api[d]}
  <2> USE DEF TypeOK
  <2>0. \A s \in Services : s # class[d] => type[d] # Fourcc[s]
    BY TaggedMatch
  <2>1. ASSUME NEW s \in Services, NullDriver(s) PROVE Goal
    BY <2>1 DEF NullDriver, Record
  <2>2. ASSUME NEW e \in Drivers, NEW t, NEW c, NEW r, Populate(e, t, c, r)
        PROVE Goal
    BY <2>2 DEF Populate, Record
  <2>3. ASSUME NEW s \in Services, NEW e \in Drivers, InitDriver(s, e)
        PROVE Goal
    BY <2>3, <2>0, BaseCallOk, BaseCallHit DEF InitDriver, Record
  <2>4. ASSUME NEW s \in Services, NEW e \in Drivers, Deinit(s, e)
        PROVE Goal
    BY <2>4, <2>0, BaseCallOk, BaseCallHit DEF Deinit, Record
  <2>5. ASSUME NEW s \in Services, NEW e \in Drivers, NEW c,
               ConfigSet(s, e, c)
        PROVE Goal
    BY <2>5 DEF ConfigSet, May, Record, WritersAreOwn
  <2>6. ASSUME NEW s \in Services, NEW e \in Drivers, ConfigGet(s, e)
        PROVE Goal
    BY <2>6 DEF ConfigGet, Record, Out
  <2>7. ASSUME NEW s \in Services, NEW e \in Drivers, NEW r,
               CallbackRegister(s, e, r)
        PROVE Goal
    BY <2>7 DEF CallbackRegister, May, Record, WritersAreOwn
  <2>8. ASSUME NEW s \in Services, NEW e \in Drivers, NEW op,
               Forward(op, s, e)
        PROVE Goal
    BY <2>8, <2>0, BaseCallHit DEF Forward, Record
  <2>9. ASSUME NEW s \in Services, NEW e \in Drivers, NEW op, Call(op, s, e)
        PROVE Goal
    BY <2>9, <2>0, CheckAndCallHit DEF Call, Record
  <2>10. ASSUME NEW s \in Services, NEW e \in Drivers, HandleInterrupt(s, e)
         PROVE Goal
    BY <2>10, <2>0 DEF HandleInterrupt, Record, Out
  <2> QED
    BY <2>1, <2>2, <2>3, <2>4, <2>5, <2>6, <2>7, <2>8, <2>9, <2>10 DEF Next
<1>2. Init => Tagged
  BY DEF Init, Tagged, TablesOf
<1>3. TypeOK /\ Tagged /\ [Next]_vars => Tagged'
  BY TaggedInductive
<1> QED
  BY <1>1, <1>2, <1>3, TypeCorrect, PTL DEF Spec, ForeignCallInert

-----------------------------------------------------------------------------
(* The names of the slots.                                                 *)

\* The wrappers that reach a provider by a slot of their own name.
ByName ==
  {"init", "deinit", "config_set", "callback_register", "handle_interrupt"}
    \cup BaseOps

Wrappers(s) == ByName \cup DOMAIN Calls[s]

\* The slot a wrapper is written for.
SlotFor(s, op) == IF op \in DOMAIN Calls[s] THEN Calls[s][op] ELSE op

\* In every header each slot is named by one wrapper.
SlotsDistinct ==
  \A s \in Services :
    /\ \A v, w \in Wrappers(s) : SlotFor(s, v) = SlotFor(s, w) => v = w
    /\ DOMAIN Calls[s] \cap ByName = {}

\* The latest call that reached a provider reached the slot of its wrapper.
OwnSlot ==
  last.hit # NULL =>
    /\ last.via \in Services
    /\ last.op \in Wrappers(last.via)
    /\ last.hit.slot = SlotFor(last.via, last.op)

LEMMA OwnSlotNext ==
  ASSUME SlotsDistinct, Next PROVE OwnSlot'
  <1>1. ASSUME NEW s \in Services, NEW d, NEW v, NEW op,
               op \in Wrappers(s), op \notin DOMAIN Calls[s],
               NEW o \in BaseCall(s, d, v, op), NEW value,
               Record(op, s, d, o, value)
        PROVE OwnSlot'
    <2>1. last'.hit = o.hit /\ last'.via = s /\ last'.op = op
      BY <1>1 DEF Record
    <2>2. ASSUME o.hit # NULL PROVE o.hit = Hit(v, op)
      BY <2>2, BaseCallHit
    <2>3. o.hit # NULL => o.hit.slot = SlotFor(s, op)
      BY <1>1, <2>2 DEF Hit, SlotFor
    <2> QED
      BY <1>1, <2>1, <2>3 DEF OwnSlot
  <1>2. ASSUME NEW s \in Services
        PROVE  \A op \in ByName : op \in Wrappers(s) /\ op \notin DOMAIN Calls[s]
    BY <1>2 DEF SlotsDistinct, Wrappers
  <1>3. ASSUME NEW s \in Services, NullDriver(s) PROVE OwnSlot'
    BY <1>3 DEF NullDriver, Record, Out, OwnSlot
  <1>4. ASSUME NEW d \in Drivers, NEW t, NEW c, NEW r, Populate(d, t, c, r)
        PROVE OwnSlot'
    BY <1>4 DEF Populate, Record, Out, OwnSlot
  <1>5. ASSUME NEW s \in Services, NEW d \in Drivers,
               InitDriver(s, d) \/ Deinit(s, d)
        PROVE OwnSlot'
    BY <1>1, <1>2, <1>5 DEF InitDriver, Deinit, ByName
  <1>6. ASSUME NEW s \in Services, NEW d \in Drivers, NEW c,
               ConfigSet(s, d, c) \/ CallbackRegister(s, d, c)
        PROVE OwnSlot'
    BY <1>1, <1>2, <1>6 DEF ConfigSet, CallbackRegister, ByName
  <1>7. ASSUME NEW s \in Services, NEW d \in Drivers, ConfigGet(s, d)
        PROVE OwnSlot'
    BY <1>7 DEF ConfigGet, Record, Out, OwnSlot
  <1>8. ASSUME NEW s \in Services, NEW d \in Drivers, NEW op \in BaseOps,
               Forward(op, s, d)
        PROVE OwnSlot'
    BY <1>1, <1>2, <1>8 DEF Forward, ByName
  <1>9. ASSUME NEW s \in Services, NEW d \in Drivers,
               NEW op \in DOMAIN Calls[s], Call(op, s, d)
        PROVE OwnSlot'
    <2> PICK o \in CheckAndCall(s, d, Calls[s][op]) : Record(op, s, d, o, NULL)
      BY <1>9 DEF Call
    <2>1. last'.hit = o.hit /\ last'.via = s /\ last'.op = op
      BY DEF Record
    <2>2. ASSUME o.hit # NULL PROVE o.hit = Hit(api[d], Calls[s][op])
      BY <2>2, CheckAndCallHit
    <2>3. o.hit # NULL => o.hit.slot = SlotFor(s, op)
      BY <2>2 DEF Hit, SlotFor
    <2>4. op \in Wrappers(s)
      BY DEF Wrappers
    <2> QED
      BY <2>1, <2>3, <2>4 DEF OwnSlot
  <1>10. ASSUME NEW s \in Services, NEW d \in Drivers, HandleInterrupt(s, d)
         PROVE OwnSlot'
    BY <1>2, <1>10
    DEF HandleInterrupt, Record, Out, Hit, OwnSlot, ByName, SlotFor
  <1> QED
    BY <1>3, <1>4, <1>5, <1>6, <1>7, <1>8, <1>9, <1>10 DEF Next

\* If every header names each slot once, no two wrappers of a service ever run
\* the same provider function, in any number of services.
THEOREM WrappersStayApart ==
  ASSUME SlotsDistinct
  PROVE  Spec => WrappersApart
<1> DEFINE Apart == last.hit # NULL /\ last'.hit = last.hit
                    /\ last'.via = last.via => last'.op = last.op
<1>1. Init => OwnSlot
  BY DEF Init, OwnSlot
<1>2. OwnSlot /\ [Next]_vars => OwnSlot'
  BY OwnSlotNext DEF OwnSlot, vars
<1>3. OwnSlot /\ [Next]_vars => [Apart]_vars
  BY OwnSlotNext DEF OwnSlot, SlotsDistinct
<1> QED
  BY <1>1, <1>2, <1>3, PTL DEF Spec, WrappersApart

-----------------------------------------------------------------------------
(* The headers of this repository.                                         *)

H == INSTANCE SalHeaders_proofs

\* The services are some of the 25, with the tags, the wrappers and the slots
\* their headers spell.
RealHeaders ==
  /\ Services \subseteq H!ServiceNames
  /\ \A s \in Services : /\ Fourcc[s] = H!Catalog[s].tag
                        /\ Calls[s] = H!Catalog[s].calls
  /\ BaseOps = H!Forwarded

LEMMA RealTags == ASSUME RealHeaders PROVE TagsDistinct
  BY H!TagsApart DEF RealHeaders, TagsDistinct

LEMMA RealSlots == ASSUME RealHeaders PROVE SlotsDistinct
  <1>1. ByName = H!LifecycleSlots
    BY DEF RealHeaders, ByName, H!LifecycleSlots
  <1>2. ASSUME NEW s \in Services PROVE H!OneWrapperPerSlot(Calls[s])
    BY H!SlotsApart DEF RealHeaders
  <1> QED
    BY <1>1, <1>2
    DEF H!OneWrapperPerSlot, H!LifecycleWrappers, SlotsDistinct, Wrappers,
        SlotFor

\* With the headers as they are, whichever of the services are used, no
\* sequence of calls on drivers of any services ends in a provider of another
\* service.
THEOREM RealDispatchIsTypeSafe ==
  ASSUME RealHeaders PROVE Spec => []DispatchTypeSafe
  BY RealTags, DispatchIsTypeSafe

\* With the headers as they are, no two wrappers of a service ever run the same
\* provider function.
THEOREM RealWrappersStayApart ==
  ASSUME RealHeaders PROVE Spec => WrappersApart
  BY RealSlots, WrappersStayApart

\* With the headers as they are, a foreign call changes no field but vmt, unless
\* it is one of the two wrappers that write before the HAL looks at the tag.
THEOREM RealForeignCallsAreInert ==
  ASSUME RealHeaders, WritersAreOwn, NULL \notin Drivers
  PROVE  Spec => ForeignCallInert
  BY RealTags, ForeignCallsAreInert
=============================================================================
