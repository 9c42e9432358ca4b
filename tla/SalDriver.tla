------------------------------ MODULE SalDriver ------------------------------
(***************************************************************************)
(* A Caffeine-SAL driver: the struct CFN_SAL_CREATE_DRIVER_TYPE declares,  *)
(* and the inline wrappers every service header generates around it, each  *)
(* one atomic step. Pointers a header types (api table, configuration,     *)
(* callback registration) carry the service they were declared for, so     *)
(* that a pointer of one service inside a driver of another is visible.    *)
(*                                                                         *)
(* The C types do not stop a driver from reaching a wrapper of another     *)
(* service (through void *, dependency or a cast); the FourCC tag is there *)
(* to refuse it at run time. Every wrapper of a service s may therefore be *)
(* called on any driver d; ForeignOps names those that may be called with  *)
(* s different from d's own service.                                       *)
(*                                                                         *)
(* The HAL underneath (cfn_hal_base_*, CFN_HAL_CHECK_AND_CALL_FUNC) and    *)
(* the providers behind the table are not in this repository. Of them only *)
(* what the tests show is assumed: a tag mismatch is refused with          *)
(* BAD_PARAM and changes nothing, an empty slot is NOT_SUPPORTED, and only *)
(* a successful init makes a driver INITIALIZED. Everything else is a      *)
(* nondeterministic choice.                                                *)
(***************************************************************************)
EXTENDS Naturals

CONSTANTS
  Drivers,        \* the driver structs
  Services,       \* the services
  Fourcc,         \* service |-> FourCC tag
  Generic,        \* service |-> its lifecycle wrappers
  Interrupts,     \* services that define handle_interrupt
  Calls,          \* service |-> (service wrapper |-> slot it calls)
  Tables,         \* the api tables providers offer: [class, filled]
  Configs,        \* names of configurations
  Registrations,  \* names of (callback, user_arg) pairs
  BaseOps,        \* lifecycle wrappers that only forward to the HAL
  ForeignOps,     \* wrappers that may be called on another service's driver
  NULL

ASSUME NullAssumption ==
  /\ NULL \notin Tables
  /\ NULL \notin Services \X Configs
  /\ NULL \notin Services \X Registrations

ASSUME CatalogAssumption ==
  /\ Fourcc \in [Services -> Nat]
  /\ \A t \in Tables : t.class \in Services

\* No two services share a tag and none has the tag of a zeroed driver. Not
\* assumed: DispatchTypeSafe rests on it, and the tags are spelled by hand.
TagsDistinct ==
  /\ \A s \in Services : Fourcc[s] # 0
  /\ \A s, t \in Services : Fourcc[s] = Fourcc[t] => s = t

VARIABLES
  class,    \* the service whose struct type the driver was declared with
  type,     \* base.type
  status,   \* base.status
  vmt,      \* base.vmt
  api,      \* api
  config,   \* config
  reg,      \* (cb, cb_user_arg)
  applied,  \* history: the configuration the HAL last accepted
  refused,  \* history: config was stored by a config_set the HAL refused
  last      \* history: the latest call and what became of it

vars == <<class, type, status, vmt, api, config, reg, applied, refused, last>>

Statuses == {"ZEROED", "CONSTRUCTED", "INITIALIZED"}
Untyped == 0  \* CFN_HAL_PERIPHERAL_TYPE_UNKNOWN, the tag of a zeroed driver

ConfigsOf(s) == {NULL} \cup ({s} \X Configs)
RegistrationsOf(s) == {NULL} \cup ({s} \X Registrations)
TablesOf(s) == {NULL} \cup {t \in Tables : t.class = s}

-----------------------------------------------------------------------------
(* Calls and their outcomes.                                               *)

\* s's wrapper op may be called on d.
May(op, s, d) == s = class[d] \/ op \in ForeignOps

\* The provider function a call ended in: slot of a table made for class.
Hit(table, slot) == [class |-> table.class, slot |-> slot]
Out(result, hit) == [result |-> result, hit |-> hit]

Record(op, s, d, o, value) ==
  last' = [op |-> op, via |-> s, on |-> d, result |-> o.result,
           hit |-> o.hit, value |-> value]

\* The provider runs and returns OK or an error of its own.
Provider(table, slot) ==
  {Out(r, Hit(table, slot)) : r \in {"OK", "FAIL"}}

Has(table, slot) == table # NULL /\ slot \in table.filled

\* Slip: no FourCC check.
UncheckedType(s, d, outcomes) == outcomes

\* The FourCC check in front of every HAL entry point.
TypeChecked(s, d, outcomes) ==
  IF type[d] = Fourcc[s] THEN outcomes ELSE {Out("BAD_PARAM", NULL)}

\* CFN_HAL_CHECK_AND_CALL_FUNC(_VARG): type, then slot of api; no status.
CheckAndCall(s, d, slot) ==
  TypeChecked(s, d, IF Has(api[d], slot) THEN Provider(api[d], slot)
                                         ELSE {Out("NOT_SUPPORTED", NULL)})

\* cfn_hal_base_*: type, then whatever the HAL does with the bound table v. It
\* may refuse for a reason of its own, and it may do without an empty slot.
BaseCall(s, d, v, slot) ==
  TypeChecked(s, d,
    {Out("FAIL", NULL)} \cup
    (IF Has(v, slot) THEN Provider(v, slot)
                     ELSE {Out("NOT_SUPPORTED", NULL), Out("OK", NULL)}))

-----------------------------------------------------------------------------
(* The wrappers.                                                           *)

Init ==
  /\ class \in [Drivers -> Services]
  /\ type = [d \in Drivers |-> Untyped]
  /\ status = [d \in Drivers |-> "ZEROED"]
  /\ vmt = [d \in Drivers |-> NULL]
  /\ api = [d \in Drivers |-> NULL]
  /\ config = [d \in Drivers |-> NULL]
  /\ reg = [d \in Drivers |-> NULL]
  /\ applied = [d \in Drivers |-> NULL]
  /\ refused = [d \in Drivers |-> FALSE]
  /\ last = [op |-> "none", via |-> NULL, on |-> NULL, result |-> NULL,
             hit |-> NULL, value |-> NULL]

\* Any wrapper of s given a NULL driver.
NullDriver(s) ==
  /\ Record("any", s, NULL, Out("BAD_PARAM", NULL), NULL)
  /\ UNCHANGED <<class, type, status, vmt, api, config, reg, applied, refused>>

\* populate fills the whole struct. Whether the macro binds base.vmt is the
\* HAL's business: init does not rely on it.
Populate(d, t, c, r) ==
  /\ type' = [type EXCEPT ![d] = Fourcc[class[d]]]
  /\ status' = [status EXCEPT ![d] = "CONSTRUCTED"]
  /\ \E v \in {NULL, t} : vmt' = [vmt EXCEPT ![d] = v]
  /\ api' = [api EXCEPT ![d] = t]
  /\ config' = [config EXCEPT ![d] = c]
  /\ reg' = [reg EXCEPT ![d] = r]
  /\ refused' = [refused EXCEPT ![d] = FALSE]
  /\ Record("populate", class[d], d, Out("OK", NULL), NULL)
  /\ UNCHANGED <<class, applied>>

\* Slip: init without the rebinding of base.vmt.
InitNoRebind(s, d) ==
  /\ May("init", s, d)
  /\ UNCHANGED vmt
  /\ \E o \in BaseCall(s, d, vmt[d], "init") :
       /\ IF o.result = "OK"
          THEN /\ status' = [status EXCEPT ![d] = "INITIALIZED"]
               /\ applied' = [applied EXCEPT ![d] = config[d]]
               /\ refused' = [refused EXCEPT ![d] = FALSE]
          ELSE UNCHANGED <<status, applied, refused>>
       /\ Record("init", s, d, o, NULL)
  /\ UNCHANGED <<class, type, api, config, reg>>

\* init binds base.vmt to api before the HAL has looked at the tag; the
\* provider starts from the config the struct holds.
InitDriver(s, d) ==
  /\ May("init", s, d)
  /\ vmt' = [vmt EXCEPT ![d] = api[d]]
  /\ \E o \in BaseCall(s, d, api[d], "init") :
       /\ IF o.result = "OK"
          THEN /\ status' = [status EXCEPT ![d] = "INITIALIZED"]
               /\ applied' = [applied EXCEPT ![d] = config[d]]
               /\ refused' = [refused EXCEPT ![d] = FALSE]
          ELSE UNCHANGED <<status, applied, refused>>
       /\ Record("init", s, d, o, NULL)
  /\ UNCHANGED <<class, type, api, config, reg>>

Deinit(s, d) ==
  /\ "deinit" \in Generic[s]
  /\ May("deinit", s, d)
  /\ \E o \in BaseCall(s, d, vmt[d], "deinit") :
       /\ status' = IF o.result = "OK" THEN [status EXCEPT ![d] = "CONSTRUCTED"]
                                       ELSE status
       /\ Record("deinit", s, d, o, NULL)
  /\ UNCHANGED <<class, type, vmt, api, config, reg, applied, refused>>

\* Slip: config_set forwards the configuration and forgets to store it.
ConfigSetNotStored(s, d, c) ==
  /\ "config_set" \in Generic[s]
  /\ May("config_set", s, d)
  /\ \E o \in BaseCall(s, d, vmt[d], "config_set") :
       /\ applied' = IF o.result = "OK" THEN [applied EXCEPT ![d] = c]
                                        ELSE applied
       /\ refused' = [refused EXCEPT ![d] = o.result # "OK"]
       /\ Record("config_set", s, d, o, c)
  /\ UNCHANGED <<class, type, status, vmt, api, config, reg>>

\* config_set stores the pointer first; the HAL accepts or refuses it after.
ConfigSet(s, d, c) ==
  /\ "config_set" \in Generic[s]
  /\ May("config_set", s, d)
  /\ config' = [config EXCEPT ![d] = c]
  /\ \E o \in BaseCall(s, d, vmt[d], "config_set") :
       /\ applied' = IF o.result = "OK" THEN [applied EXCEPT ![d] = c]
                                        ELSE applied
       /\ refused' = [refused EXCEPT ![d] = o.result # "OK"]
       /\ Record("config_set", s, d, o, c)
  /\ UNCHANGED <<class, type, status, vmt, api, reg>>

\* config_get copies what the struct points to. It is the one lifecycle
\* wrapper that never reaches the HAL, so it checks no tag; the out pointer
\* may be NULL too.
ConfigGet(s, d) ==
  /\ "config_get" \in Generic[s]
  /\ May("config_get", s, d)
  /\ \/ Record("config_get", s, d, Out("BAD_PARAM", NULL), NULL)
     \/ /\ config[d] # NULL
        /\ Record("config_get", s, d, Out("OK", NULL), config[d])
  /\ UNCHANGED <<class, type, status, vmt, api, config, reg, applied, refused>>

\* Slip: callback_register copied from config_set with its store left in place.
CallbackIntoConfig(s, d, r) ==
  /\ "callback_register" \in Generic[s]
  /\ May("callback_register", s, d)
  /\ config' = [config EXCEPT ![d] = r]
  /\ \E o \in BaseCall(s, d, vmt[d], "callback_register") :
       Record("callback_register", s, d, o, r)
  /\ UNCHANGED <<class, type, status, vmt, api, reg, applied, refused>>

\* callback_register stores cb and cb_user_arg, then tells the HAL.
CallbackRegister(s, d, r) ==
  /\ "callback_register" \in Generic[s]
  /\ May("callback_register", s, d)
  /\ reg' = [reg EXCEPT ![d] = r]
  /\ \E o \in BaseCall(s, d, vmt[d], "callback_register") :
       Record("callback_register", s, d, o, r)
  /\ UNCHANGED <<class, type, status, vmt, api, config, applied, refused>>

\* power_state_set, event_* and error_*: forwarded as they are.
Forward(op, s, d) ==
  /\ op \in Generic[s]
  /\ May(op, s, d)
  /\ \E o \in BaseCall(s, d, vmt[d], op) : Record(op, s, d, o, NULL)
  /\ UNCHANGED <<class, type, status, vmt, api, config, reg, applied, refused>>

\* A service wrapper.
Call(op, s, d) ==
  /\ May(op, s, d)
  /\ \E o \in CheckAndCall(s, d, Calls[s][op]) : Record(op, s, d, o, NULL)
  /\ UNCHANGED <<class, type, status, vmt, api, config, reg, applied, refused>>

\* Slip: the interrupt dispatcher trusts its caller about the type.
InterruptUnchecked(s, d) ==
  /\ s \in Interrupts
  /\ May("handle_interrupt", s, d)
  /\ IF Has(api[d], "handle_interrupt")
     THEN Record("handle_interrupt", s, d,
                 Out("OK", Hit(api[d], "handle_interrupt")), NULL)
     ELSE Record("handle_interrupt", s, d, Out("OK", NULL), NULL)
  /\ UNCHANGED <<class, type, status, vmt, api, config, reg, applied, refused>>

\* handle_interrupt does its own tag check and calls through api, whatever the
\* status.
HandleInterrupt(s, d) ==
  /\ s \in Interrupts
  /\ May("handle_interrupt", s, d)
  /\ IF type[d] = Fourcc[s] /\ Has(api[d], "handle_interrupt")
     THEN Record("handle_interrupt", s, d,
                 Out("OK", Hit(api[d], "handle_interrupt")), NULL)
     ELSE Record("handle_interrupt", s, d, Out("OK", NULL), NULL)
  /\ UNCHANGED <<class, type, status, vmt, api, config, reg, applied, refused>>

Next ==
  \/ \E s \in Services : NullDriver(s)
  \/ \E d \in Drivers :
       \E t \in TablesOf(class[d]), c \in ConfigsOf(class[d]),
          r \in RegistrationsOf(class[d]) : Populate(d, t, c, r)
  \/ \E s \in Services, d \in Drivers :
       \/ InitDriver(s, d)
       \/ Deinit(s, d)
       \/ \E c \in ConfigsOf(s) : ConfigSet(s, d, c)
       \/ ConfigGet(s, d)
       \/ \E r \in RegistrationsOf(s) : CallbackRegister(s, d, r)
       \/ \E op \in BaseOps : Forward(op, s, d)
       \/ \E op \in DOMAIN Calls[s] : Call(op, s, d)
       \/ HandleInterrupt(s, d)

Spec == Init /\ [][Next]_vars

-----------------------------------------------------------------------------
(* Properties.                                                             *)

AnyTable == {NULL} \cup Tables
AnyConfig == {NULL} \cup (Services \X Configs)
AnyRegistration == {NULL} \cup (Services \X Registrations)

\* Every variable but the history of calls keeps its type.
TypeOK ==
  /\ class \in [Drivers -> Services]
  /\ type \in [Drivers -> Nat]
  /\ status \in [Drivers -> Statuses]
  /\ vmt \in [Drivers -> AnyTable]
  /\ api \in [Drivers -> AnyTable]
  /\ config \in [Drivers -> AnyConfig]
  /\ reg \in [Drivers -> AnyRegistration]
  /\ applied \in [Drivers -> AnyConfig]
  /\ refused \in [Drivers -> BOOLEAN]

\* No call, whatever wrapper it enters by and whatever came before, ends in a
\* provider function compiled for another service than the wrapper's, nor for
\* another than the driver's own struct; and a driver nobody has populated
\* reaches no provider. This is what the FourCC tags are for.
DispatchTypeSafe ==
  last.hit # NULL =>
    /\ last.hit.class = last.via
    /\ last.hit.class = class[last.on]
    /\ status[last.on] # "ZEROED"

\* base.vmt, through which the HAL makes the lifecycle calls, and api, through
\* which the service calls go, never name two different providers, and on an
\* initialised driver they are the same one: what init rebinds vmt for.
OneProvider ==
  \A d \in Drivers :
    /\ vmt[d] \in {NULL, api[d]}
    /\ status[d] = "INITIALIZED" => vmt[d] = api[d]

\* While no config_set has been refused, what config_get reports of an
\* initialised driver is the configuration the HAL accepted last.
ConfigAgrees ==
  \A d \in Drivers :
    status[d] = "INITIALIZED" /\ ~refused[d] => config[d] = applied[d]

\* A wrapper called on a driver of another service runs no provider and leaves
\* the driver as it was, but for init, which may bind vmt to the driver's api.
ForeignCallInert ==
  [][\A d \in Drivers :
       last'.on = d /\ last'.via # class[d] =>
         /\ last'.hit = NULL
         /\ type'[d] = type[d] /\ status'[d] = status[d] /\ api'[d] = api[d]
         /\ config'[d] = config[d] /\ reg'[d] = reg[d]
         /\ vmt'[d] \in {vmt[d], api[d]}]_vars

\* No two wrappers of a service run the same provider function, whichever of
\* them is called after the other: over two hundred one-line wrappers name
\* their slot by hand.
WrappersApart ==
  [][last.hit # NULL /\ last'.hit = last.hit /\ last'.via = last.via
       => last'.op = last.op]_vars

-----------------------------------------------------------------------------
(* What the documentation says of the wrappers and the code does not do.    *)

\* README: FourCC type checking at runtime. Every wrapper that returns an error
\* code refuses a driver of another service.
ForeignCallRefused ==
  last.on # NULL /\ last.op \notin {"none", "handle_interrupt"} =>
    (last.via # class[last.on] => last.result = "BAD_PARAM")

\* config_get "gets the current configuration": on an initialised driver, the
\* one the provider works with.
ConfigGetCurrent ==
  last.op = "config_get" /\ last.result = "OK" =>
    (status[last.on] = "INITIALIZED" => last.value = applied[last.on])
=============================================================================
