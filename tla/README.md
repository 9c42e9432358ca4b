# TLA+ models of Caffeine-Services

Caffeine-Services (Caffeine-SAL) is a header-only C11 layer of *drivers*: one
struct type and a set of inline wrappers per service, in front of a virtual
method table that a *provider* fills. This directory models the drivers, their
use from several threads, the way of an event from the device to a callback, and
the shared state of a composite sensor; TLC checks the models on small instances and TLAPS
proves the main results for all.

## 1. The system

| component | source | state | operations | what can go wrong |
|---|---|---|---|---|
| driver core | `cfn_sal.h`, and the same code in every header | `base` (FourCC type, status, `vmt`), `api`, `config`, `cb`, `cb_user_arg` | `populate`, `init`, `deinit`, `config_set/get`, `callback_register`, `power_state_set`, `event_*`, `error_*` | a field is written before the HAL validates the call; two tables (`base.vmt`, `api`) must agree |
| device services (15) | `devices/*.h` | as above | 122 service wrappers, 8 interrupt dispatchers | tags, slots and wrapper names are spelled by hand in every header |
| network services (2) | `network/*.h` | as above | connect, send, receive, ... | as above |
| utility services (8) | `utilities/*.h` | as above | collection, file system, key-value, AT parser, CLI, logging, serialization, timekeeping | as above; incomplete lifecycles |
| locking, callbacks, interrupts | `CFN_HAL_WITH_LOCK` (used in `tests/compliance.c`), `handle_interrupt` | the driver's lock | a locked call, a callback that calls its driver, an interrupt between any two steps | torn pairs of fields, check-then-use of `config`, self-deadlock |
| event delivery | `callback_register`, `event_enable/disable`, `handle_interrupt`; event enumerations of 19 headers | `cb`, `cb_user_arg`, the provider's copy of them, event mask | register, enable, disable; the interrupt, the provider's own context | a callback with another's argument; two events on one bit; a callback type the HAL's does not fit |
| composite sensors | `devices/cfn_sal_dev_composite.h` | `phy`, `init_ref_count` (`uint8_t`), `hw_initialized` | `composite_init`, `composite_deinit`; the providers count themselves in and out | three plain stores that no lock covers, beside providers that do not know of each other: lost updates, reset under active interfaces, a failed first init |
| Caffeine-HAL | another repository | | `cfn_hal_base_*`, `CFN_HAL_CHECK_AND_CALL_FUNC(_VARG)`, `CFN_HAL_WITH_LOCK`, `CFN_HAL_POPULATE_DRIVER` | external |
| providers, `construct`/`destruct` | other repositories | | | external |
| dependency stacks (GSM over AT parser over transport) | the `dependency` parameter of `populate` | | | external: see section 5 |
| tests, build, packaging | `tests/`, `cmake/`, `scripts/`, `.github/` | none | | evidence only |

An application calls a wrapper. A lifecycle wrapper stores its arguments in the
struct and calls the HAL, which checks the tag and dispatches through
`base.vmt`; a service wrapper checks the tag and dispatches through `api`. A
provider may raise the driver's callback, which may call the driver again. An
interrupt line calls `handle_interrupt` at any time.

Correctness, component by component:

- driver core: a call reaches a provider of its own service or none; an error
  leaves the driver as it was; `vmt` and `api` name one provider; `config_get`
  reports what the HAL accepted;
- services: distinct tags, distinct slots per wrapper, the whole lifecycle;
- concurrent use: under the lock the driver is atomic; every call ends; the
  lock always comes back;
- event delivery: a callback runs with the argument it was registered with, and
  is told of exactly the enabled events that happened;
- composite: the count is the number of active interfaces, and the flag says
  whether there are any, unless one of a known list of things has gone wrong;
  `composite_init` and `composite_deinit`, undisturbed, make up for all of them.

PROJECT.json lists the hazards with the line where each bites.

## 2. Modules

| module | models | how |
|---|---|---|
| `SalCatalog` | all 25 headers, as data | two definitions per header: `XCalls`, the slot each service wrapper calls; `X`, the FourCC, lifecycle wrappers and interrupt dispatcher |
| `SalDriver` | the wrappers, atomically, of any services on any driver | one action per wrapper; a service wrapper is `Call`, the wrappers that only forward are `Forward` |
| `MCDriver` | instances of `SalDriver` with rows of the catalog | |
| `SalThreads` | the same wrappers step by step, several threads, lock, timeout, callback, interrupt | one action per load, store, HAL entry and return; instantiates `SalDriver` as its abstraction |
| `MCThreads` | two threads | |
| `SalComposite` | the shared struct of a composite sensor: `composite_init` and `composite_deinit`, and the providers beside them | one action per store, in any order; a provider's load and store of the count apart |
| `MCComposite` | three interfaces | |
| `SalSignals` | event enumerations and callback types of the headers, as data | one definition per header |
| `SalEvents` | `populate` and `callback_register` store by store, `event_enable/disable`, against the interrupt | one action per store, call and return; `Report` is what the provider does with the events |
| `MCEvents` | the 19 services with events | |
| `SalX_proofs` | theorems about `SalX`; `SalAtomic_proofs`: `SalThreads` implements `SalDriver` | |
| `SalHeaders_proofs` | theorems about the tables of `SalCatalog` and `SalSignals` | instantiated (`H`) by the other proof modules, which apply their theorems to the headers as they are |

State and code correspond by name: `type`, `status`, `vmt`, `api`, `config` are
the struct's fields, `reg` (or `cb` and `arg`, once they are two stores) its
callback and user argument. A pointer is a pair of the service it was declared
for and a name, so a foreign pointer is visible in the state. `class` is the
static C type of the struct. `applied`, `refused`, `last` and `snap` are history
for the properties. Arguments of service calls, measured values and the bytes
of a transfer are left out.

What is assumed of the HAL is what the tests show: a wrong tag is refused with
BAD_PARAM (`cfn_sal_test_collection.cpp`, WrongPeripheralType), an empty slot
gives NOT_SUPPORTED (UnimplementedApi), a hook may make `init` fail and the
status then stays CONSTRUCTED (OnConfigFailureAbortsInit), a successful `init`
makes it INITIALIZED. Where the tests are silent the HAL chooses: `BaseCall` may
fail for its own reasons, may accept or refuse an empty lifecycle slot, and
`populate` may or may not bind `vmt`. Status is not tested by a wrapper, so
calls are made in every status.

Of a composite sensor's providers `SalComposite` assumes what the comments on the
struct's fields say: an interface that is initialised loads the count, brings the
hardware up if it is zero, which may fail, and stores one more; one that is
released stores one less, and brings the hardware down if it was the last.
Nothing is assumed of when they run, or of who else runs meanwhile: neither
`composite_init` nor `composite_deinit` has a driver to lock, and each interface
has a lock of its own. `spoilt` records instead what may have gone wrong: nobody
has set the struct up (`unset`), it was set up or released under an active
interface (`under`), a provider was at work inside such a call (`within`), two
providers overlapped (`overlap`), an interface was counted in or out twice
(`repeat`).

`SalEvents` assumes that a provider reports nothing before
`event_enable` (or before `populate` has returned, where the service has no such
wrapper), that it may keep the pair it was handed or use the struct's, and that
the interrupt runs to completion between two stores of the thread.

The definitions marked *Slip* are plausible errors in the operator that follows
them. Nothing refers to them; substituted for that operator, each makes TLC find
the property PROJECT.json names violated, which shows that the property depends
on the code.

## 3. Runs

| run | instance | shows |
|---|---|---|
| `driver_pair` | pressure, humidity, magnetometer; full, empty and init-only tables; two configurations, one registration; all wrappers but the two writers callable on foreign drivers | `DispatchTypeSafe`, `OneProvider`, `ConfigAgrees`, `ForeignCallInert` |
| `driver_catalog` | 25 services with their real tags, full tables, one foreign wrapper of each kind | `DispatchTypeSafe`; `WrappersApart`: no two wrappers of a service run one provider function |
| `threads_locked` | two threads, lifecycle wrappers locked, service calls not | the lock is neither left behind nor stolen (`LockHeldInside`), fields stay paired, no null dereference, `OneProvider`, `ConfigAgrees`, implements `SalDriver` (`BehavesAtomically`) |
| `threads_live` | `FairSpec`, every call locked | `CallsEnd` even with a provider that hangs in the lock; `LockComesBack` in spite of callbacks that ask for the lock their thread holds, if providers return |
| `composite` | three interfaces, one phy, count modulo 4, any call at any time | `ExactUnlessSpoilt`: the five spoilers are all that can make count or flag wrong, and an undisturbed `composite_init` or `composite_deinit` makes up for each |
| `events` | the 18 services whose callback has the HAL's parameters, two registrations, up to two events at a time; callbacks are registered while no event is enabled | `CallbackAsRegistered`, `EventsApart` |
| `events_anytime` | the same services; callbacks are registered at any time | `SettledCallbacks` |

Five runs state what the documentation says and find the code otherwise:

| run | documentation | code |
|---|---|---|
| `doc_type_check` | README: FourCC type checking at runtime | `config_get` checks no tag |
| `doc_refused_write` | the same | `config_set` and `callback_register` write before the HAL refuses the call |
| `doc_current_config` | "Gets the current collection configuration" | a refused `config_set` leaves the refused pointer in the struct |
| `doc_transport_callback` | README: one `callback` across the entire framework | the transport's callback has `data_len` before `user_arg`, is cast to the HAL's type and then finds no argument where it looks |
| `doc_active_count` | "Number of active interfaces using this PHY" | `composite_init` and `composite_deinit` zero the count under active interfaces: `under` alone breaks it, with every provider doing its part |

Some facts the runs bring out without a run of their own: serialization has only
`init`, magnetometer and timekeeping only `init` and `deinit` (rows of
`SalCatalog`), so that the events of the latter two are always on (`AlwaysOn`).
`CallbackAsRegistered` needs the
application that `events` describes (`Disciplined`): if it registers a callback
while events are enabled, the interrupt comes between the two stores and no lock
keeps it away. `SettledCallbacks` says how far the damage goes: a callback that
runs between calls is not affected, and one that runs in the middle of a
`callback_register` mixes the old pair and the new, never anything older.

### Bounds

- One driver: no wrapper touches another driver, so drivers are independent.
  `driver_pair` takes three services because they differ in what matters: with
  and without an interrupt dispatcher, complete and incomplete lifecycle, a
  wrapper named unlike its slot. `driver_catalog` takes all 25.
- Two configurations and NULL let a `config_set` be accepted, refused and
  superseded. One registration and NULL let a pair be torn.
- Two threads suffice for a race on a field, a torn pair or a lock fight; the
  proofs cover any number. `threads_live` has no configurations, its properties
  do not read them. One service wrapper stands for all: they run the same
  code.
- The count has two bits instead of eight. `CountFits` says there is room for
  every interface; with four interfaces instead of three it would wrap. The
  third interface is there for a count that is neither the first nor the last.
  One call of `composite_init` or `composite_deinit` runs at a time.
- `MaxWatched` bounds the events an application takes an interest in to two:
  `EventsApart` is about pairs of events, and every pair of every service is
  chosen in some initial state. In `events_anytime` it is one: `SettledCallbacks`
  does not read the events.
- One callback call per call.

Symmetry over threads is used in `threads_locked` and over interfaces in
`composite`, whose properties name none of them; not in the run with liveness.

### Fairness

`FairSpec` assumes that the scheduler runs each thread that can run and that a
lock timeout expires (`WF_vars(Step(t))`); the timeout is an argument of
`CFN_HAL_WITH_LOCK`. It assumes nothing of a provider, of a new call, or of an
interrupt. That providers return, the contract any call relies on, is a
hypothesis of the one property that needs it, `LockComesBack`. No strong fairness is
assumed: a thread may lose the lock to others for ever, and then times out.

## 4. Proofs

Every safety property of the passing runs, and the refinement, is proved, for
all values of the constants. Where a theorem needs more of the constants than the
modules assume, the hypothesis is named in the theorem (`TagsDistinct`,
`CountFits`, ...); those that are about the headers are discharged.

- `SalHeaders_proofs`: the tables of the headers. `TagsApart`: the 25 tags,
  computed from their letters, are distinct and none is zero. `SlotsApart`: no
  header has two wrappers for one slot, nor a service wrapper with the name or the
  slot of a lifecycle wrapper. `EventBitsApart`: no header that declares events
  gives two of them one bit. A lemma says where each
  service's callback finds its `user_arg`, for `SalEvents_proofs`. The proofs go through the headers one by one,
  so that a header that breaks the rule fails by name.
- `SalDriver_proofs`: `TypeCorrect`, `OneProviderAlways` and `ConfigAgreesAlways`
  are inductive with `TypeOK`. `DispatchIsTypeSafe` needs more: a provider runs
  through `vmt` or `api`, so the inductive invariant `Tagged` says that a
  populated driver has the tag of its class, that both tables are of its class,
  and that a zeroed one has neither. If the tags are distinct (`TagsDistinct`) a
  matching tag is then the right class. `ForeignCallsAreInert` follows from the
  same invariant if the two wrappers that write first are not called on foreign
  drivers; `doc_refused_write` shows that this hypothesis is needed.
  `WrappersStayApart` needs that every slot is named by one wrapper
  (`SlotsDistinct`); `OwnSlot`, the latest call reached its own slot, carries it.
  The theorems `Real...` say the same of any set of the 25 services, with the tags
  and slots of their headers (`RealHeaders`), and no hypothesis about either.
- `SalThreads_proofs`, for any number of threads and any set of locked wrappers:
  `OneProviderAlways` needs no lock. Its invariant `TableInv` says that a zeroed
  driver has no callers and that a running `init` past its store has left `vmt`
  bound. `LockIsHeldInside`: `LockHeldInside` is not inductive by itself, since
  nothing in it keeps a wrapper that takes no lock from waiting for one;
  `LockInv` adds that. `FieldsNeedOnlyTheirLock` assumes that the three wrappers
  that touch the fields are locked. Its invariants are `LockInv`, and `FieldInv`,
  what holds between the two loads of `config_get` and between the two stores of
  `callback_register`; `NeverNullDereference` is its half about `config_get`.
  `ConfigAgreesUnderLock` assumes that `init` and `config_set` are locked; its
  invariant `AgreeInv` gives `config` to the one `config_set` on its way to a
  result.
- `SalAtomic_proofs`: `LockedCallsAreAtomic`, the refinement. It assumes that the
  lifecycle wrappers are locked and that no service wrapper has the name of one
  that stores a field (`LifecycleLocked`), and that tables are made for the
  service (`TablesFit`). The invariants are those of `SalThreads_proofs` and two
  more: `CallInv`, a call that is done has an outcome it may have, and `SnapInv`,
  how far the call that holds the lock has taken the fields from what they were
  when it got the lock. A locked call then maps to a step of `SalDriver` when it
  returns, a service call too, an interrupt when it comes; all other steps map to
  a stutter, because until the lock is given back `SalDriver` sees `snap`.
  `RealLockedCallsAreAtomic` takes the service wrappers from the headers.
- `SalComposite_proofs`: `ExactOrSpoilt`, under `CountFits` and nothing else:
  whoever calls what when, count and flag are exact while nothing is spoilt. Its
  invariant `AloneInv` says that a call that has had the struct to itself has left
  zeroes where it has stored, in whatever order; `ExactInv`, that while nothing is
  spoilt at most one provider is at work, outside any call of the two functions,
  and the count it has loaded is still the count. `RealExactOrSpoilt` discharges
  `CountFits`: an interface for each of any of the 25 services fits in eight bits.
- `SalEvents_proofs`: `CallbacksSettle` assumes nothing of the application, only
  `UserArgArrives`: the callback's type has `user_arg` where the HAL passes it. Its
  invariant `PairInv` says that between calls struct and provider hold whole pairs,
  the last one registered if none was refused, and that inside a call the struct
  holds the old pair or the new, field by field.
  `CallbacksRunAsRegistered` adds `Disciplined`, and the invariant `QuietInv`: no
  event is enabled between the stores. `EventsStayApart` assumes that events have
  different bits (`BitsApart`); `MaskInv` relates masks to sets of events. The
  theorems `Real...` take bits and callback types from the headers; `UserArgArrives`
  then holds exactly for the services other than the transport (`RealUserArg`).

Only model-checked: liveness (`CallsEnd`, `LockComesBack`). It rests on
fairness and on which steps are enabled, and the provers used decide neither.

## 5. Not modelled

- The HAL and the providers beyond what is assumed above; `construct` and
  `destruct`, which are declared only.
- Dependency stacks. Nothing in this repository reads the `dependency` that
  `populate` is given. The calls from one level to the next, their buffers,
  their locks and their teardown are in providers elsewhere; a model of them
  would be a model of no code.
- What keeps a composite sensor's providers apart, if anything does. The phy is a
  plain pointer here and the lock is a macro of the HAL's; a bus that is locked,
  the order in which its lock and a driver's are taken, and a driver's status next
  to the count are matters of the HAL and of the providers.
- Asynchronous transfers: `send_async` and `receive_async` are service wrappers
  like the others; the lifetime of a buffer and the completion event are the
  provider's.
- The serialization schema macros: constants, used nowhere here. The field macro
  puts its member and its type in parentheses, `offsetof((T), (m))` and
  `->(m)`, which is not C, so it cannot be expanded as it stands; the conversion
  of offsets to 16 bits behind it never happens.
- Tests, build and packaging.
- Five slots of the magnetometer's table have no wrapper and are not in the
  catalog. The contents of measurements and messages, and error masks, which the
  wrappers only forward.

## 6. Plan

Done: 1. `SalCatalog` and `SalDriver` with their runs and proofs; 2. `SalThreads`,
liveness, the safety proofs and the proof that it implements `SalDriver`;
3. `SalComposite` with its proof;
4. `SalSignals` and `SalEvents` with their proofs;
5. the theorems about the headers' tables.

Left, if the repository grows code for it: dependency stacks, asynchronous
transfers and composite sensors in use, once a provider that implements them is
kept beside these headers.
