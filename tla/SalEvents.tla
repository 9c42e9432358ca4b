------------------------------ MODULE SalEvents ------------------------------
(***************************************************************************)
(* How an event of a device reaches the application. The application gives *)
(* populate or callback_register a callback and its argument and enables   *)
(* events; an interrupt, or the provider's own context, finds the enabled  *)
(* events among those the device has latched and calls the callback, which *)
(* tests the mask it is given against the header's event enumeration.      *)
(*                                                                         *)
(* The interrupt runs to completion between any two stores of the thread:  *)
(* it takes no lock, so CFN_HAL_WITH_LOCK around callback_register does    *)
(* not keep it away. Disciplined says that the application registers and   *)
(* populates only while no event is enabled.                               *)
(*                                                                         *)
(* A provider may call the callback out of the driver's struct, with the   *)
(* type its header declares, or call the one callback_register handed it   *)
(* through the HAL, whose type is the HAL's for every service. Providers   *)
(* and HAL are external.                                                   *)
(***************************************************************************)
EXTENDS Naturals, FiniteSets

CONSTANTS
  Services,       \* the services a driver may be of
  Fourcc,         \* service |-> FourCC tag
  Generic,        \* service |-> its lifecycle wrappers
  Interrupts,     \* services that define handle_interrupt
  Bits,           \* service |-> (event |-> its bit)
  Params,         \* service |-> parameters of its callback
  HalParams,      \* parameters of cfn_hal_callback_t
  Registrations,  \* names of (callback, user_arg) pairs
  MaxWatched,     \* bound: events an application takes an interest in
  Disciplined,    \* callbacks change only while no event is enabled
  NULL

ASSUME EventsAssumption ==
  /\ \A s \in Services :
       Fourcc[s] # 0 /\ \A e \in DOMAIN Bits[s] : Bits[s][e] \in 0..31
  /\ NULL \notin Registrations
  /\ Disciplined \in BOOLEAN

VARIABLES
  class,            \* the driver's service
  watched,          \* the events its application knows of
  type, api,        \* base.type; whether api points to a table
  cb, arg,          \* cb and cb_user_arg: each the name of a registration
  call, val, todo,  \* the thread's call, its argument, the stores it still owes
  handed,           \* the pair the provider was handed: by construct, or by
                    \* callback_register through the HAL
  mask,             \* the enabled events, as bits
  latched,          \* the events the device has latched, as bits
  wanted,           \* history: the events the application has enabled
  happened,         \* history: the events behind latched
  registered,       \* history: the pair of the last call that was accepted
  refused,          \* history: a callback_register has been refused since
  delivered         \* history: the run of the callback in the step just made

struct == <<type, api, cb, arg>>
thread == <<call, val, todo>>
history == <<wanted, happened, registered, refused>>
vars == <<class, watched, struct, thread, handed, mask, latched, history,
          delivered>>

Pairs == {NULL} \cup Registrations
BitsOf(events) == {Bits[class][e] : e \in events}

\* What a callback makes of the mask it is given.
Decode(bits) == {e \in watched : Bits[class][e] \in bits}

Tagged == type = Fourcc[class]
Populated == call = "none" /\ Tagged
Quiet == Disciplined => mask = {}

\* Services without event_enable leave the provider no choice: all is enabled.
AlwaysOn == "event_enable" \notin Generic[class]

Deliveries == [cb : Pairs, arg : Pairs, due : Pairs, disputed : BOOLEAN,
               events : SUBSET watched, meant : SUBSET watched]
Nothing == [cb |-> NULL, arg |-> NULL, due |-> NULL, disputed |-> FALSE,
            events |-> {}, meant |-> {}]
Silent == delivered' = Nothing

Init ==
  /\ class \in Services
  /\ watched \in SUBSET DOMAIN Bits[class] /\ Cardinality(watched) <= MaxWatched
  /\ type = 0 /\ api = FALSE /\ cb = NULL /\ arg = NULL
  /\ call = "none" /\ val = NULL /\ todo = {}
  /\ handed = NULL /\ mask = {} /\ latched = {}
  /\ wanted = {} /\ happened = {}
  /\ registered = NULL /\ refused = FALSE
  /\ delivered = Nothing

-----------------------------------------------------------------------------
(* The application's thread.                                               *)

PopulateStores == {"type", "api", "cb", "arg"}

\* Slip: callback_register stores the callback and leaves the old argument.
RegisterForgetsArg == {"cb"}

RegisterStores == {"cb", "arg"}

Begin(op, r, stores) ==
  /\ call = "none"
  /\ Quiet
  /\ call' = op /\ val' = r /\ todo' = stores
  /\ Silent
  /\ UNCHANGED <<class, watched, struct, handed, mask, latched, history>>

\* populate, by the provider's construct.
Populate(r) == Begin("populate", r, PopulateStores)

CallbackRegister(r) ==
  /\ "callback_register" \in Generic[class]
  /\ Tagged
  /\ Begin("callback_register", r, RegisterStores)

\* Slip: the peripheral id and the type swapped in CFN_HAL_POPULATE_DRIVER.
StoreSwapped(f) ==
  /\ f \in todo
  /\ todo' = todo \ {f}
  /\ type' = IF f = "type" THEN 1 ELSE type
  /\ api' \in IF f = "api" THEN BOOLEAN ELSE {api}
  /\ cb' = IF f = "cb" THEN val ELSE cb
  /\ arg' = IF f = "arg" THEN val ELSE arg
  /\ Silent
  /\ UNCHANGED <<class, watched, call, val, handed, mask, latched, history>>

\* The stores come in any order: no barrier orders them. The table populate is
\* given may be NULL.
Store(f) ==
  /\ f \in todo
  /\ todo' = todo \ {f}
  /\ type' = IF f = "type" THEN Fourcc[class] ELSE type
  /\ api' \in IF f = "api" THEN BOOLEAN ELSE {api}
  /\ cb' = IF f = "cb" THEN val ELSE cb
  /\ arg' = IF f = "arg" THEN val ELSE arg
  /\ Silent
  /\ UNCHANGED <<class, watched, call, val, handed, mask, latched, history>>

EndCall == call' = "none" /\ val' = NULL /\ UNCHANGED todo

Accepted ==
  /\ handed' = val
  /\ registered' = val
  /\ refused' = FALSE

Populating == call = "populate" /\ todo = {}
Registering == call = "callback_register" /\ todo = {}

PopulateEnds ==
  /\ Populating
  /\ Accepted
  /\ mask' = IF AlwaysOn THEN BitsOf(watched) ELSE mask
  /\ wanted' = IF AlwaysOn THEN watched ELSE wanted
  /\ EndCall
  /\ Silent
  /\ UNCHANGED <<class, watched, struct, latched, happened>>

\* The HAL passes the registration on, or refuses it after it was stored.
RegisterEnds ==
  /\ Registering
  /\ \/ Accepted
     \/ refused' = TRUE /\ UNCHANGED <<handed, registered>>
  /\ EndCall
  /\ Silent
  /\ UNCHANGED <<class, watched, struct, mask, latched, wanted, happened>>

\* event_enable and event_disable, forwarded with a mask; refused, they change
\* nothing.
EventEnable(events) ==
  /\ ~AlwaysOn /\ Populated
  /\ mask' = mask \cup BitsOf(events)
  /\ wanted' = wanted \cup events
  /\ Silent
  /\ UNCHANGED <<class, watched, struct, thread, handed, latched, happened,
                 registered, refused>>

EventDisable(events) ==
  /\ ~AlwaysOn /\ Populated
  /\ mask' = mask \ BitsOf(events)
  /\ wanted' = wanted \ events
  /\ Silent
  /\ UNCHANGED <<class, watched, struct, thread, handed, latched, happened,
                 registered, refused>>

-----------------------------------------------------------------------------
(* The device, its interrupt, and the provider behind it.                  *)

Raise(e) ==
  /\ latched' = latched \cup BitsOf({e})
  /\ happened' = happened \cup {e}
  /\ Silent
  /\ UNCHANGED <<class, watched, struct, thread, handed, mask, wanted,
                 registered, refused>>

\* Called as the HAL's type, a callback finds in its parameter p what the HAL
\* passed at p's position.
Received(p) ==
  LET at == {k \in DOMAIN Params[class] : Params[class][k] = p}
  IN  {HalParams[k] : k \in at \cap DOMAIN HalParams}

Runs(callback, argument) ==
  delivered' = [cb |-> callback, arg |-> argument,
                due |-> registered, disputed |-> refused,
                events |-> Decode(latched \cap mask),
                meant |-> happened \cap wanted]

\* The callback, if there is one, is told of the enabled events among those
\* latched; the others stay latched.
Report ==
  /\ latched' = latched \ mask
  /\ happened' = happened \ wanted
  /\ \/ latched \cap mask # {} /\ cb # NULL /\ Runs(cb, arg)
     \/ /\ latched \cap mask # {} /\ handed # NULL
        /\ Runs(handed, IF Received("user_arg") = {"user_arg"} THEN handed
                                                              ELSE NULL)
     \/ /\ NULL \in {cb, handed} \/ latched \cap mask = {}
        /\ Silent

\* handle_interrupt tests the tag and the table, not the status.
HandleInterrupt ==
  /\ class \in Interrupts
  /\ Tagged /\ api
  /\ Report
  /\ UNCHANGED <<class, watched, struct, thread, handed, mask, wanted,
                 registered, refused>>

\* Services without a dispatcher: the provider's own context.
ProviderReports ==
  /\ class \notin Interrupts
  /\ Report
  /\ UNCHANGED <<class, watched, struct, thread, handed, mask, wanted,
                 registered, refused>>

Next ==
  \/ \E r \in Pairs : Populate(r) \/ CallbackRegister(r)
  \/ \E f \in todo : Store(f)
  \/ PopulateEnds \/ RegisterEnds
  \/ \E events \in SUBSET watched : EventEnable(events) \/ EventDisable(events)
  \/ \E e \in watched : Raise(e)
  \/ HandleInterrupt \/ ProviderReports

Spec == Init /\ [][Next]_vars

-----------------------------------------------------------------------------
(* Properties.                                                             *)

TypeOK ==
  /\ class \in Services
  /\ watched \subseteq DOMAIN Bits[class]
  /\ type \in {0, Fourcc[class]} /\ api \in BOOLEAN
  /\ cb \in Pairs /\ arg \in Pairs
  /\ call \in {"none", "populate", "callback_register"}
  /\ val \in Pairs /\ handed \in Pairs /\ registered \in Pairs
  /\ call = "none" => todo = {}
  /\ call = "populate" => todo \subseteq PopulateStores
  /\ call = "callback_register" => todo \subseteq RegisterStores
  /\ mask \subseteq 0..31 /\ latched \subseteq 0..31
  /\ wanted \subseteq watched /\ happened \subseteq watched
  /\ refused \in BOOLEAN
  /\ delivered \in Deliveries

\* Whichever way the provider takes and whenever the interrupt comes, the
\* callback runs with the argument it was registered with; and unless a
\* callback_register has been refused, it is the one registered last.
CallbackAsRegistered ==
  /\ delivered.arg = delivered.cb
  /\ ~delivered.disputed => delivered.cb = delivered.due

\* What is left of that for an application that registers callbacks while events
\* are enabled: a callback that runs while no populate or callback_register is
\* under way runs as registered, whatever interrupted the calls before; and one
\* that runs in the middle of a call mixes nothing older into it than the pair
\* registered last.
SettledCallbacks ==
  /\ call = "none" => CallbackAsRegistered
  /\ ~delivered.disputed =>
       /\ delivered.cb \in {delivered.due, val}
       /\ delivered.arg \in {delivered.due, val}

\* Events do not stand in for one another: event_get reads back as the events
\* that were enabled and not disabled since, and a callback sees exactly those
\* of them that have happened. The bits are spelled by hand in 19 headers.
EventsApart ==
  /\ Decode(mask) = wanted
  /\ delivered.events = delivered.meant
=============================================================================
