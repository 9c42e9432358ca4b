--------------------------- MODULE SalEvents_proofs ---------------------------
(***************************************************************************)
(* Theorems about SalEvents, for any services, events and registrations,   *)
(* and for applications that know of any number of events.                 *)
(***************************************************************************)
EXTENDS SalEvents, TLAPS

\* The HAL passes the user argument where the service's callback expects it.
UserArgArrives ==
  \A s \in Services :
    {HalParams[k] : k \in {j \in DOMAIN Params[s] : Params[s][j] = "user_arg"}
                            \cap DOMAIN HalParams} = {"user_arg"}

\* No two events of a service share a bit.
BitsApart ==
  \A s \in Services : \A e, f \in DOMAIN Bits[s] :
    Bits[s][e] = Bits[s][f] => e = f

-----------------------------------------------------------------------------
(* Type correctness.                                                       *)

LEMMA BitsTyped ==
  ASSUME class \in Services, watched \subseteq DOMAIN Bits[class],
         NEW events \in SUBSET watched
  PROVE  BitsOf(events) \subseteq 0..31
  BY EventsAssumption DEF BitsOf

LEMMA SilentTyped ==
  ASSUME Silent, UNCHANGED watched PROVE delivered' \in Deliveries'
  BY DEF Silent, Nothing, Deliveries, Pairs

LEMMA ReportTyped ==
  ASSUME TypeOK, Report, UNCHANGED watched
  PROVE  /\ latched' \subseteq 0..31 /\ happened' \subseteq watched
         /\ delivered' \in Deliveries'
  <1>1. latched' \subseteq 0..31 /\ happened' \subseteq watched
    BY DEF Report, TypeOK
  <1>2. NULL \in Pairs
    BY DEF Pairs
  <1>3. ASSUME NEW c \in Pairs, NEW a \in Pairs, Runs(c, a)
        PROVE delivered' \in Deliveries'
    BY <1>3 DEF Runs, Decode, TypeOK, Deliveries
  <1>4. CASE Silent
    BY <1>1, <1>4, SilentTyped
  <1> QED
    BY <1>1, <1>2, <1>3, <1>4 DEF Report, TypeOK

LEMMA TypeInductive == TypeOK /\ [Next]_vars => TypeOK'
  <1> SUFFICES ASSUME TypeOK, [Next]_vars PROVE TypeOK'
    OBVIOUS
  <1> USE SilentTyped DEF TypeOK, thread, struct, history
  <1>0. NULL \in Pairs
    BY DEF Pairs
  <1>1. ASSUME NEW r \in Pairs, Populate(r) \/ CallbackRegister(r)
        PROVE TypeOK'
    BY <1>0, <1>1 DEF Populate, CallbackRegister, Begin
  <1>2. ASSUME NEW f \in todo, Store(f) PROVE TypeOK'
    BY <1>0, <1>2 DEF Store
  <1>3. CASE PopulateEnds
    <2>1. BitsOf(watched) \subseteq 0..31
      BY BitsTyped
    <2> QED
      BY <1>0, <1>3, <2>1 DEF PopulateEnds, Populating, Accepted, EndCall
  <1>4. CASE RegisterEnds
    BY <1>0, <1>4 DEF RegisterEnds, Registering, Accepted, EndCall
  <1>5. ASSUME NEW events \in SUBSET watched,
               EventEnable(events) \/ EventDisable(events)
        PROVE TypeOK'
    <2>1. BitsOf(events) \subseteq 0..31
      BY BitsTyped
    <2> QED
      BY <1>0, <1>5, <2>1 DEF EventEnable, EventDisable
  <1>6. ASSUME NEW e \in watched, Raise(e) PROVE TypeOK'
    <2>1. BitsOf({e}) \subseteq 0..31
      BY BitsTyped
    <2> QED
      BY <1>0, <1>6, <2>1 DEF Raise
  <1>7. CASE HandleInterrupt
    BY <1>7, ReportTyped DEF HandleInterrupt
  <1>8. CASE ProviderReports
    BY <1>8, ReportTyped DEF ProviderReports
  <1>9. CASE UNCHANGED vars
    BY <1>9 DEF vars, Deliveries
  <1> QED
    BY <1>1, <1>2, <1>3, <1>4, <1>5, <1>6, <1>7, <1>8, <1>9 DEF Next

LEMMA TypeInitial == Init => TypeOK
  <1> SUFFICES ASSUME Init PROVE TypeOK
    OBVIOUS
  <1>1. delivered \in Deliveries
    BY DEF Init, Nothing, Deliveries, Pairs
  <1>2. /\ class \in Services /\ watched \subseteq DOMAIN Bits[class]
        /\ mask = {} /\ latched = {} /\ wanted = {} /\ happened = {}
    BY DEF Init
  <1>3. type = 0 /\ api = FALSE /\ refused = FALSE
    BY DEF Init
  <1>4. /\ cb = NULL /\ arg = NULL /\ handed = NULL /\ registered = NULL
        /\ call = "none" /\ val = NULL /\ todo = {}
    BY DEF Init
  <1> QED
    BY <1>1, <1>2, <1>3, <1>4 DEF TypeOK, Pairs

\* Every variable keeps its type, whatever bits the headers spell.
THEOREM TypeCorrect == Spec => []TypeOK
  BY TypeInitial, TypeInductive, PTL DEF Spec

-----------------------------------------------------------------------------
(* Callbacks.                                                              *)

\* Between calls the struct and the provider have whole pairs; in a call, a store
\* that has been made has stored its argument, and one that has not has left the
\* pair registered before.
PairInv ==
  /\ handed = registered
  /\ call = "none" => cb = arg /\ (~refused => cb = registered)
  /\ call # "none" =>
       /\ "cb" \notin todo => cb = val
       /\ "arg" \notin todo => arg = val
       /\ ~refused => cb \in {registered, val} /\ arg \in {registered, val}

LEMMA SilentSettled ==
  ASSUME Silent PROVE CallbackAsRegistered' /\ SettledCallbacks'
  BY DEF Silent, Nothing, CallbackAsRegistered, SettledCallbacks

\* What the interrupt or the provider reports between calls is a whole pair, the
\* last one registered.
LEMMA ReportSettled ==
  ASSUME UserArgArrives, TypeOK, PairInv, Report, UNCHANGED <<call, val>>
  PROVE  SettledCallbacks'
  <1> USE DEF PairInv, Runs, SettledCallbacks, CallbackAsRegistered
  <1>1. CASE Silent
    BY <1>1, SilentSettled
  <1>2. CASE Runs(cb, arg)
    BY <1>2
  <1>3. CASE Runs(handed, IF Received("user_arg") = {"user_arg"}
                          THEN handed ELSE NULL)
    <2>1. Received("user_arg") = {"user_arg"}
      BY DEF Received, UserArgArrives, TypeOK
    <2> QED
      BY <1>3, <2>1
  <1> QED
    BY <1>1, <1>2, <1>3 DEF Report

LEMMA PairInductive ==
  ASSUME UserArgArrives, TypeOK, PairInv, SettledCallbacks, [Next]_vars
  PROVE  PairInv' /\ SettledCallbacks'
  <1> USE SilentSettled DEF PairInv, thread, struct, history
  <1>1. ASSUME NEW r \in Pairs, Populate(r) \/ CallbackRegister(r)
        PROVE PairInv' /\ SettledCallbacks'
    BY <1>1
    DEF Populate, CallbackRegister, Begin, PopulateStores, RegisterStores
  <1>2. ASSUME NEW f \in todo, Store(f) PROVE PairInv' /\ SettledCallbacks'
    <2>1. call # "none"
      BY <1>2 DEF TypeOK
    <2> QED
      BY <1>2, <2>1 DEF Store
  <1>3. CASE PopulateEnds
    BY <1>3 DEF PopulateEnds, Populating, Accepted, EndCall
  <1>4. CASE RegisterEnds
    BY <1>4 DEF RegisterEnds, Registering, Accepted, EndCall
  <1>5. ASSUME NEW events \in SUBSET watched,
               EventEnable(events) \/ EventDisable(events)
        PROVE PairInv' /\ SettledCallbacks'
    BY <1>5 DEF EventEnable, EventDisable
  <1>6. ASSUME NEW e \in watched, Raise(e) PROVE PairInv' /\ SettledCallbacks'
    BY <1>6 DEF Raise
  <1>7. CASE HandleInterrupt \/ ProviderReports
    <2>1. SettledCallbacks'
      BY <1>7, ReportSettled DEF HandleInterrupt, ProviderReports
    <2> QED
      BY <1>7, <2>1 DEF HandleInterrupt, ProviderReports
  <1>8. CASE UNCHANGED vars
    BY <1>8 DEF vars, CallbackAsRegistered, SettledCallbacks
  <1> QED
    BY <1>1, <1>2, <1>3, <1>4, <1>5, <1>6, <1>7, <1>8 DEF Next

LEMMA PairInitial == Init => PairInv /\ SettledCallbacks
  BY DEF Init, PairInv, Nothing, CallbackAsRegistered, SettledCallbacks

\* Whether or not events are enabled when callbacks are registered, a callback
\* that runs between calls runs with its own argument and is the one registered
\* last, and one that runs in the middle of a call mixes at most the old pair
\* and the new, in every service whose callback has the parameters the HAL
\* passes.
THEOREM CallbacksSettle ==
  ASSUME UserArgArrives
  PROVE  Spec => []SettledCallbacks
<1>1. TypeOK /\ PairInv /\ SettledCallbacks /\ [Next]_vars
      => PairInv' /\ SettledCallbacks'
  BY PairInductive
<1> QED
  BY <1>1, PairInitial, TypeCorrect, PTL DEF Spec

\* With discipline no event is enabled, and nothing is delivered, while a call is
\* between its stores.
QuietInv == call # "none" => mask = {} /\ delivered = Nothing

LEMMA QuietInductive ==
  ASSUME Disciplined, TypeOK, QuietInv, [Next]_vars PROVE QuietInv'
  <1> USE DEF QuietInv, Silent, thread, struct, history
  <1>1. ASSUME NEW r \in Pairs, Populate(r) \/ CallbackRegister(r)
        PROVE QuietInv'
    BY <1>1 DEF Populate, CallbackRegister, Begin, Quiet, Nothing
  <1>2. ASSUME NEW f \in todo, Store(f) PROVE QuietInv'
    BY <1>2 DEF Store, TypeOK, Nothing
  <1>3. CASE PopulateEnds \/ RegisterEnds
    BY <1>3 DEF PopulateEnds, RegisterEnds, EndCall
  <1>4. ASSUME NEW events \in SUBSET watched,
               EventEnable(events) \/ EventDisable(events)
        PROVE QuietInv'
    BY <1>4 DEF EventEnable, EventDisable, Populated
  <1>5. ASSUME NEW e \in watched, Raise(e) PROVE QuietInv'
    BY <1>5 DEF Raise, Nothing
  <1>6. CASE HandleInterrupt \/ ProviderReports
    <2>1. UNCHANGED <<call, mask>> /\ Report
      BY <1>6 DEF HandleInterrupt, ProviderReports
    <2>2. latched \cap mask = {} => delivered' = Nothing
      BY <2>1 DEF Report
    <2> QED
      BY <2>1, <2>2 DEF Nothing
  <1>7. CASE UNCHANGED vars
    BY <1>7 DEF vars, Nothing
  <1> QED
    BY <1>1, <1>2, <1>3, <1>4, <1>5, <1>6, <1>7 DEF Next

\* An application that registers callbacks only while no event is enabled has
\* its callbacks run with their own arguments, whenever the interrupt comes,
\* in every service whose callback has the parameters the HAL passes.
THEOREM CallbacksRunAsRegistered ==
  ASSUME Disciplined, UserArgArrives
  PROVE  Spec => []CallbackAsRegistered
<1>1. Init => QuietInv
  BY DEF Init, QuietInv
<1>2. TypeOK /\ QuietInv /\ [Next]_vars => QuietInv'
  BY QuietInductive
<1>3. QuietInv /\ SettledCallbacks => CallbackAsRegistered
  BY DEF QuietInv, SettledCallbacks, CallbackAsRegistered, Nothing
<1> QED
  BY <1>1, <1>2, <1>3, CallbacksSettle, TypeCorrect, PTL DEF Spec

-----------------------------------------------------------------------------
(* Events.                                                                 *)

\* The masks are the bits of the events they stand for.
MaskInv ==
  /\ mask = BitsOf(wanted)
  /\ latched = BitsOf(happened)

\* With a bit of its own for each event, sets of bits and sets of events
\* correspond.
LEMMA BitsFaithful ==
  ASSUME BitsApart, class \in Services, watched \subseteq DOMAIN Bits[class],
         NEW A \in SUBSET watched, NEW B \in SUBSET watched
  PROVE  /\ Decode(BitsOf(A)) = A
         /\ BitsOf(A \cup B) = BitsOf(A) \cup BitsOf(B)
         /\ BitsOf(A \cap B) = BitsOf(A) \cap BitsOf(B)
         /\ BitsOf(A \ B) = BitsOf(A) \ BitsOf(B)
  <1>1. \A e, f \in watched : Bits[class][e] = Bits[class][f] => e = f
    BY DEF BitsApart
  <1>2. Decode(BitsOf(A)) = A
    BY <1>1 DEF Decode, BitsOf
  <1>3. BitsOf(A \cup B) = BitsOf(A) \cup BitsOf(B)
    BY DEF BitsOf
  <1>4. BitsOf(A \cap B) = BitsOf(A) \cap BitsOf(B)
    BY <1>1 DEF BitsOf
  <1>5. BitsOf(A \ B) = BitsOf(A) \ BitsOf(B)
    BY <1>1 DEF BitsOf
  <1> QED
    BY <1>2, <1>3, <1>4, <1>5

LEMMA SilentApart ==
  ASSUME Silent PROVE delivered'.events = delivered'.meant
  BY DEF Silent, Nothing

LEMMA ReportApart ==
  ASSUME BitsApart, TypeOK, MaskInv, Report, UNCHANGED <<class, mask, wanted>>
  PROVE  MaskInv' /\ delivered'.events = delivered'.meant
  <1>1. MaskInv'
    <2>1. latched' = BitsOf(happened \ wanted)
      BY BitsFaithful DEF Report, MaskInv, TypeOK
    <2> QED
      BY <2>1 DEF Report, MaskInv, BitsOf
  <1>2. ASSUME NEW c, NEW a, Runs(c, a)
        PROVE delivered'.events = delivered'.meant
    <2>1. Decode(latched \cap mask) = happened \cap wanted
      <3>1. latched \cap mask = BitsOf(happened \cap wanted)
        BY BitsFaithful DEF MaskInv, TypeOK
      <3> QED
        BY <3>1, BitsFaithful DEF TypeOK
    <2> QED
      BY <1>2, <2>1 DEF Runs
  <1> QED
    BY <1>1, <1>2, SilentApart DEF Report

LEMMA MaskInductive ==
  ASSUME BitsApart, TypeOK, MaskInv, delivered.events = delivered.meant,
         [Next]_vars
  PROVE  MaskInv' /\ delivered'.events = delivered'.meant
  <1> USE SilentApart DEF MaskInv, thread, struct, history
  <1>1. ASSUME NEW r \in Pairs, Populate(r) \/ CallbackRegister(r)
        PROVE MaskInv' /\ delivered'.events = delivered'.meant
    BY <1>1 DEF Populate, CallbackRegister, Begin, BitsOf
  <1>2. ASSUME NEW f \in todo, Store(f)
        PROVE MaskInv' /\ delivered'.events = delivered'.meant
    BY <1>2 DEF Store, BitsOf
  <1>3. CASE PopulateEnds \/ RegisterEnds
    BY <1>3 DEF PopulateEnds, RegisterEnds, BitsOf
  <1>4. ASSUME NEW events \in SUBSET watched, EventEnable(events)
        PROVE MaskInv' /\ delivered'.events = delivered'.meant
    <2>1. mask' = BitsOf(wanted')
      BY <1>4, BitsFaithful DEF EventEnable, TypeOK
    <2> QED
      BY <1>4, <2>1 DEF EventEnable, BitsOf
  <1>5. ASSUME NEW events \in SUBSET watched, EventDisable(events)
        PROVE MaskInv' /\ delivered'.events = delivered'.meant
    <2>1. mask' = BitsOf(wanted')
      BY <1>5, BitsFaithful DEF EventDisable, TypeOK
    <2> QED
      BY <1>5, <2>1 DEF EventDisable, BitsOf
  <1>6. ASSUME NEW e \in watched, Raise(e)
        PROVE MaskInv' /\ delivered'.events = delivered'.meant
    <2>1. latched' = BitsOf(happened')
      <3>1. {e} \in SUBSET watched /\ happened \in SUBSET watched
        BY DEF TypeOK
      <3>2. BitsOf(happened \cup {e}) = BitsOf(happened) \cup BitsOf({e})
        BY <3>1, BitsFaithful DEF TypeOK
      <3> QED
        BY <1>6, <3>2 DEF Raise
    <2> QED
      BY <1>6, <2>1 DEF Raise, BitsOf
  <1>7. CASE HandleInterrupt \/ ProviderReports
    BY <1>7, ReportApart DEF HandleInterrupt, ProviderReports
  <1>8. CASE UNCHANGED vars
    BY <1>8 DEF vars, BitsOf
  <1> QED
    BY <1>1, <1>2, <1>3, <1>4, <1>5, <1>6, <1>7, <1>8 DEF Next

\* If no two events of a service share a bit, event_get reads back as the
\* events enabled, and a callback is told of exactly those that happened.
THEOREM EventsStayApart ==
  ASSUME BitsApart
  PROVE  Spec => []EventsApart
<1>1. Init => MaskInv /\ delivered.events = delivered.meant
  BY DEF Init, MaskInv, Nothing, BitsOf
<1>2. TypeOK /\ MaskInv /\ delivered.events = delivered.meant /\ [Next]_vars
      => MaskInv' /\ (delivered.events = delivered.meant)'
  BY MaskInductive
<1>3. TypeOK /\ MaskInv /\ delivered.events = delivered.meant => EventsApart
  BY BitsFaithful DEF MaskInv, EventsApart, TypeOK
<1> QED
  BY <1>1, <1>2, <1>3, TypeCorrect, PTL DEF Spec

-----------------------------------------------------------------------------
(* The headers of this repository.                                         *)

H == INSTANCE SalHeaders_proofs

\* The services are some of the 19 with events, with the bits their headers
\* give the events.
RealEvents ==
  /\ Services \subseteq DOMAIN H!EventBits
  /\ \A s \in Services : Bits[s] = H!EventBits[s]

\* Their callbacks have the parameters the headers declare, and the HAL passes
\* what the AT parser, which takes its type, declares.
RealCallbacks ==
  /\ Services \subseteq DOMAIN H!EventBits
  /\ \A s \in Services : Params[s] = H!CallbackParams[s]
  /\ HalParams = H!UsualParams

LEMMA RealBits == ASSUME RealEvents PROVE BitsApart
  BY H!EventBitsApart DEF H!OneBitPerEvent, RealEvents, BitsApart

LEMMA RealUserArg ==
  ASSUME RealCallbacks PROVE UserArgArrives <=> "Transport" \notin Services
  <1>1. ASSUME NEW s \in Services
        PROVE  {HalParams[k] : k \in {j \in DOMAIN Params[s] :
                                        Params[s][j] = "user_arg"}
                                     \cap DOMAIN HalParams}
                 = IF s = "Transport" THEN {} ELSE {"user_arg"}
    BY H!OnlyTransportLosesArgument DEF H!UserArg, RealCallbacks
  <1> QED
    BY <1>1 DEF UserArgArrives

\* With the event enumerations as they are, event_get reads back as the events
\* enabled, and a callback is told of exactly those that happened.
THEOREM RealEventsStayApart ==
  ASSUME RealEvents PROVE Spec => []EventsApart
  BY RealBits, EventsStayApart

\* With the callback types as they are, the callbacks of any service but the
\* transport run between calls as registered.
THEOREM RealCallbacksSettle ==
  ASSUME RealCallbacks, "Transport" \notin Services
  PROVE  Spec => []SettledCallbacks
  BY RealUserArg, CallbacksSettle

\* A disciplined application of these services has its callbacks run as
\* registered.
THEOREM RealCallbacksRunAsRegistered ==
  ASSUME RealCallbacks, "Transport" \notin Services, Disciplined
  PROVE  Spec => []CallbackAsRegistered
  BY RealUserArg, CallbacksRunAsRegistered
=============================================================================
