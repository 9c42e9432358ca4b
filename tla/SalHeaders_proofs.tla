--------------------------- MODULE SalHeaders_proofs ---------------------------
(***************************************************************************)
(* What the 25 headers' tables of SalCatalog and SalSignals guarantee: the *)
(* facts about tags, slots, event bits and callback types on which the     *)
(* theorems about SalDriver and SalEvents rest, proved of the real tables. *)
(***************************************************************************)
EXTENDS SalCatalog, SalSignals, TLAPS

-----------------------------------------------------------------------------
(* The rows of the catalog.                                                *)

LEMMA TheServices ==
  ServiceNames =
    {"Accelerometer", "AmbientLight", "Battery", "Button", "Color",
     "Display", "GNSS", "GSM", "Gyroscope", "Humidity", "LED",
     "Magnetometer", "Pressure", "Proximity", "Temperature", "Connection",
     "Transport", "AtParser", "CLI", "Collection", "Filesystem",
     "KeyValue", "Logging", "Serialization", "Timekeeping"}
  BY DEF ServiceNames, Catalog

LEMMA TheTags ==
  /\ Catalog["Accelerometer"].tag = FourCC("A", "C", "L")
  /\ Catalog["AmbientLight"].tag = FourCC("L", "U", "X")
  /\ Catalog["Battery"].tag = FourCC("B", "A", "T")
  /\ Catalog["Button"].tag = FourCC("B", "T", "N")
  /\ Catalog["Color"].tag = FourCC("C", "L", "R")
  /\ Catalog["Display"].tag = FourCC("D", "S", "P")
  /\ Catalog["GNSS"].tag = FourCC("G", "N", "S")
  /\ Catalog["GSM"].tag = FourCC("G", "S", "M")
  /\ Catalog["Gyroscope"].tag = FourCC("G", "Y", "R")
  /\ Catalog["Humidity"].tag = FourCC("H", "U", "M")
  /\ Catalog["LED"].tag = FourCC("L", "E", "D")
  /\ Catalog["Magnetometer"].tag = FourCC("M", "A", "G")
  /\ Catalog["Pressure"].tag = FourCC("B", "A", "R")
  /\ Catalog["Proximity"].tag = FourCC("P", "R", "X")
  /\ Catalog["Temperature"].tag = FourCC("T", "M", "P")
  /\ Catalog["Connection"].tag = FourCC("C", "O", "N")
  /\ Catalog["Transport"].tag = FourCC("T", "P", "T")
  /\ Catalog["AtParser"].tag = FourCC("A", "T", "P")
  /\ Catalog["CLI"].tag = FourCC("C", "L", "I")
  /\ Catalog["Collection"].tag = FourCC("C", "O", "L")
  /\ Catalog["Filesystem"].tag = FourCC("F", "S", "S")
  /\ Catalog["KeyValue"].tag = FourCC("K", "V", "S")
  /\ Catalog["Logging"].tag = FourCC("L", "O", "G")
  /\ Catalog["Serialization"].tag = FourCC("S", "E", "R")
  /\ Catalog["Timekeeping"].tag = FourCC("T", "I", "M")
  BY Zenon
  DEF Catalog, Service,
      Accelerometer, AmbientLight, Battery, Button, Color, Display, GNSS,
      GSM, Gyroscope, Humidity, LED, Magnetometer, Pressure, Proximity,
      Temperature, Connection, Transport, AtParser, CLI, Collection,
      Filesystem, KeyValue, Logging, Serialization, Timekeeping

LEMMA TheCalls ==
  /\ Catalog["Accelerometer"].calls = AccelerometerCalls
  /\ Catalog["AmbientLight"].calls = AmbientLightCalls
  /\ Catalog["Battery"].calls = BatteryCalls
  /\ Catalog["Button"].calls = ButtonCalls
  /\ Catalog["Color"].calls = ColorCalls
  /\ Catalog["Display"].calls = DisplayCalls
  /\ Catalog["GNSS"].calls = GNSSCalls
  /\ Catalog["GSM"].calls = GSMCalls
  /\ Catalog["Gyroscope"].calls = GyroscopeCalls
  /\ Catalog["Humidity"].calls = HumidityCalls
  /\ Catalog["LED"].calls = LEDCalls
  /\ Catalog["Magnetometer"].calls = MagnetometerCalls
  /\ Catalog["Pressure"].calls = PressureCalls
  /\ Catalog["Proximity"].calls = ProximityCalls
  /\ Catalog["Temperature"].calls = TemperatureCalls
  /\ Catalog["Connection"].calls = ConnectionCalls
  /\ Catalog["Transport"].calls = TransportCalls
  /\ Catalog["AtParser"].calls = AtParserCalls
  /\ Catalog["CLI"].calls = CLICalls
  /\ Catalog["Collection"].calls = CollectionCalls
  /\ Catalog["Filesystem"].calls = FilesystemCalls
  /\ Catalog["KeyValue"].calls = KeyValueCalls
  /\ Catalog["Logging"].calls = LoggingCalls
  /\ Catalog["Serialization"].calls = SerializationCalls
  /\ Catalog["Timekeeping"].calls = TimekeepingCalls
  BY Zenon
  DEF Catalog, Service,
      Accelerometer, AmbientLight, Battery, Button, Color, Display, GNSS,
      GSM, Gyroscope, Humidity, LED, Magnetometer, Pressure, Proximity,
      Temperature, Connection, Transport, AtParser, CLI, Collection,
      Filesystem, KeyValue, Logging, Serialization, Timekeeping

-----------------------------------------------------------------------------
(* Tags.                                                                   *)

\* The tags are spelled by hand in 25 headers: none is the tag of a zeroed
\* driver, and no two services have the same.
THEOREM TagsApart ==
  /\ \A s \in ServiceNames : Catalog[s].tag \in Nat \ {0}
  /\ \A s, t \in ServiceNames : Catalog[s].tag = Catalog[t].tag => s = t
  <1>1. /\ Catalog["Accelerometer"].tag = 1279476051
        /\ Catalog["AmbientLight"].tag = 1481985107
        /\ Catalog["Battery"].tag = 1413562963
        /\ Catalog["Button"].tag = 1314144851
        /\ Catalog["Color"].tag = 1380729683
        /\ Catalog["Display"].tag = 1347634259
        /\ Catalog["GNSS"].tag = 1397638995
        /\ Catalog["GSM"].tag = 1297303379
        /\ Catalog["Gyroscope"].tag = 1381582675
        /\ Catalog["Humidity"].tag = 1297434707
        /\ Catalog["LED"].tag = 1145392211
        /\ Catalog["Magnetometer"].tag = 1195461971
        /\ Catalog["Pressure"].tag = 1380008531
        /\ Catalog["Proximity"].tag = 1481789523
        /\ Catalog["Temperature"].tag = 1347245139
        /\ Catalog["Connection"].tag = 1313817427
        /\ Catalog["Transport"].tag = 1414550611
        /\ Catalog["AtParser"].tag = 1347699027
        /\ Catalog["CLI"].tag = 1229734739
        /\ Catalog["Collection"].tag = 1280262995
        /\ Catalog["Filesystem"].tag = 1397966419
        /\ Catalog["KeyValue"].tag = 1398164307
        /\ Catalog["Logging"].tag = 1196379219
        /\ Catalog["Serialization"].tag = 1380275027
        /\ Catalog["Timekeeping"].tag = 1296651347
    BY TheTags, SMT DEF FourCC, Ascii
  <1>2. \A s \in ServiceNames : Catalog[s].tag \in Nat \ {0}
    BY <1>1, TheServices, SMT
  <1>3. \A s, t \in ServiceNames : Catalog[s].tag = Catalog[t].tag => s = t
    BY <1>1, TheServices, SMTT(60)
  <1> QED
    BY <1>2, <1>3

-----------------------------------------------------------------------------
(* Slots.                                                                  *)

\* The slots the lifecycle wrappers and the interrupt dispatcher go through,
\* each by its own name.
LifecycleSlots ==
  {"init", "deinit", "config_set", "callback_register", "handle_interrupt"}
    \cup Forwarded

\* config_get has no slot: it reads the struct.
LifecycleWrappers == LifecycleSlots \cup {"config_get"}

\* Every slot is named by one wrapper, lifecycle and service wrappers taken
\* together; and every wrapper has a name of its own.
OneWrapperPerSlot(calls) ==
  /\ DOMAIN calls \cap LifecycleWrappers = {}
  /\ \A v \in DOMAIN calls : calls[v] \notin LifecycleSlots
  /\ \A v, w \in DOMAIN calls : calls[v] = calls[w] => v = w

LEMMA SameNamesApart ==
  ASSUME NEW names, names \cap LifecycleWrappers = {}
  PROVE  OneWrapperPerSlot(Same(names))
  BY DEF Same, OneWrapperPerSlot, LifecycleWrappers

\* No header has two wrappers that call the same slot, be they service wrappers
\* or the ones every header repeats.
THEOREM SlotsApart ==
  \A s \in ServiceNames : OneWrapperPerSlot(Catalog[s].calls)
  <1>1. OneWrapperPerSlot(AmbientLightCalls)
    BY SameNamesApart
    DEF AmbientLightCalls, LifecycleWrappers, LifecycleSlots, Forwarded
  <1>2. OneWrapperPerSlot(BatteryCalls)
    BY SameNamesApart
    DEF BatteryCalls, LifecycleWrappers, LifecycleSlots, Forwarded
  <1>3. OneWrapperPerSlot(ButtonCalls)
    BY SameNamesApart
    DEF ButtonCalls, LifecycleWrappers, LifecycleSlots, Forwarded
  <1>4. OneWrapperPerSlot(ColorCalls)
    BY SameNamesApart
    DEF ColorCalls, LifecycleWrappers, LifecycleSlots, Forwarded
  <1>5. OneWrapperPerSlot(DisplayCalls)
    BY SameNamesApart
    DEF DisplayCalls, LifecycleWrappers, LifecycleSlots, Forwarded
  <1>6. OneWrapperPerSlot(GNSSCalls)
    BY SameNamesApart
    DEF GNSSCalls, LifecycleWrappers, LifecycleSlots, Forwarded
  <1>7. OneWrapperPerSlot(GSMCalls)
    BY SameNamesApart
    DEF GSMCalls, LifecycleWrappers, LifecycleSlots, Forwarded
  <1>8. OneWrapperPerSlot(GyroscopeCalls)
    BY SameNamesApart
    DEF GyroscopeCalls, LifecycleWrappers, LifecycleSlots, Forwarded
  <1>9. OneWrapperPerSlot(LEDCalls)
    BY SameNamesApart
    DEF LEDCalls, LifecycleWrappers, LifecycleSlots, Forwarded
  <1>10. OneWrapperPerSlot(MagnetometerCalls)
    BY SameNamesApart
    DEF MagnetometerCalls, LifecycleWrappers, LifecycleSlots, Forwarded
  <1>11. OneWrapperPerSlot(ProximityCalls)
    BY SameNamesApart
    DEF ProximityCalls, LifecycleWrappers, LifecycleSlots, Forwarded
  <1>12. OneWrapperPerSlot(TemperatureCalls)
    BY SameNamesApart
    DEF TemperatureCalls, LifecycleWrappers, LifecycleSlots, Forwarded
  <1>13. OneWrapperPerSlot(ConnectionCalls)
    BY SameNamesApart
    DEF ConnectionCalls, LifecycleWrappers, LifecycleSlots, Forwarded
  <1>14. OneWrapperPerSlot(TransportCalls)
    BY SameNamesApart
    DEF TransportCalls, LifecycleWrappers, LifecycleSlots, Forwarded
  <1>15. OneWrapperPerSlot(AtParserCalls)
    BY SameNamesApart
    DEF AtParserCalls, LifecycleWrappers, LifecycleSlots, Forwarded
  <1>16. OneWrapperPerSlot(CollectionCalls)
    BY SameNamesApart
    DEF CollectionCalls, LifecycleWrappers, LifecycleSlots, Forwarded
  <1>17. OneWrapperPerSlot(FilesystemCalls)
    BY SameNamesApart
    DEF FilesystemCalls, LifecycleWrappers, LifecycleSlots, Forwarded
  <1>18. OneWrapperPerSlot(KeyValueCalls)
    BY SameNamesApart
    DEF KeyValueCalls, LifecycleWrappers, LifecycleSlots, Forwarded
  <1>19. OneWrapperPerSlot(LoggingCalls)
    BY SameNamesApart
    DEF LoggingCalls, LifecycleWrappers, LifecycleSlots, Forwarded
  <1>20. OneWrapperPerSlot(SerializationCalls)
    BY SameNamesApart
    DEF SerializationCalls, LifecycleWrappers, LifecycleSlots, Forwarded
  <1>21. OneWrapperPerSlot(TimekeepingCalls)
    BY SameNamesApart
    DEF TimekeepingCalls, LifecycleWrappers, LifecycleSlots, Forwarded
  <1>22. OneWrapperPerSlot(AccelerometerCalls)
    BY DEF AccelerometerCalls, SameBut, OneWrapperPerSlot,
           LifecycleWrappers, LifecycleSlots, Forwarded
  <1>23. OneWrapperPerSlot(HumidityCalls)
    BY DEF HumidityCalls, SameBut, OneWrapperPerSlot,
           LifecycleWrappers, LifecycleSlots, Forwarded
  <1>24. OneWrapperPerSlot(PressureCalls)
    BY DEF PressureCalls, SameBut, OneWrapperPerSlot,
           LifecycleWrappers, LifecycleSlots, Forwarded
  <1>25. OneWrapperPerSlot(CLICalls)
    BY DEF CLICalls, SameBut, OneWrapperPerSlot,
           LifecycleWrappers, LifecycleSlots, Forwarded
  <1> QED
    BY TheServices, TheCalls,
       <1>1, <1>2, <1>3, <1>4, <1>5, <1>6, <1>7, <1>8, <1>9, <1>10, <1>11,
       <1>12, <1>13, <1>14, <1>15, <1>16, <1>17, <1>18, <1>19, <1>20,
       <1>21, <1>22, <1>23, <1>24, <1>25

-----------------------------------------------------------------------------
(* Events.                                                                 *)

LEMMA TheEvents ==
  DOMAIN EventBits =
    {"Accelerometer", "AmbientLight", "Battery", "Button", "Color",
     "Display", "GNSS", "GSM", "Gyroscope", "Humidity", "Magnetometer",
     "Pressure", "Proximity", "Temperature", "Connection", "Transport",
     "AtParser", "CLI", "Timekeeping"}
  BY DEF EventBits

\* The events of a service have bits of their own, within 32 bits.
OneBitPerEvent(bits) ==
  /\ \A e \in DOMAIN bits : bits[e] \in 0..31
  /\ \A e, f \in DOMAIN bits : bits[e] = bits[f] => e = f

\* No header gives two events the same bit.
THEOREM EventBitsApart ==
  \A s \in DOMAIN EventBits : OneBitPerEvent(EventBits[s])
  <1>1. OneBitPerEvent(AccelerometerEvents)
    BY DEF AccelerometerEvents, OneBitPerEvent
  <1>2. OneBitPerEvent(AmbientLightEvents)
    BY DEF AmbientLightEvents, OneBitPerEvent
  <1>3. OneBitPerEvent(BatteryEvents)
    BY DEF BatteryEvents, OneBitPerEvent
  <1>4. OneBitPerEvent(ButtonEvents)
    BY DEF ButtonEvents, OneBitPerEvent
  <1>5. OneBitPerEvent(ColorEvents)
    BY DEF ColorEvents, OneBitPerEvent
  <1>6. OneBitPerEvent(DisplayEvents)
    BY DEF DisplayEvents, OneBitPerEvent
  <1>7. OneBitPerEvent(GNSSEvents)
    BY DEF GNSSEvents, OneBitPerEvent
  <1>8. OneBitPerEvent(GSMEvents)
    BY DEF GSMEvents, OneBitPerEvent
  <1>9. OneBitPerEvent(GyroscopeEvents)
    BY DEF GyroscopeEvents, OneBitPerEvent
  <1>10. OneBitPerEvent(HumidityEvents)
    BY DEF HumidityEvents, OneBitPerEvent
  <1>11. OneBitPerEvent(MagnetometerEvents)
    BY DEF MagnetometerEvents, OneBitPerEvent
  <1>12. OneBitPerEvent(PressureEvents)
    BY DEF PressureEvents, OneBitPerEvent
  <1>13. OneBitPerEvent(ProximityEvents)
    BY DEF ProximityEvents, OneBitPerEvent
  <1>14. OneBitPerEvent(TemperatureEvents)
    BY DEF TemperatureEvents, OneBitPerEvent
  <1>15. OneBitPerEvent(ConnectionEvents)
    BY DEF ConnectionEvents, OneBitPerEvent
  <1>16. OneBitPerEvent(TransportEvents)
    BY DEF TransportEvents, OneBitPerEvent
  <1>17. OneBitPerEvent(AtParserEvents)
    BY DEF AtParserEvents, OneBitPerEvent
  <1>18. OneBitPerEvent(CLIEvents)
    BY DEF CLIEvents, OneBitPerEvent
  <1>19. OneBitPerEvent(TimekeepingEvents)
    BY DEF TimekeepingEvents, OneBitPerEvent
  <1> QED
    BY TheEvents,
       <1>1, <1>2, <1>3, <1>4, <1>5, <1>6, <1>7, <1>8, <1>9, <1>10, <1>11,
       <1>12, <1>13, <1>14, <1>15, <1>16, <1>17, <1>18, <1>19
    DEF EventBits

-----------------------------------------------------------------------------
(* Callbacks.                                                              *)

\* What a callback declared with params finds in user_arg, called as halParams.
UserArg(params, halParams) ==
  {halParams[k] : k \in {j \in DOMAIN params : params[j] = "user_arg"}
                          \cap DOMAIN halParams}

\* The fifth parameter of the transport's callback, in front of user_arg, moves
\* it out of reach.
LEMMA OnlyTransportLosesArgument ==
  \A s \in DOMAIN EventBits :
    UserArg(CallbackParams[s], UsualParams) =
      IF s = "Transport" THEN {} ELSE {"user_arg"}
  <1>1. UserArg(UsualParams, UsualParams) = {"user_arg"}
    BY DEF UserArg, UsualParams
  <1>2. UserArg(TransportParams, UsualParams) = {}
    BY DEF UserArg, UsualParams, TransportParams
  <1> QED
    BY <1>1, <1>2 DEF CallbackParams
=============================================================================
