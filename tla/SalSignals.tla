----------------------------- MODULE SalSignals -----------------------------
(***************************************************************************)
(* What the service headers say about events, as data: the bits of every   *)
(* event enumeration, and the parameters of the callback that reports      *)
(* them. LED, logging, key-value, file system, collection and serialization *)
(* declare no events.                                                      *)
(***************************************************************************)
EXTENDS Naturals

AccelerometerEvents ==
  [DATA_READY |-> 0, FREEFALL |-> 1, WAKEUP |-> 2, SINGLE_TAP |-> 3,
   DOUBLE_TAP |-> 4]

AmbientLightEvents ==
  [DATA_READY |-> 0, THRESHOLD_HIGH |-> 1, THRESHOLD_LOW |-> 2]

BatteryEvents ==
  [CHARGING |-> 0, DISCHARGING |-> 1, FULL |-> 2, LOW |-> 3, CRITICAL |-> 4]

ButtonEvents ==
  [PRESSED |-> 0, RELEASED |-> 1, LONG_PRESS |-> 2, DOUBLE_CLICK |-> 3]

ColorEvents ==
  [DATA_READY |-> 0, THRESHOLD_HIGH |-> 1, THRESHOLD_LOW |-> 2]

DisplayEvents ==
  [REFRESH_DONE |-> 0]

GNSSEvents ==
  [FIX_ACQUIRED |-> 0, FIX_LOST |-> 1, DATA_READY |-> 2]

GSMEvents ==
  [POWERED_ON |-> 0, NETWORK_REGISTERED |-> 1, SMS_RECEIVED |-> 2,
   CALL_INCOMING |-> 3, MQTT_CONNECTED |-> 4]

GyroscopeEvents ==
  [DATA_READY |-> 0, WAKEUP |-> 1]

HumidityEvents ==
  [DATA_READY |-> 0]

MagnetometerEvents ==
  [DATA_READY |-> 0]

PressureEvents ==
  [DATA_READY |-> 0]

\* Slip: CLOSE given the bit of the AWAY above it.
ProximityCloseIsAway ==
  [DATA_READY |-> 0, THRESHOLD_HIGH |-> 1, THRESHOLD_LOW |-> 2, AWAY |-> 3,
   CLOSE |-> 3]

ProximityEvents ==
  [DATA_READY |-> 0, THRESHOLD_HIGH |-> 1, THRESHOLD_LOW |-> 2, AWAY |-> 3,
   CLOSE |-> 4]

TemperatureEvents ==
  [DATA_READY |-> 0, THRESHOLD_HIGH |-> 1, THRESHOLD_LOW |-> 2]

ConnectionEvents ==
  [CONNECTED |-> 0, DISCONNECTED |-> 1, LINK_LOST |-> 2]

TransportEvents ==
  [TX_COMPLETE |-> 0, RX_READY |-> 1, BUFFER_OVERFLOW |-> 2]

AtParserEvents ==
  [URC_RECEIVED |-> 0]

CLIEvents ==
  [CMD_START |-> 0, CMD_DONE |-> 1]

TimekeepingEvents ==
  [SYNC_OK |-> 0, SYNC_FAILED |-> 1]

\* service |-> (event |-> its bit of the 32-bit event mask)
EventBits ==
  [ Accelerometer |-> AccelerometerEvents,
    AmbientLight |-> AmbientLightEvents,
    Battery |-> BatteryEvents,
    Button |-> ButtonEvents,
    Color |-> ColorEvents,
    Display |-> DisplayEvents,
    GNSS |-> GNSSEvents,
    GSM |-> GSMEvents,
    Gyroscope |-> GyroscopeEvents,
    Humidity |-> HumidityEvents,
    Magnetometer |-> MagnetometerEvents,
    Pressure |-> PressureEvents,
    Proximity |-> ProximityEvents,
    Temperature |-> TemperatureEvents,
    Connection |-> ConnectionEvents,
    Transport |-> TransportEvents,
    AtParser |-> AtParserEvents,
    CLI |-> CLIEvents,
    Timekeeping |-> TimekeepingEvents ]

\* The parameters of a service's callback. All but one service declare the
\* four of the others; the AT parser takes the HAL's callback type itself.
UsualParams == <<"driver", "event", "error", "user_arg">>
TransportParams == <<"driver", "event", "error", "data_len", "user_arg">>
CallbackParams ==
  [s \in DOMAIN EventBits |->
     IF s = "Transport" THEN TransportParams ELSE UsualParams]
=============================================================================
