----------------------------- MODULE SalCatalog -----------------------------
(***************************************************************************)
(* The 25 service interfaces of Caffeine-SAL as data: for every header of  *)
(* include/devices, include/network and include/utilities that declares a  *)
(* driver type, its FourCC tag, the lifecycle wrappers it defines, and the *)
(* virtual-method-table slot that each of its service wrappers calls.      *)
(*                                                                         *)
(* The behaviour of the wrappers is the same in all headers and is module  *)
(* SalDriver; what differs from header to header is exactly this table.    *)
(***************************************************************************)
EXTENDS Naturals

\* ASCII codes of the letters the tags are made of.
Ascii == [A |-> 65, B |-> 66, C |-> 67, D |-> 68, E |-> 69, F |-> 70,
          G |-> 71, H |-> 72, I |-> 73, J |-> 74, K |-> 75, L |-> 76,
          M |-> 77, N |-> 78, O |-> 79, P |-> 80, Q |-> 81, R |-> 82,
          S |-> 83, T |-> 84, U |-> 85, V |-> 86, W |-> 87, X |-> 88,
          Y |-> 89, Z |-> 90]

\* CFN_SAL_TYPE: four characters packed in a uint32_t, the service prefix 'S'
\* in the lowest byte.
FourCC(a, b, c) ==
  Ascii["S"] + Ascii[a] * 2^8 + Ascii[b] * 2^16 + Ascii[c] * 2^24

\* The lifecycle wrappers of a complete header, all forwarding to the HAL base.
Forwarded == {"power_state_set", "event_enable", "event_disable", "event_get",
            "error_enable", "error_disable", "error_get"}
AllGeneric == {"init", "deinit", "config_set", "config_get",
               "callback_register"} \cup Forwarded

\* tag: FourCC; generic: the lifecycle wrappers the header defines; interrupt:
\* it defines handle_interrupt; calls: service wrapper |-> slot it calls. Slots
\* no wrapper calls (five of the magnetometer's) are left out.
Service(tag, generic, interrupt, calls) ==
  [tag |-> tag, generic |-> generic, interrupt |-> interrupt, calls |-> calls]

\* Wrappers named like the slot they call ...
Same(names) == [w \in names |-> w]

\* ... but for those that renamed maps to theirs.
SameBut(renamed, names) ==
  [w \in DOMAIN renamed \cup names |->
     IF w \in DOMAIN renamed THEN renamed[w] ELSE w]

\* Slip: the raw-sample wrapper copied from its neighbour and left calling the
\* neighbour's slot.
RawCopiedFromMg ==
  SameBut([read_mg |-> "read_xyz_mg", read_raw |-> "read_xyz_mg"],
          {"read_fifo", "get_status", "read_step_counter",
           "read_6d_orientation", "get_id"})

AccelerometerCalls ==
  SameBut([read_mg |-> "read_xyz_mg", read_raw |-> "read_xyz_raw"],
          {"read_fifo", "get_status", "read_step_counter",
           "read_6d_orientation", "get_id"})

Accelerometer ==
  Service(FourCC("A", "C", "L"), AllGeneric, TRUE, AccelerometerCalls)

AmbientLightCalls ==
  Same({"read_lux", "read_raw", "read_channels", "get_status", "get_id"})

AmbientLight ==
  Service(FourCC("L", "U", "X"), AllGeneric, TRUE, AmbientLightCalls)

BatteryCalls ==
  Same({"get_voltage", "get_percentage", "get_current",
        "get_remaining_capacity", "get_status", "get_temperature",
        "read_current_ma", "read_capacity_mah", "read_state_of_charge",
        "get_charge_state"})

Battery ==
  Service(FourCC("B", "A", "T"), AllGeneric, FALSE, BatteryCalls)

ButtonCalls ==
  Same({"get_state", "set_debounce_time", "is_pressed", "is_released",
        "get_click_count", "get_hold_time_ms"})

Button ==
  Service(FourCC("B", "T", "N"), AllGeneric, FALSE, ButtonCalls)

ColorCalls ==
  Same({"read_xyz", "read_cct", "read_raw_channels", "get_status", "get_id"})

Color ==
  Service(FourCC("C", "L", "R"), AllGeneric, TRUE, ColorCalls)

DisplayCalls ==
  Same({"turn_on", "turn_off", "set_brightness", "draw_pixel", "fill_rect",
        "draw_bitmap", "clear", "update", "set_backlight", "draw_line",
        "draw_rect", "clear_window", "set_cursor", "write_data",
        "write_command", "set_orientation"})

Display ==
  Service(FourCC("D", "S", "P"), AllGeneric, FALSE, DisplayCalls)

GNSSCalls ==
  Same({"power_on", "power_off", "get_location", "get_time",
        "get_satellites_in_view", "set_fix_rate", "cold_start",
        "warm_start", "hot_start", "get_hdop", "get_time_utc",
        "get_speed_knots", "get_heading_degrees", "set_power_mode"})

GNSS ==
  Service(FourCC("G", "N", "S"), AllGeneric, FALSE, GNSSCalls)

GSMCalls ==
  Same({"power_on", "power_off", "reset", "get_signal_quality",
        "get_network_status", "send_sms", "http_get", "mqtt_publish",
        "get_imei", "get_imsi", "get_iccid", "get_operator",
        "get_signal_quality_csq", "read_sms", "dial", "answer", "hangup"})

GSM ==
  Service(FourCC("G", "S", "M"), AllGeneric, FALSE, GSMCalls)

GyroscopeCalls ==
  Same({"read_xyz_mdps", "read_xyz_raw", "read_fifo", "get_status", "get_id"})

Gyroscope ==
  Service(FourCC("G", "Y", "R"), AllGeneric, TRUE, GyroscopeCalls)

HumidityCalls ==
  SameBut([read_rh |-> "read_relative_humidity"],
          {"read_raw", "start_conversion", "get_status", "enable_heater",
           "soft_reset", "get_id"})

Humidity ==
  Service(FourCC("H", "U", "M"), AllGeneric, TRUE, HumidityCalls)

LEDCalls ==
  Same({"set_state", "get_state", "toggle", "set_brightness",
        "get_brightness", "set_color", "blink_start", "blink_stop",
        "set_blink"})

LED ==
  Service(FourCC("L", "E", "D"), AllGeneric, FALSE, LEDCalls)

MagnetometerCalls ==
  Same({"read_xyz_ugauss", "set_range", "set_mode"})

Magnetometer ==
  Service(FourCC("M", "A", "G"), {"init", "deinit"}, FALSE, MagnetometerCalls)

PressureCalls ==
  SameBut([get_altitude |-> "get_altitude_m"],
          {"read_hpa", "read_raw", "start_conversion", "get_status", "get_id"})

\* Slip: the barometer tagged like the battery.
BarometerTaggedAsBattery ==
  Service(FourCC("B", "A", "T"), AllGeneric, TRUE, PressureCalls)

Pressure ==
  Service(FourCC("B", "A", "R"), AllGeneric, TRUE, PressureCalls)

ProximityCalls ==
  Same({"read_distance_mm", "read_raw", "get_status", "get_id"})

Proximity ==
  Service(FourCC("P", "R", "X"), AllGeneric, TRUE, ProximityCalls)

TemperatureCalls ==
  Same({"read_celsius", "read_fahrenheit", "read_raw", "start_conversion",
        "get_status", "enable_heater", "soft_reset", "get_id"})

Temperature ==
  Service(FourCC("T", "M", "P"), AllGeneric, TRUE, TemperatureCalls)

ConnectionCalls ==
  Same({"connect", "disconnect", "get_status", "get_info", "scan_networks",
        "get_mac_address", "get_ip_address", "get_gateway", "get_dns",
        "set_static_ip"})

Connection ==
  Service(FourCC("C", "O", "N"), AllGeneric, FALSE, ConnectionCalls)

TransportCalls ==
  Same({"send", "receive", "send_async", "receive_async", "flush",
        "flush_rx", "flush_tx", "listen", "accept", "get_bytes_available"})

Transport ==
  Service(FourCC("T", "P", "T"), AllGeneric, FALSE, TransportCalls)

AtParserCalls ==
  Same({"send_command", "send_data", "read_response", "register_urc",
        "unregister_urc", "set_echo", "flush_rx", "send_command_wait_resp",
        "register_urc_simple", "set_timeout"})

AtParser ==
  Service(FourCC("A", "T", "P"), AllGeneric, FALSE, AtParserCalls)

CLICalls ==
  SameBut([print |-> "print_string"],
          {"feed_char", "print_line", "register_command", "unregister_command",
           "set_prompt", "clear_screen", "register_command_simple",
           "print_help", "history_prev", "history_next"})

CLI ==
  Service(FourCC("C", "L", "I"), AllGeneric, FALSE, CLICalls)

CollectionCalls ==
  Same({"push_back", "push_front", "insert_at", "pop_back", "pop_front",
        "remove_at", "peek_back", "peek_front", "peek_at", "get_size",
        "get_capacity", "is_empty", "is_full", "clear", "find", "sort"})

Collection ==
  Service(FourCC("C", "O", "L"), AllGeneric, FALSE, CollectionCalls)

FilesystemCalls ==
  Same({"mount", "unmount", "open", "close", "read", "write", "format",
        "seek", "tell", "eof", "remove", "rename", "mkdir", "rmdir", "stat"})

Filesystem ==
  Service(FourCC("F", "S", "S"), AllGeneric, FALSE, FilesystemCalls)

KeyValueCalls ==
  Same({"set", "get", "del", "clear", "get_info"})

KeyValue ==
  Service(FourCC("K", "V", "S"), AllGeneric, FALSE, KeyValueCalls)

LoggingCalls ==
  Same({"log", "flush", "set_level", "set_output_target", "enable_color",
        "set_format"})

Logging ==
  Service(FourCC("L", "O", "G"), AllGeneric, FALSE, LoggingCalls)

SerializationCalls ==
  Same({"encode", "decode", "encode_stream", "decode_stream"})

Serialization ==
  Service(FourCC("S", "E", "R"), {"init"}, FALSE, SerializationCalls)

TimekeepingCalls ==
  Same({"set_time", "get_time", "get_ms", "sync_now", "is_synchronized"})

Timekeeping ==
  Service(FourCC("T", "I", "M"), {"init", "deinit"}, FALSE, TimekeepingCalls)

Catalog ==
  [ Accelerometer |-> Accelerometer,
    AmbientLight |-> AmbientLight,
    Battery |-> Battery,
    Button |-> Button,
    Color |-> Color,
    Display |-> Display,
    GNSS |-> GNSS,
    GSM |-> GSM,
    Gyroscope |-> Gyroscope,
    Humidity |-> Humidity,
    LED |-> LED,
    Magnetometer |-> Magnetometer,
    Pressure |-> Pressure,
    Proximity |-> Proximity,
    Temperature |-> Temperature,
    Connection |-> Connection,
    Transport |-> Transport,
    AtParser |-> AtParser,
    CLI |-> CLI,
    Collection |-> Collection,
    Filesystem |-> Filesystem,
    KeyValue |-> KeyValue,
    Logging |-> Logging,
    Serialization |-> Serialization,
    Timekeeping |-> Timekeeping ]

ServiceNames == DOMAIN Catalog
=============================================================================
