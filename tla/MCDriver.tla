------------------------------ MODULE MCDriver ------------------------------
(***************************************************************************)
(* SalDriver with the services of SalCatalog. Drivers do not touch each     *)
(* other, so one driver of every possible service is enough.               *)
(***************************************************************************)
EXTENDS SalDriver

CONSTANT Chosen  \* the services of this run

Cat == INSTANCE SalCatalog

MCFourcc == [s \in Chosen |-> Cat!Catalog[s].tag]
MCGeneric == [s \in Chosen |-> Cat!Catalog[s].generic]
MCInterrupts == {s \in Chosen : Cat!Catalog[s].interrupt}
MCCalls == [s \in Chosen |-> Cat!Catalog[s].calls]
MCBaseOps == Cat!Forwarded
AllServices == Cat!ServiceNames

\* The slots of s's table: the HAL's lifecycle slots and the service's own.
Slots(s) ==
  (Cat!AllGeneric \ {"config_get"})
    \cup {Cat!Catalog[s].calls[w] : w \in DOMAIN Cat!Catalog[s].calls}
    \cup (IF Cat!Catalog[s].interrupt THEN {"handle_interrupt"} ELSE {})

\* A provider that implements everything, and the ones of the tests: a zeroed
\* table, and one that only has init.
Full(s) == [class |-> s, filled |-> Slots(s)]
Bare(s) == [class |-> s, filled |-> {}]
InitOnly(s) == [class |-> s, filled |-> {"init"}]

FullTables == {Full(s) : s \in Chosen}
SomeTables == UNION {{Full(s), Bare(s), InitOnly(s)} : s \in Chosen}

\* The wrappers that only pass through the tag check.
ReadersAndForwards ==
  (Cat!AllGeneric \cup {"handle_interrupt"}
     \cup UNION {DOMAIN Cat!Catalog[s].calls : s \in Chosen})
  \ {"config_set", "callback_register"}
NoForeignOps == {}

\* One wrapper of each kind: the rebinding init, a forward, a service call
\* many services share, the interrupt dispatcher.
OneOfEachKind ==
  {"init", "power_state_set", "get_status", "handle_interrupt"}
AllForeignOps == ReadersAndForwards \cup {"config_set", "callback_register"}
=============================================================================
