------------------------------- MODULE MCEvents -------------------------------
(***************************************************************************)
(* SalEvents for the services that declare events, with the tags of        *)
(* SalCatalog and the bits of SalSignals.                                  *)
(***************************************************************************)
EXTENDS SalEvents

C == INSTANCE SalCatalog
G == INSTANCE SalSignals

WithEvents == DOMAIN G!EventBits
AllButTransport == WithEvents \ {"Transport"}
OnlyTransport == {"Transport"}

MCFourcc == [s \in WithEvents |-> C!Catalog[s].tag]
MCGeneric == [s \in WithEvents |-> C!Catalog[s].generic]
MCInterrupts == {s \in WithEvents : C!Catalog[s].interrupt}
MCBits == G!EventBits
MCParams == G!CallbackParams
\* The type the AT parser declares its callback with, and the others cast to.
MCHalParams == G!UsualParams
=============================================================================
