------------------------------ MODULE MCThreads ------------------------------
(***************************************************************************)
(* SalThreads with two threads on one pressure driver: one forwarded       *)
(* lifecycle wrapper and one service wrapper stand for all of their kind.  *)
(***************************************************************************)
EXTENDS SalThreads, TLC

OneForward == {"event_enable"}
NoForward == {}
MCServiceCalls == [read_hpa |-> "read_hpa"]

Full == [class |-> Service,
         filled |-> (Ops \ {"config_get"}) \cup {"handle_interrupt"}]
FullTable == {Full}

\* Clients lock every call.
EveryOp == Ops
\* Clients lock the lifecycle calls and let service calls through.
LifecycleOps == Ops \ DOMAIN ServiceCalls
\* The threads are interchangeable: no property of the safety runs names one.
Symmetry == Permutations(Threads)
=============================================================================
