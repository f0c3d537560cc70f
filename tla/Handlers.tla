-------------------------------- MODULE Handlers --------------------------------
(***************************************************************************)
(* The handlers of the HTTP interface, each as what its store operation is *)
(* when the call comes a second time (module Calls): a read, an insert with*)
(* or without a unique key, an update that compares the version the client *)
(* sent, a report computed from what is stored, and so on. The event is    *)
(* the one the handler, or the service it calls, publishes. What a handler *)
(* that does more (posts an entry, takes a payment, moves stock, ...) does *)
(* inside is the subject of the other modules.                             *)
(***************************************************************************)
EXTENDS TradeHandlers, OfficeHandlers

Next ==
  \/ Die
  \/ \E c \in Clients :
       \/ \E act \in Acts, to \in 1 .. 2 : Ask(c, act, to)
       \/ Resend(c) \/ Publish(c) \/ Answer(c) \/ Refuse(c) \/ Fail(c)
       \/ TradeCalls(c) \/ OfficeCalls(c)

Spec == Init /\ [][Next]_vars
=============================================================================
