---------------------------- MODULE EventDelivery ----------------------------
(***************************************************************************)
(* What the event bus promises a module that subscribes: at-least-once     *)
(* delivery.  An event may be handled several times, but is never handled  *)
(* before it was sent, and never settled before it was handled.            *)
(***************************************************************************)
CONSTANT Events

VARIABLES sent, handled, settled

DeliveryInit == sent = {} /\ handled = {} /\ settled = {}

Send(e) == e \notin sent /\ sent' = sent \cup {e} /\ UNCHANGED <<handled, settled>>
Deliver(e) == e \in sent /\ handled' = handled \cup {e} /\ UNCHANGED <<sent, settled>>
Settle(e) == e \in handled /\ settled' = settled \cup {e} /\ UNCHANGED <<sent, handled>>

DeliveryNext == \E e \in Events : Send(e) \/ Deliver(e) \/ Settle(e)

DeliverySpec == DeliveryInit /\ [][DeliveryNext]_<<sent, handled, settled>>
=============================================================================
