--------------------------- MODULE OrderLifecycle ---------------------------
(* The order state machine of orders.constants.ts: statuses, the table of     *)
(* transitions, and the statuses from which a customer may cancel.            *)

ORDER_STATUS == {"PENDING", "CONFIRMED", "CANCELLED"}

ORDER_TRANSITIONS ==
    [s \in ORDER_STATUS |->
        CASE s = "PENDING"   -> {"CONFIRMED", "CANCELLED"}
          [] s = "CONFIRMED" -> {"CANCELLED"}
          [] s = "CANCELLED" -> {}]

canTransition(from, to) == to \in ORDER_TRANSITIONS[from]

\* Staff may cancel whatever the table lets them cancel, customers only these.
CUSTOMER_CANCELLABLE_STATUSES == {"PENDING"}
=============================================================================
