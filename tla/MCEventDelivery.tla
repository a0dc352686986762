-------------------------- MODULE MCEventDelivery --------------------------
(* Small instances of EventDelivery for TLC. *)
EXTENDS EventDelivery
=============================================================================
