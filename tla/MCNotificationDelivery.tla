----------------------- MODULE MCNotificationDelivery -----------------------
(* Instances of NotificationDelivery for TLC. *)
EXTENDS NotificationDelivery, TLC

Symmetry == Permutations(Instances) \cup Permutations(Notifications)
=============================================================================
