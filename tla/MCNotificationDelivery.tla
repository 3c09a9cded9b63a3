----------------------- MODULE MCNotificationDelivery -----------------------
(* NotificationDelivery with two of the code's three delays, its deadline, *)
(* and a budget that the second sleep may exhaust.                         *)
EXTENDS NotificationDelivery

MCDelays == <<1, 2>>
=============================================================================
