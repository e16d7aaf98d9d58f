--------------------------- MODULE MCDeliveryQueue ---------------------------
(* Small instances of DeliveryQueue for TLC.                               *)
EXTENDS DeliveryQueue

CONSTANTS t1, v1

OneTelegram == {t1}
OneVk == {v1}
NoConversation == {}
=============================================================================
