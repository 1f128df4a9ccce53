-------------------------- MODULE MC_D2CMessaging --------------------------
(* Model-checking instance of D2CMessaging: status codes from the success, *)
(* bad-request, no-retry, client-error and server-error rows of the retry  *)
(* table, and short delays on a small clock.                               *)
EXTENDS D2CMessaging

MC_HttpCodes == {200, 400, 413, 500}
====
