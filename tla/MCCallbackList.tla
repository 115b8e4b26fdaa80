--------------------------- MODULE MCCallbackList ---------------------------
(* CallbackList for TLC. *)
EXTENDS CallbackList
=============================================================================
