---------------------------- MODULE MCNotifiers ----------------------------
(***************************************************************************)
(* Notifiers with a notifier, two commits that change what it watches, and *)
(* everybody who may make them.                                            *)
(***************************************************************************)
EXTENDS Notifiers
=============================================================================
