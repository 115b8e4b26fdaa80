------------------------- MODULE MCSessionRegistry -------------------------
(***************************************************************************)
(* SessionRegistry with two threads of the application beside the event    *)
(* loop, under each stop policy.                                           *)
(***************************************************************************)
EXTENDS SessionRegistry

AllPolicies == {"Immediately", "AfterChangesUploaded", "LiveIndefinitely"}
=============================================================================
