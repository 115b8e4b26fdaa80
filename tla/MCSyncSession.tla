--------------------------- MODULE MCSyncSession ---------------------------
(***************************************************************************)
(* SyncSession with one thread of the application beside the event loop.   *)
(***************************************************************************)
EXTENDS SyncSession, TLC

Sym == Permutations(Waiters)
=============================================================================
