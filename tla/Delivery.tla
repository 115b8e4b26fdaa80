------------------------------ MODULE Delivery ------------------------------
(***************************************************************************)
(* What a CollectionNotifier promises those who registered a callback with *)
(* it (include/impl/collection_notifier.hpp): a delivery calls each of the *)
(* callbacks that it was packaged for, before the Realm advances and after *)
(* it, once each, unless the callback is removed first; one that is added  *)
(* in the meantime waits for the next delivery.  One that is both added    *)
(* and removed in a delivery costs another one its calls, and when there   *)
(* is none left to lose, nothing is promised any more.  There are no       *)
(* positions and no counts here: only sets of callbacks that are still to  *)
(* be called.                                                              *)
(***************************************************************************)
CONSTANT Token

VARIABLES
    present, \* the callbacks that are registered
    covered, \* those of them that this delivery calls, or has called
    before,  \* those this delivery has still to call before the Realm advances
    after,   \* those this delivery has still to call after it
    stage    \* how far the delivery is

vars == <<present, covered, before, after, stage>>

Stage == {"quiet", "packaged", "between", "error", "lost"}

TypeOK ==
    /\ present \subseteq Token
    /\ covered \subseteq present
    /\ before \subseteq covered
    /\ after \subseteq covered
    /\ stage \in Stage

Init == present = {} /\ covered = {} /\ before = {} /\ after = {} /\ stage = "quiet"

Add(t) ==
    /\ t \notin present
    /\ present' = present \cup {t}
    /\ UNCHANGED <<covered, before, after, stage>>

Forget(t) ==
    /\ covered' = covered \ {t}
    /\ before' = before \ {t}
    /\ after' = after \ {t}
    /\ UNCHANGED stage

Remove(t) ==
    /\ t \in covered \/ (t \in present /\ stage \in {"quiet", "lost"})
    /\ present' = present \ {t}
    /\ Forget(t)

(* One that the delivery does not cover takes one along that it does.      *)
RemoveUncovered(t) ==
    /\ t \in present \ covered /\ stage \notin {"quiet", "lost"}
    /\ present' = present \ {t}
    /\ \/ \E other \in covered : Forget(other)
       \/ covered = {} /\ stage' = "lost" /\ UNCHANGED <<covered, before, after>>

(* Whoever hears of the change before the Realm advances also hears of it  *)
(* afterwards.                                                             *)
Package ==
    /\ stage = "quiet"
    /\ stage' = "packaged" /\ covered' = present
    /\ after' \in SUBSET present
    /\ before' \in SUBSET after'
    /\ UNCHANGED present

(* An error goes to everyone, and no notification comes after it.          *)
Fail(t) ==
    /\ stage = "quiet" /\ t \in present
    /\ stage' = "error" /\ covered' = present
    /\ before' = {}
    /\ after' = present \ {t}
    /\ UNCHANGED present

CallBefore(t) ==
    /\ stage = "packaged" /\ t \in before
    /\ before' = before \ {t}
    /\ UNCHANGED <<present, covered, after, stage>>

EndBefore ==
    /\ stage = "packaged" /\ before = {}
    /\ stage' = "between"
    /\ UNCHANGED <<present, covered, before, after>>

(* The Realm is at the version already: there is nothing to call before.   *)
SkipBefore ==
    /\ stage = "packaged"
    /\ stage' = "between" /\ before' = {}
    /\ UNCHANGED <<present, covered, after>>

CallAfter(t) ==
    /\ stage \in {"between", "error"} /\ t \in after
    /\ after' = after \ {t}
    /\ UNCHANGED <<present, covered, before, stage>>

End ==
    /\ stage \in {"between", "error"} /\ after = {}
    /\ stage' = "quiet" /\ covered' = {}
    /\ UNCHANGED <<present, before, after>>

Next ==
    \/ \E t \in Token :
          Add(t) \/ Remove(t) \/ RemoveUncovered(t) \/ CallBefore(t) \/ CallAfter(t) \/ Fail(t)
    \/ Package \/ EndBefore \/ SkipBefore \/ End

Spec == Init /\ [][Next]_vars
=============================================================================
