---------------------------- MODULE CallbackList ----------------------------
(***************************************************************************)
(* The callbacks of one CollectionNotifier (impl/collection_notifier.cpp). *)
(* They are kept in a vector.  The thread of the Realm goes through it     *)
(* with m_callback_index, up to m_callback_count, and lets go of           *)
(* m_callback_mutex for every call; in the meantime the callback itself,   *)
(* the callbacks of other notifiers or another thread remove callbacks,    *)
(* and the thread of the Realm adds some.  Positions are counted from 1    *)
(* here, and 0 stands for npos (which ++ takes to the first position).     *)
(***************************************************************************)
EXTENDS Integers, FiniteSets, Sequences, SequencesExt

CONSTANTS
    MaxTokens, \* bound: how many callbacks are ever added
    Huge       \* what a size_t below zero wraps to

ASSUME TokensAssumption == MaxTokens \in Nat
ASSUME HugeAssumption == Huge \in Nat /\ Huge > 2 * MaxTokens

VARIABLES
    callbacks,   \* m_callbacks: their tokens, in the order of registration
    nextToken,   \* m_next_token
    index,       \* m_callback_index
    count,       \* m_callback_count
    have,        \* m_have_callbacks
    failed,      \* m_error
    accumulated, \* those whose accumulated_changes are not empty
    toDeliver,   \* those whose changes_to_deliver are not empty
    delivered,   \* those whose initial_delivered is set
    stage,       \* what the thread of the Realm is doing with the notifier
    running,     \* it is in the user's function of the callback at index
    called,      \* the token of the callback that was called last
    posted,      \* a notification is on its way to the thread of the Realm
    woke,        \* history: those whose adding woke the worker up
    firstNew,    \* history: m_next_token when m_callback_count was set last
    undone       \* history: how many added since then were removed in the same delivery

vars == <<callbacks, nextToken, index, count, have, failed, accumulated, toDeliver,
          delivered, stage, running, called, posted, woke, firstNew, undone>>
state == <<callbacks, nextToken, have, failed, accumulated, posted, woke, firstNew, undone>>

Token == 0 .. MaxTokens - 1
NoToken == -1
Stage == {"quiet", "packaged", "before", "between", "after", "error", "outside"}

TypeOK ==
    /\ callbacks \in Seq(Token)
    /\ nextToken \in 0 .. MaxTokens
    /\ index \in 0 .. MaxTokens
    /\ count \in 0 .. Huge
    /\ {have, failed, running, posted} \subseteq BOOLEAN
    /\ accumulated \subseteq Token /\ toDeliver \subseteq Token /\ delivered \subseteq Token
    /\ stage \in Stage
    /\ called \in Token \cup {NoToken}
    /\ woke \subseteq Token
    /\ firstNew \in 0 .. MaxTokens /\ undone \in 0 .. MaxTokens

Present == {callbacks[i] : i \in 1 .. Len(callbacks)}
Position(t) == CHOOSE i \in 1 .. Len(callbacks) : callbacks[i] = t
OneLess(n) == IF n = 0 THEN Huge ELSE n - 1

Init ==
    /\ callbacks = <<>> /\ nextToken = 0
    /\ index = 0 /\ count = Huge
    /\ have = FALSE /\ failed = FALSE
    /\ accumulated = {} /\ toDeliver = {} /\ delivered = {}
    /\ stage = "quiet" /\ running = FALSE /\ called = NoToken
    /\ posted = FALSE /\ woke = {}
    /\ firstNew = 0 /\ undone = 0

-----------------------------------------------------------------------------
(* The user's side.  add_callback is called on the thread of the Realm,    *)
(* which is in the user's hands while it is not in the notifier: before,   *)
(* between and after the rounds as well as in a callback.                  *)

AddCallback ==
    /\ nextToken < MaxTokens /\ stage # "outside"
    /\ callbacks' = Append(callbacks, nextToken)
    /\ nextToken' = nextToken + 1
    /\ IF index = 0
       THEN posted' = TRUE /\ have' = TRUE /\ woke' = woke \cup {nextToken}
       ELSE UNCHANGED <<posted, have, woke>>
    /\ UNCHANGED <<index, count, failed, accumulated, toDeliver, delivered, stage, running, called,
                   firstNew, undone>>

(* mutant: the index stays where it was                                    *)
ErasedKeepsIndex(t) ==
    LET at == Position(t)
    IN  /\ index' = index
        /\ count' = OneLess(count)
        /\ callbacks' = RemoveAt(callbacks, at)
        /\ have' = (callbacks' # <<>>)
        /\ accumulated' = accumulated \ {t}
        /\ toDeliver' = toDeliver \ {t}

(* mutant: the flag is cleared only in a delivery                          *)
ErasedKeepsHave(t) ==
    LET at == Position(t)
    IN  /\ index' = IF index # 0 /\ index >= at THEN index - 1 ELSE index
        /\ count' = OneLess(count)
        /\ callbacks' = RemoveAt(callbacks, at)
        /\ have' = (have /\ (callbacks' # <<>> \/ index = 0))
        /\ accumulated' = accumulated \ {t}
        /\ toDeliver' = toDeliver \ {t}

(* mutant: as many callbacks are gone through as were packaged             *)
ErasedKeepsCount(t) ==
    LET at == Position(t)
    IN  /\ index' = IF index # 0 /\ index >= at THEN index - 1 ELSE index
        /\ count' = count
        /\ callbacks' = RemoveAt(callbacks, at)
        /\ have' = (callbacks' # <<>>)
        /\ accumulated' = accumulated \ {t}
        /\ toDeliver' = toDeliver \ {t}

Erased(t) ==
    LET at == Position(t)
    IN  /\ index' = IF index # 0 /\ index >= at THEN index - 1 ELSE index
        /\ count' = OneLess(count)
        /\ callbacks' = RemoveAt(callbacks, at)
        /\ have' = (callbacks' # <<>>)
        /\ accumulated' = accumulated \ {t}
        /\ toDeliver' = toDeliver \ {t}

(* The count is of those that were there when the delivery began, and is   *)
(* taken down all the same for one that was added since.                   *)
Undo(t) == undone' = IF stage # "quiet" /\ t >= firstNew THEN undone + 1 ELSE undone

(* Any thread, at any time when nobody holds the lock.                     *)
RemoveCallback(t) ==
    /\ t \in Present /\ stage # "outside"
    /\ Erased(t) /\ Undo(t)
    /\ UNCHANGED <<nextToken, failed, delivered, stage, running, called, posted, woke, firstNew>>

-----------------------------------------------------------------------------
(* The worker hands the changes of a version over, and the Realm is told.  *)
AddChanges ==
    /\ ~failed
    /\ accumulated' = Present
    /\ posted' = TRUE
    /\ UNCHANGED <<callbacks, nextToken, index, count, have, failed, toDeliver, delivered, stage,
                   running, called, woke, firstNew, undone>>

-----------------------------------------------------------------------------
(* The thread of the Realm.                                                *)

PackageForDelivery ==
    /\ posted /\ stage = "quiet" /\ ~failed
    /\ posted' = FALSE
    /\ toDeliver' = accumulated /\ accumulated' = {}
    /\ count' = Len(callbacks) /\ firstNew' = nextToken /\ undone' = 0
    /\ stage' = "packaged"
    /\ UNCHANGED <<callbacks, nextToken, index, have, failed, delivered, running, called, woke>>

(* for_each_callback: on to the first position after i whose callback the  *)
(* round is for, all of it under the lock.  With nothing left the index is *)
(* npos again, and the round is over.  Beyond the end of the vector there  *)
(* is nothing that could be read, and nothing is said of what comes then.  *)
Wanted(i, S) == {j \in i + 1 .. count : j <= Len(callbacks) => callbacks[j] \in S}

CallAt(j, round) ==
    /\ index' = j /\ running' = TRUE /\ stage' = round
    /\ called' = callbacks[j]
    /\ IF round = "after"
       THEN /\ toDeliver' = toDeliver \ {callbacks[j]}
            /\ delivered' = delivered \cup {callbacks[j]}
       ELSE UNCHANGED <<toDeliver, delivered>>

GoOn(i, S, round, done) ==
    \/ /\ Wanted(i, S) = {}
       /\ index' = 0 /\ running' = FALSE /\ stage' = done
       /\ UNCHANGED <<called, toDeliver, delivered>>
    \/ \E j \in Wanted(i, S) :
          /\ \A k \in Wanted(i, S) : j <= k
          /\ \/ j <= Len(callbacks) /\ CallAt(j, round)
             \/ /\ j > Len(callbacks)
                /\ stage' = "outside" /\ running' = FALSE
                /\ UNCHANGED <<index, called, toDeliver, delivered>>

(* Between the rounds of this notifier come those of the others, the       *)
(* advance of the Realm and the methods of its BindingContext.  A Realm    *)
(* that is at the version already leaves the first round out.              *)
BeforeAdvance ==
    /\ stage \in {"packaged", "before"}
    /\ GoOn(index, toDeliver, "before", "between")
    /\ UNCHANGED <<state, count>>

(* The first thing for_each_callback does in a debug build.                *)
AssertionFails ==
    /\ stage \in {"packaged", "between"} /\ count > Len(callbacks)
    /\ stage' = "outside"
    /\ UNCHANGED <<state, index, count, toDeliver, delivered, running, called>>

AlreadyThere ==
    /\ stage = "packaged"
    /\ stage' = "between"
    /\ UNCHANGED <<state, index, count, toDeliver, delivered, running, called>>

Told(t) == t \in delivered /\ t \notin toDeliver

(* mutant: without changes there is nothing to call for                    *)
AfterAdvanceOfChanges ==
    /\ stage \in {"between", "after"}
    /\ GoOn(index, toDeliver, "after", "quiet")
    /\ UNCHANGED <<state, count>>

AfterAdvance ==
    /\ stage \in {"between", "after"}
    /\ GoOn(index, {t \in Token : ~Told(t)}, "after", "quiet")
    /\ UNCHANGED <<state, count>>

(* The worker could not open the Realm: every later delivery is an error.  *)
(* A callback is removed once it was called with it, whether it removed    *)
(* itself in the call or not.                                              *)
AsyncError ==
    /\ ~failed /\ stage = "quiet"
    /\ failed' = TRUE /\ posted' = TRUE
    /\ UNCHANGED <<callbacks, nextToken, index, count, have, accumulated, toDeliver, delivered,
                   stage, running, called, woke, firstNew, undone>>

DeliverError ==
    /\ posted /\ failed /\ stage = "quiet"
    /\ posted' = FALSE
    /\ count' = Len(callbacks) /\ firstNew' = nextToken /\ undone' = 0
    /\ IF callbacks = <<>>
       THEN UNCHANGED <<index, running, stage, called>>
       ELSE /\ index' = 1 /\ running' = TRUE /\ stage' = "error"
            /\ called' = callbacks[1]
    /\ UNCHANGED <<callbacks, nextToken, have, failed, accumulated, toDeliver, delivered,
                   woke>>

RemoveAfterError ==
    /\ stage = "error" /\ running
    /\ running' = FALSE
    /\ IF called \in Present
       THEN Erased(called) /\ Undo(called)
       ELSE UNCHANGED <<callbacks, index, count, have, accumulated, toDeliver, undone>>
    /\ UNCHANGED <<nextToken, failed, delivered, stage, called, posted, woke, firstNew>>

NextError ==
    /\ stage = "error" /\ ~running
    /\ GoOn(index, Token, "error", "quiet")
    /\ UNCHANGED <<state, count>>

-----------------------------------------------------------------------------
Deliver ==
    \/ PackageForDelivery \/ BeforeAdvance \/ AlreadyThere \/ AfterAdvance \/ AssertionFails
    \/ DeliverError \/ RemoveAfterError \/ NextError

Next ==
    \/ AddCallback \/ AddChanges \/ AsyncError \/ Deliver
    \/ \E t \in Token : RemoveCallback(t)

Spec == Init /\ [][Next]_vars

(* A notification that is posted reaches the thread of the Realm, and the  *)
(* functions of the user return.                                           *)
FairSpec == Spec /\ WF_vars(Deliver)

-----------------------------------------------------------------------------
(* The positions of the callbacks that were there when m_callback_count    *)
(* was set, and still are.                                                 *)
Packaged == Cardinality({i \in 1 .. Len(callbacks) : callbacks[i] < firstNew})

(* However many callbacks are removed under way, and in whatever order,    *)
(* the number of callbacks that a delivery goes to is short of those that  *)
(* it was packaged for and that are left by exactly the number of those    *)
(* that were added in it and removed again.  It does not go to one that    *)
(* was added in it, nor beyond the vector (what the assertion in           *)
(* for_each_callback is to keep it from), unless there are more of these   *)
(* than callbacks left, when the count has wrapped around.                 *)
ShortByTheUndone ==
    stage # "quiet" =>
        /\ count = IF undone <= Packaged THEN Packaged - undone ELSE Huge + 1 + Packaged - undone
        /\ index <= IF undone <= Packaged THEN Packaged ELSE Len(callbacks)
        /\ stage = "outside" => undone > Packaged

(* m_have_callbacks, which is cached so that the worker need not take the  *)
(* lock, is exact although add_callback does not set it in a delivery: one *)
(* whose index is not npos still has a callback in the list.               *)
HaveIsExact == have <=> callbacks # <<>>

(* The inductive invariant: tokens are given out once, the thread of the   *)
(* Realm is at a position only while it goes through the callbacks, and    *)
(* the one an error was delivered to last is at it, or is gone.            *)
TokensAreNew ==
    /\ \A i \in 1 .. Len(callbacks) : callbacks[i] < nextToken
    /\ \A i, j \in 1 .. Len(callbacks) : callbacks[i] = callbacks[j] => i = j
    /\ called < nextToken
    /\ Len(callbacks) + undone <= nextToken /\ firstNew <= nextToken
AtIndex ==
    /\ index # 0 => stage \in {"before", "after", "error", "outside"}
    /\ stage = "error" /\ running => \A i \in 1 .. Len(callbacks) : callbacks[i] = called => i = index

NoneForOthers == accumulated \subseteq Present /\ toDeliver \subseteq Present

(* Those that a delivery was packaged for come before those added since.   *)
PackagedFirst == \A i \in 1 .. Len(callbacks) : callbacks[i] < firstNew <=> i <= Packaged

Inv ==
    /\ TypeOK /\ TokensAreNew /\ PackagedFirst /\ ShortByTheUndone /\ AtIndex
    /\ HaveIsExact /\ NoneForOthers

(* What the deliveries are for: as if there were no positions and counts.  *)
Lost == stage # "quiet" /\ undone > Packaged
From(i) == {callbacks[j] : j \in i + 1 .. count}
Covered == IF stage = "quiet" \/ Lost THEN {} ELSE From(0)
ToBefore ==
    IF ~Lost /\ stage \in {"packaged", "before"} THEN {t \in From(index) : t \in toDeliver} ELSE {}
ToAfter ==
    CASE Lost -> {}
      [] ~Lost /\ stage \in {"packaged", "before"} -> {t \in From(0) : ~Told(t)}
      [] ~Lost /\ stage \in {"between", "after"} -> {t \in From(index) : ~Told(t)}
      [] ~Lost /\ stage = "error" -> From(index)
      [] OTHER -> {}
Promised ==
    CASE Lost -> "lost"
      [] ~Lost /\ stage = "before" -> "packaged"
      [] ~Lost /\ stage = "after" -> "between"
      [] OTHER -> stage

D == INSTANCE Delivery WITH
    present <- Present, covered <- Covered, before <- ToBefore, after <- ToAfter, stage <- Promised

(* Each delivery calls the callbacks it was packaged for once before and   *)
(* once after the Realm advances, none twice, none that was removed and    *)
(* none that was added since, whoever adds and removes callbacks between   *)
(* two calls or in one.  What is added and removed again in a delivery     *)
(* costs one of the others its call, and no more than one.                 *)
KeepsItsPromise == D!Spec

(* RLMResults.h says of a block that is added: "The block will be          *)
(* asynchronously called with the initial results collection".  It is so   *)
(* for one whose adding woke the worker up, unless the delivery that was   *)
(* to call it is one in which a callback was added and removed again.      *)
IsCalled(t) == t \in delivered \/ t \notin Present
WokenAreCalled == \A t \in Token : (t \in woke) ~> IsCalled(t) \/ undone > 0
=============================================================================
