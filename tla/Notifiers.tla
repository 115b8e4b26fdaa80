----------------------------- MODULE Notifiers -----------------------------
(***************************************************************************)
(* Collection notifications of one Realm: its thread, the worker of its    *)
(* RealmCoordinator and whoever else commits to the file                   *)
(* (impl/realm_coordinator.cpp, impl/collection_notifier.cpp,              *)
(* impl/results_notifier.cpp, impl/transact_log_handler.cpp and            *)
(* shared_realm.cpp).  The worker runs the notifiers on their own          *)
(* SharedGroup, works out what changed between two versions, and hands     *)
(* that over under m_notifier_mutex; the Realm's thread packages what was  *)
(* handed over, moves to that version and calls the callbacks.             *)
(*                                                                         *)
(* A set of changes is the set of the versions whose commits made them.    *)
(* Each notifier has at most one callback here: CallbackList is about the  *)
(* list of them.  The Realm has auto-refresh on and opens without errors.  *)
(***************************************************************************)
EXTENDS Integers, FiniteSets

CONSTANTS
    Notifier,   \* the notifiers that may be registered
    Touching,   \* the versions whose commits change what the notifiers watch
    MaxVersion  \* bound: no commit after this version

ASSUME NotifiersAssumption == Touching \subseteq Nat /\ MaxVersion \in Nat \ {0}

VARIABLES
    \* the file, and who was told of it
    latest,      \* the version of the newest snapshot
    unannounced, \* somebody else has committed and not yet called notify_others
    woken,       \* the worker is to run (the ExternalCommitHelper was notified)
    posted,      \* Realm::notify is scheduled on the Realm's thread
    skip,        \* m_notifier_skip_version, 0 for none
    \* the Realm
    reading,     \* it has a read transaction (m_group)
    read,        \* the version of it, or of the last one
    writing,     \* it is in a write transaction
    doing,       \* what its thread is doing, when it does not run the user's code
    target,      \* the version it waits for
    waitsFor,    \* the notifiers it waits for, and delivers then
    sending,     \* m_is_sending_notifications
    due,         \* the notifiers of the package whose callbacks are still to be called
    packed,      \* the version the package is of
    \* the notifiers
    status,      \* which of the two lists of the coordinator a notifier is in
    alive,       \* m_realm is set
    version,     \* m_sg_version
    hasRun,      \* m_has_run
    rows,        \* the version m_previous_rows are of, 0 for none
    changes,     \* m_changes
    \* their callbacks
    on,          \* there is one
    accumulated, \* accumulated_changes
    toDeliver,   \* changes_to_deliver
    initial,     \* initial_delivered
    skipNext,    \* skip_next
    \* the worker
    pass,        \* where run_async_notifiers is
    final,       \* the version it goes to
    over,        \* the version it makes a stop at, 0 for none
    old, new,    \* the notifiers it took from the two lists
    stage,       \* how far it is with each of them on the way to that version
    tracked,     \* those for which it looks at modifications on the way
    \* history
    settled,     \* the versions whose changes a callback was told of, or was spared
    asked,       \* the versions it was not to be told of
    moved,       \* a transaction began or ended behind the notifiers' back since the last wait
    rested,      \* the notifier skipped a run although there were changes
    late,        \* the callback was added when the run on the way could miss changes
    swallowed    \* a notification fell into the write transaction, or the last

file == <<latest, unannounced, skip>>
signals == <<woken, posted>>
realm == <<reading, read, writing>>
delivery == <<doing, target, waitsFor, sending, due, packed>>
notifier == <<status, alive, version, hasRun, rows, changes>>
callback == <<on, accumulated, toDeliver, initial, skipNext>>
worker == <<pass, final, over, old, new, stage, tracked>>
history == <<settled, asked, moved, rested, late, swallowed>>
vars == <<file, signals, realm, delivery, notifier, callback, worker, history>>

Version == 0 .. MaxVersion
Changes(a, b) == {v \in Touching : a < v /\ v <= b}
Registered == {n \in Notifier : status[n] \in {"new", "listed"}}
Mine == {n \in Registered : alive[n]}
Free == doing = "nothing"

TypeOK ==
    /\ latest \in Version \ {0} /\ skip \in Version /\ read \in Version \ {0}
    /\ {unannounced, woken, posted, reading, writing, sending, moved, swallowed} \subseteq BOOLEAN
    /\ doing \in {"nothing", "refresh", "begin", "commit"}
    /\ target \in Version /\ packed \in Version
    /\ waitsFor \subseteq Notifier /\ due \subseteq Notifier
    /\ status \in [Notifier -> {"none", "new", "listed", "gone"}]
    /\ {alive, hasRun, on, initial, skipNext, rested, late} \subseteq [Notifier -> BOOLEAN]
    /\ {version, rows} \subseteq [Notifier -> Version]
    /\ {changes, accumulated, toDeliver, settled, asked} \subseteq [Notifier -> SUBSET Touching]
    /\ pass \in {"idle", "skip", "last", "tell"}
    /\ final \in Version /\ over \in Version
    /\ old \subseteq Notifier /\ new \subseteq Notifier
    /\ stage \in [Notifier -> {"none", "asked", "running", "ran"}] /\ tracked \subseteq Notifier

Init ==
    /\ latest = 1 /\ unannounced = FALSE /\ skip = 0
    /\ woken = FALSE /\ posted = FALSE
    /\ reading = TRUE /\ read = 1 /\ writing = FALSE
    /\ doing = "nothing" /\ target = 0 /\ waitsFor = {} /\ sending = FALSE /\ due = {} /\ packed = 0
    /\ status = [n \in Notifier |-> "none"]
    /\ alive = [n \in Notifier |-> FALSE]
    /\ version = [n \in Notifier |-> 0]
    /\ hasRun = [n \in Notifier |-> FALSE]
    /\ rows = [n \in Notifier |-> 0]
    /\ changes = [n \in Notifier |-> {}]
    /\ on = [n \in Notifier |-> FALSE]
    /\ accumulated = [n \in Notifier |-> {}]
    /\ toDeliver = [n \in Notifier |-> {}]
    /\ initial = [n \in Notifier |-> FALSE]
    /\ skipNext = [n \in Notifier |-> FALSE]
    /\ pass = "idle" /\ final = 0 /\ over = 0 /\ old = {} /\ new = {}
    /\ stage = [n \in Notifier |-> "none"] /\ tracked = {}
    /\ settled = [n \in Notifier |-> {}]
    /\ asked = [n \in Notifier |-> {}]
    /\ moved = FALSE
    /\ rested = [n \in Notifier |-> FALSE]
    /\ late = [n \in Notifier |-> FALSE]
    /\ swallowed = FALSE

-----------------------------------------------------------------------------
(* Somebody else: another Realm of the process or another process.         *)

OtherCommit ==
    /\ latest < MaxVersion /\ ~writing /\ doing # "begin"
    /\ latest' = latest + 1
    /\ unannounced' = TRUE
    /\ UNCHANGED <<skip, signals, realm, delivery, notifier, callback, worker, history>>

NotifyOthers ==
    /\ unannounced
    /\ unannounced' = FALSE /\ woken' = TRUE
    /\ UNCHANGED <<latest, skip, posted, realm, delivery, notifier, callback, worker, history>>

-----------------------------------------------------------------------------
(* The worker: RealmCoordinator::on_change.                                *)

(* clean_up_dead_notifiers, with what the lists become.                    *)
Dead == {n \in Registered : ~alive[n]}
Listed == {n \in Notifier : status[n] = "listed"}
CleanedUp(s) == [n \in Notifier |-> IF n \in Dead THEN "gone" ELSE s[n]]
\* Mutant: no stop is made at the commit to skip.
SkipForgotten == 0
SkipAfterCleanUp == IF Listed \cap Dead # {} /\ Listed \subseteq Dead THEN 0 ELSE skip

\* Mutant: the version to skip is not reset.
RunKeepsSkip ==
    /\ pass = "idle" /\ woken
    /\ woken' = FALSE
    /\ IF Mine = {}
       THEN /\ status' = CleanedUp(status)
            /\ skip' = SkipAfterCleanUp
            /\ pass' = "tell"
            /\ UNCHANGED <<final, over, old, new, stage>>
       ELSE /\ final' = latest
            /\ over' = SkipAfterCleanUp
            /\ skip' = SkipAfterCleanUp
            /\ old' = Listed \ Dead
            /\ new' = {n \in Mine : status[n] = "new"}
            /\ stage' = [n \in Notifier |-> IF n \in new' THEN "asked" ELSE "none"]
            /\ status' = [n \in Notifier |-> IF n \in Mine THEN "listed" ELSE CleanedUp(status)[n]]
            /\ pass' = IF SkipAfterCleanUp # 0 THEN "skip" ELSE "last"
    /\ UNCHANGED <<latest, unannounced, posted, realm, delivery, alive, version, hasRun, rows,
                   changes, callback, tracked, history>>

(* The first section under the lock: the versions to go to are chosen in   *)
(* it, so that a commit that is to be skipped is not gone past.            *)
RunAsyncNotifiers ==
    /\ pass = "idle" /\ woken
    /\ woken' = FALSE
    /\ IF Mine = {}
       THEN /\ status' = CleanedUp(status)
            /\ skip' = SkipAfterCleanUp
            /\ pass' = "tell"
            /\ UNCHANGED <<final, over, old, new, stage>>
       ELSE /\ final' = latest
            /\ over' = SkipAfterCleanUp
            /\ skip' = 0
            /\ old' = Listed \ Dead
            /\ new' = {n \in Mine : status[n] = "new"}
            /\ stage' = [n \in Notifier |-> IF n \in new' THEN "asked" ELSE "none"]
            /\ status' = [n \in Notifier |-> IF n \in Mine THEN "listed" ELSE CleanedUp(status)[n]]
            /\ pass' = IF SkipAfterCleanUp # 0 THEN "skip" ELSE "last"
    /\ UNCHANGED <<latest, unannounced, posted, realm, delivery, alive, version, hasRun, rows,
                   changes, callback, tracked, history>>

(* On the way to a version, with no lock held: what each of the notifiers  *)
(* needs to know of the changes, then running them, in some order.  Whether *)
(* there is a callback is read anew each time, from m_have_callbacks, and  *)
(* callbacks come and go in between.                                       *)
Travelling == IF pass = "skip" THEN old ELSE old \cup new
Destination == IF pass = "skip" THEN over ELSE final

(* The transactions up to the version are gone through after this.         *)
AddRequiredChangeInfo(n) ==
    /\ pass \in {"skip", "last"} /\ n \in old /\ stage[n] = "none"
    /\ stage' = [stage EXCEPT ![n] = "asked"]
    /\ tracked' = IF hasRun[n] /\ on[n] THEN tracked \cup {n} ELSE tracked
    /\ UNCHANGED <<file, signals, realm, delivery, notifier, callback, pass, final, over, old, new, history>>

(* Its results are worth it, and not those it has already.  The results of *)
(* a notifier that has not run yet always are (wanted).                    *)
NeedsToRun(n, wanted) ==
    /\ alive[n] /\ (on[n] \/ wanted)
    /\ hasRun[n] => Changes(rows[n], Destination) # {}

NeedToRun(n) ==
    /\ pass \in {"skip", "last"} /\ n \in Travelling /\ stage[n] = "asked"
    /\ \A m \in Notifier : stage[m] # "running" /\ (m \in old => stage[m] # "none")
    /\ \E wanted \in BOOLEAN :
          /\ n \in new => wanted
          /\ IF NeedsToRun(n, wanted)
             THEN stage' = [stage EXCEPT ![n] = "running"] /\ UNCHANGED <<tracked, rested>>
             ELSE /\ stage' = [stage EXCEPT ![n] = "ran"]
                  /\ tracked' = tracked \ {n}
                  /\ rested' = [rested EXCEPT ![n] =
                        @ \/ (hasRun[n] /\ Changes(rows[n], Destination) # {})]
    /\ UNCHANGED <<file, signals, realm, delivery, notifier, callback, pass, final, over, old, new,
                   settled, asked, moved, late, swallowed>>

(* Of the rows, it finds all that came and went; which of them were        *)
(* modified is known only if somebody has asked for it.                    *)
CalculateChanges(n) ==
    /\ stage[n] = "running"
    /\ stage' = [stage EXCEPT ![n] = "ran"] /\ tracked' = tracked \ {n}
    /\ rows' = [rows EXCEPT ![n] = Destination]
    /\ \E found \in SUBSET Changes(rows[n], Destination) :
          /\ n \in tracked => found = Changes(rows[n], Destination)
          /\ changes' = IF hasRun[n] /\ on[n] THEN [changes EXCEPT ![n] = found] ELSE changes
    /\ UNCHANGED <<file, signals, realm, delivery, status, alive, version, hasRun, callback,
                   pass, final, over, old, new, history>>

Run(n) == AddRequiredChangeInfo(n) \/ NeedToRun(n) \/ CalculateChanges(n)

(* CollectionNotifier::prepare_handover and add_changes, under the lock.   *)
\* Mutant: what had been accumulated is replaced.
AccumulatedReplaces(n) == IF skipNext[n] THEN accumulated[n] ELSE changes[n]

Accumulated(n) == IF skipNext[n] THEN accumulated[n] ELSE accumulated[n] \cup changes[n]

PrepareHandover(S, v) ==
    /\ \A n \in S : stage[n] = "ran"
    /\ stage' = [n \in Notifier |-> IF n \in S THEN "none" ELSE stage[n]]
    /\ version' = [n \in Notifier |-> IF n \in S THEN v ELSE version[n]]
    /\ hasRun' = [n \in Notifier |-> hasRun[n] \/ n \in S]
    /\ accumulated' = [n \in Notifier |-> IF n \in S /\ on[n] THEN Accumulated(n) ELSE accumulated[n]]
    /\ skipNext' = [n \in Notifier |-> skipNext[n] /\ n \notin S]
    /\ changes' = [n \in Notifier |-> IF n \in S THEN {} ELSE changes[n]]
    /\ settled' = [n \in Notifier |->
          IF n \in S /\ on[n] /\ skipNext[n] THEN settled[n] \cup changes[n] ELSE settled[n]]
    /\ UNCHANGED <<alive, rows, on, toDeliver, initial, asked, moved, rested, late, swallowed>>

HandOverSkipVersion ==
    /\ pass = "skip"
    /\ PrepareHandover(old, over)
    /\ pass' = "last"
    /\ UNCHANGED <<file, signals, realm, delivery, status, final, over, old, new, tracked>>

HandOverLast ==
    /\ pass = "last"
    /\ PrepareHandover(old \cup new, final)
    /\ status' = CleanedUp(status)
    /\ skip' = SkipAfterCleanUp
    /\ pass' = "tell" /\ old' = {} /\ new' = {} /\ over' = 0
    /\ UNCHANGED <<latest, unannounced, signals, realm, delivery, final, tracked>>

TellRealm ==
    /\ pass = "tell"
    /\ pass' = "idle" /\ posted' = TRUE
    /\ UNCHANGED <<file, woken, realm, delivery, notifier, callback, final, over, old, new, stage, tracked,
                   history>>

-----------------------------------------------------------------------------
(* The Realm's thread: delivering.                                         *)

(* CollectionNotifier::package_for_delivery, for all of P.  Whatever was   *)
(* packaged before and not delivered is gone with it.                      *)
Package(P) ==
    /\ toDeliver' = [n \in Notifier |-> IF n \in P THEN accumulated[n] ELSE toDeliver[n]]
    /\ accumulated' = [n \in Notifier |-> IF n \in P THEN {} ELSE accumulated[n]]
    /\ settled' = [n \in Notifier |-> IF n \in P THEN settled[n] \cup toDeliver[n] ELSE settled[n]]
    /\ UNCHANGED <<on, initial, skipNext, asked, rested, late>>

(* Those of P whose callbacks after_advance will call.                     *)
ToCall(P) == {n \in P : on[n] /\ (initial[n] => accumulated[n] # {})}

SendTo(P, v) ==
    /\ Package(P)
    /\ due' = ToCall(P) /\ packed' = v
    /\ sending' = (ToCall(P) # {})

SendNothing ==
    UNCHANGED <<callback, sending, due, packed, settled, asked, rested, late>>

HaveRun == {n \in Mine : hasRun[n]}

\* Mutant: any version will do.
ProcessWhatever(inRead, v) ==
    LET P == HaveRun
    IN  IF P = {} THEN SendNothing ELSE \E n \in P : SendTo(P, version[n])

ProcessAvailableAsync(inRead, v) ==
    LET P == {n \in HaveRun : inRead => version[n] = v}
    IN  IF P = {} THEN SendNothing ELSE \E n \in P : SendTo(P, version[n])

\* Mutant: off by one.
AdvanceToNewer ==
    IF HaveRun = {}
    THEN read' = latest /\ SendNothing
    ELSE \E n \in HaveRun :
            IF version[n] <= read
            THEN /\ Package(HaveRun)
                 /\ UNCHANGED <<read, sending, due, packed>>
            ELSE /\ SendTo(HaveRun, version[n])
                 /\ read' = version[n]

(* The version of a package is that of the last notifier in it.            *)
AdvanceToReady ==
    IF HaveRun = {}
    THEN read' = latest /\ SendNothing
    ELSE \E n \in HaveRun :
            IF version[n] < read
            THEN /\ Package(HaveRun)
                 /\ UNCHANGED <<read, sending, due, packed>>
            ELSE /\ SendTo(HaveRun, version[n])
                 /\ read' = version[n]

Notify ==
    /\ posted /\ Free /\ ~sending
    /\ posted' = FALSE
    /\ swallowed' = (swallowed \/ writing)
    /\ \/ writing /\ SendNothing /\ UNCHANGED read
       \/ ~writing /\ latest = read /\ ProcessAvailableAsync(reading, read) /\ UNCHANGED read
       \/ ~writing /\ latest # read /\ reading /\ AdvanceToReady
       \/ ~writing /\ latest # read /\ ~reading /\ ProcessAvailableAsync(reading, read) /\ UNCHANGED read
    /\ UNCHANGED <<file, woken, reading, writing, doing, target, waitsFor, notifier, worker, moved>>

(* after_advance calls the next callback.                                  *)
Call(n) ==
    /\ Free /\ n \in due
    /\ due' = due \ {n}
    /\ initial' = [initial EXCEPT ![n] = TRUE]
    /\ toDeliver' = [toDeliver EXCEPT ![n] = {}]
    /\ settled' = [settled EXCEPT ![n] =
          @ \cup IF initial[n] THEN toDeliver[n] ELSE Changes(0, packed)]
    /\ UNCHANGED <<file, signals, realm, doing, target, waitsFor, sending, packed, notifier,
                   on, accumulated, skipNext, worker, asked, moved, rested, late, swallowed>>

EndSending ==
    /\ Free /\ sending /\ due = {}
    /\ sending' = FALSE
    /\ UNCHANGED <<file, signals, realm, doing, target, waitsFor, due, packed, notifier, callback,
                   worker, history>>

-----------------------------------------------------------------------------
(* Its user: the read and write transactions.                              *)

(* NotifierPackage::package_and_wait: those with a callback are to reach   *)
(* the version; the worker is woken up if they have not.                   *)
Reached(S, v) == \A n \in S : on[n] => hasRun[n] /\ version[n] >= v

WaitFor(what, v) ==
    /\ doing' = what
    /\ target' = v /\ waitsFor' = Mine
    /\ woken' = (woken \/ ~Reached(Mine, v))

Refresh ==
    /\ Free /\ ~writing /\ ~sending /\ reading
    /\ WaitFor("refresh", latest)
    /\ UNCHANGED <<file, posted, realm, sending, due, packed, notifier, callback, worker, history>>

(* No read transaction: a new one is of the newest version.                *)
RefreshAnew ==
    /\ Free /\ ~writing /\ ~sending /\ ~reading
    /\ reading' = TRUE /\ read' = latest
    /\ ProcessAvailableAsync(TRUE, latest)
    /\ UNCHANGED <<file, signals, writing, doing, target, waitsFor, notifier, worker, moved, swallowed>>

BeginTransaction ==
    /\ Free /\ ~writing /\ ~sending /\ latest < MaxVersion
    /\ reading' = TRUE /\ read' = IF reading THEN read ELSE latest
    /\ WaitFor("begin", latest)
    /\ UNCHANGED <<file, posted, writing, sending, due, packed, notifier, callback, worker, history>>

(* The wait is over: what there is is packaged, the Realm advances to the  *)
(* version of it, and calls.  A package that is behind is dropped.         *)
Advance ==
    /\ doing \in {"refresh", "begin"} /\ Reached(waitsFor, target)
    /\ LET P == {n \in waitsFor : hasRun[n] /\ alive[n]}
       IN  IF P = {}
           THEN read' = latest /\ SendNothing
           ELSE \E n \in P :
                   IF version[n] < target
                   THEN Package(P) /\ read' = latest /\ UNCHANGED <<sending, due, packed>>
                   ELSE SendTo(P, version[n]) /\ read' = version[n]
    /\ writing' = (doing = "begin") /\ moved' = FALSE
    /\ doing' = "nothing" /\ target' = 0 /\ waitsFor' = {}
    /\ UNCHANGED <<file, signals, reading, notifier, worker, swallowed>>

(* In a callback, or between two: no notifications for this one.           *)
BeginWhileSending ==
    /\ Free /\ sending /\ ~writing /\ latest < MaxVersion
    /\ writing' = TRUE /\ reading' = TRUE /\ read' = latest
    /\ moved' = TRUE
    /\ UNCHANGED <<file, signals, delivery, notifier, callback, worker,
                   settled, asked, rested, late, swallowed>>

(* commitWriteTransactionWithoutNotifying: suppress_next_notification for  *)
(* the tokens of S, one lock at a time, and then the commit.               *)
CommitWithoutNotifying(S) ==
    /\ Free /\ writing
    /\ \A n \in S : on[n] /\ alive[n]
    /\ skipNext' = [n \in Notifier |-> skipNext[n] \/ n \in S]
    /\ asked' = [n \in Notifier |-> IF n \in S THEN asked[n] \cup ({latest + 1} \cap Touching) ELSE asked[n]]
    /\ doing' = "commit"
    /\ UNCHANGED <<file, signals, realm, target, waitsFor, sending, due, packed, notifier,
                   on, accumulated, toDeliver, initial, worker, settled, moved, rested, late, swallowed>>

\* Mutant: off by one.
CommitSkipsNext ==
    /\ doing = "commit"
    /\ latest' = latest + 1 /\ read' = latest + 1 /\ writing' = FALSE
    /\ skip' = IF Listed \cap Mine # {} THEN latest + 2 ELSE skip
    /\ woken' = TRUE
    /\ doing' = "nothing"
    /\ moved' = (moved \/ due # {}) /\ swallowed' = FALSE
    /\ UNCHANGED <<unannounced, posted, reading, target, waitsFor, sending, due, packed,
                   notifier, callback, worker, settled, asked, rested, late>>

CommitWrite ==
    /\ doing = "commit"
    /\ latest' = latest + 1 /\ read' = latest + 1 /\ writing' = FALSE
    /\ skip' = IF Listed \cap Mine # {} THEN latest + 1 ELSE skip
    /\ woken' = TRUE
    /\ doing' = "nothing"
    /\ moved' = (moved \/ due # {}) /\ swallowed' = FALSE
    /\ UNCHANGED <<unannounced, posted, reading, target, waitsFor, sending, due, packed,
                   notifier, callback, worker, settled, asked, rested, late>>

CancelTransaction ==
    /\ Free /\ writing
    /\ writing' = FALSE
    /\ UNCHANGED <<file, signals, reading, read, delivery, notifier, callback, worker, history>>

Invalidate ==
    /\ Free /\ ~sending /\ reading
    /\ writing' = FALSE /\ reading' = FALSE
    /\ moved' = TRUE
    /\ UNCHANGED <<file, signals, read, delivery, notifier, callback, worker,
                   settled, asked, rested, late, swallowed>>

(* Realm::read_group, at the first access after that.                      *)
ReadGroup ==
    /\ Free /\ ~reading
    /\ reading' = TRUE /\ read' = latest
    /\ UNCHANGED <<file, signals, writing, delivery, notifier, callback, worker, history>>

-----------------------------------------------------------------------------
(* Its user: notifiers and callbacks.                                      *)

RegisterNotifier(n) ==
    /\ Free /\ reading /\ ~writing /\ status[n] = "none"
    /\ status' = [status EXCEPT ![n] = "new"]
    /\ alive' = [alive EXCEPT ![n] = TRUE]
    /\ version' = [version EXCEPT ![n] = read]
    /\ UNCHANGED <<file, signals, realm, delivery, hasRun, rows, changes, callback, worker, history>>

(* The run on the way has been without the callback since it asked what to *)
(* look at, or is over.                                                    *)
MayMiss(n) == hasRun[n] /\ (stage[n] = "ran" \/ (stage[n] # "none" /\ n \notin tracked))

\* Mutant: nobody is woken up.
AddCallbackAsleep(n) ==
    /\ Free /\ ~writing /\ alive[n] /\ ~on[n]
    /\ on' = [on EXCEPT ![n] = TRUE]
    /\ late' = [late EXCEPT ![n] = MayMiss(n)]
    /\ woken' = woken
    /\ UNCHANGED <<file, posted, realm, delivery, notifier, accumulated, toDeliver, initial, skipNext,
                   worker, settled, asked, moved, rested, swallowed>>

AddCallback(n) ==
    /\ Free /\ ~writing /\ alive[n] /\ ~on[n]
    /\ on' = [on EXCEPT ![n] = TRUE]
    /\ late' = [late EXCEPT ![n] = MayMiss(n)]
    /\ woken' = TRUE
    /\ UNCHANGED <<file, posted, realm, delivery, notifier, accumulated, toDeliver, initial, skipNext,
                   worker, settled, asked, moved, rested, swallowed>>

(* On any thread.                                                          *)
RemoveCallback(n) ==
    /\ on[n]
    /\ on' = [on EXCEPT ![n] = FALSE]
    /\ accumulated' = [accumulated EXCEPT ![n] = {}]
    /\ toDeliver' = [toDeliver EXCEPT ![n] = {}]
    /\ initial' = [initial EXCEPT ![n] = FALSE]
    /\ skipNext' = [skipNext EXCEPT ![n] = FALSE]
    /\ due' = due \ {n}
    /\ settled' = [settled EXCEPT ![n] = {}]
    /\ asked' = [asked EXCEPT ![n] = {}]
    /\ late' = [late EXCEPT ![n] = FALSE]
    /\ UNCHANGED <<file, signals, realm, doing, target, waitsFor, sending, packed, notifier, worker,
                   moved, rested, swallowed>>

(* The results are released on the Realm's thread.                         *)
Unregister(n) ==
    /\ Free /\ alive[n]
    /\ alive' = [alive EXCEPT ![n] = FALSE]
    /\ UNCHANGED <<file, signals, realm, delivery, status, version, hasRun, rows, changes, callback,
                   worker, history>>

-----------------------------------------------------------------------------
Work ==
    \/ RunAsyncNotifiers \/ HandOverSkipVersion \/ HandOverLast \/ TellRealm
    \/ \E n \in Notifier : Run(n)

Deliver == Notify \/ Advance \/ EndSending \/ \E n \in Notifier : Call(n)

Use ==
    \/ Refresh \/ RefreshAnew \/ BeginTransaction \/ BeginWhileSending
    \/ \E S \in SUBSET Notifier : CommitWithoutNotifying(S)
    \/ CommitWrite \/ CancelTransaction \/ Invalidate \/ ReadGroup
    \/ \E n \in Notifier :
          RegisterNotifier(n) \/ AddCallback(n) \/ RemoveCallback(n) \/ Unregister(n)

Next == OtherCommit \/ NotifyOthers \/ Work \/ Deliver \/ Use

Spec == Init /\ [][Next]_vars

(* The worker runs, a notification posted on the thread's run loop comes,  *)
(* and the user's callbacks and write transactions end.  Each of these     *)
(* steps changes the variables its fairness is about.                      *)
FairSpec ==
    /\ Spec
    /\ WF_unannounced(NotifyOthers)
    /\ WF_<<pass, stage>>(Work)
    /\ WF_<<posted, doing, sending, due>>(Deliver)
    /\ WF_writing(CommitWrite \/ CancelTransaction)

-----------------------------------------------------------------------------
(* The notifiers of the worker's list have reached the same version, and   *)
(* it never goes past a commit that it is to make a stop at: what          *)
(* run_async_notifiers asserts when it makes one (REALM_ASSERT at lines    *)
(* 821 and 822), and why choosing the version under the lock is enough.    *)
SkipIsAhead ==
    /\ \A m, n \in Mine : hasRun[m] /\ hasRun[n] => version[m] = version[n]
    /\ pass = "skip" => old # {} /\ over <= final
    /\ skip # 0 /\ pass \in {"skip", "last"} => final < skip
    /\ \A n \in Mine : hasRun[n] =>
          /\ version[n] <= latest
          /\ skip # 0 => version[n] < skip
          /\ pass = "skip" => version[n] <= over

(* Nothing is called for another version than the Realm is at, as long as  *)
(* nobody changed that behind the notifiers' back: by a write transaction  *)
(* begun in a callback, or by invalidating the Realm.                      *)
DueAgreesWithRead == due # {} /\ reading /\ ~moved => packed = read

(* advance_to_ready discards what it has packaged only if the read version *)
(* was changed outside of its control, as its comment says (lines 903 to   *)
(* 905), and so does every other way of packaging.  A notifier that has    *)
(* skipped a run although there were changes is left out: it finds them at *)
(* its next run, whatever the Realm has been told of in the meantime.      *)
DiscardsOnlyWhenMoved ==
    [][\A n \in Notifier :
          on'[n] /\ initial[n] /\ toDeliver[n] # {} /\ toDeliver'[n] # toDeliver[n]
              => moved \/ rested[n] \/ n \in due]_vars

(* From its first call on, a callback has been told of every change up to  *)
(* the version its notifier is at, or was spared it, or is still to be     *)
(* told, and never twice.  Left out is one whose notifier skipped a run    *)
(* although there were changes, and one that was added while the worker    *)
(* was between asking for the changes it needs (do_add_required_change_    *)
(* info) and handing them over: that run may have missed some for it.      *)
Exactly(n) ==
    /\ settled[n] \cup toDeliver[n] \cup accumulated[n] = Changes(0, version[n])
    /\ settled[n] \cap toDeliver[n] = {}
    /\ (settled[n] \cup toDeliver[n]) \cap accumulated[n] = {}

TellsExactly ==
    \A n \in Notifier : on[n] /\ initial[n] /\ alive[n] /\ ~rested[n] /\ ~late[n] => Exactly(n)

(* A callback is spared only what it asked to be spared: the pass that     *)
(* takes its skip mark away hands over the skipped commit and no other.    *)
(* A write transaction begun in a callback does not wait for the pass that *)
(* is on the way, and there it is spared what that one has found.          *)
SparesOnlyTheAsked ==
    [][\A n \in Notifier :
          skipNext[n] /\ ~skipNext'[n] /\ on'[n] /\ alive[n] /\ ~moved /\ ~rested[n]
              => changes[n] \subseteq asked[n]]_vars

(* Again and again, a callback has been told of all there is, or was       *)
(* spared it, unless the notification of it fell into a write transaction  *)
(* that was cancelled, or it was added when a run could miss some for it.  *)
ChangesAreTold ==
    \A n \in Notifier :
        []<>(on[n] /\ alive[n] /\ ~late[n] /\ ~(swallowed /\ ~writing)
                => Changes(0, latest) \subseteq settled[n])

(* What RLMRealm.h says of commitWriteTransactionWithoutNotifying: the     *)
(* block is not told of the changes of this transaction.                   *)
SuppressedIsNotTold ==
    \A n \in Notifier : on[n] /\ initial[n] => (toDeliver[n] \cup accumulated[n]) \cap asked[n] = {}

(* What the comment at m_have_callbacks says: that it is stale costs some  *)
(* extra work at worst, and never a change.                                *)
NoChangeIsMissed ==
    \A n \in Notifier : on[n] /\ initial[n] /\ alive[n] =>
        Changes(0, version[n]) \subseteq settled[n] \cup toDeliver[n] \cup accumulated[n]

-----------------------------------------------------------------------------
(* Why the properties hold: an invariant that every step keeps.            *)

Running == pass \in {"skip", "last"}

(* The worker runs all the notifiers of its list: those it found there,    *)
(* which have run before, and the new ones, which have not.                *)
ListsAreExact ==
    /\ ~Running => old = {} /\ new = {} /\ over = 0
    /\ Running => Listed = old \cup new
    /\ \A n \in Notifier :
          /\ n \in old \/ (status[n] = "listed" /\ n \notin new) => hasRun[n]
          /\ n \in new \/ status[n] \in {"none", "new"} => ~hasRun[n]
          /\ alive[n] => status[n] \in {"new", "listed"}

(* They stay together, and behind the versions they are on the way to.     *)
VersionsAgree ==
    /\ \A m, n \in Listed : hasRun[m] /\ hasRun[n] => version[m] = version[n]
    /\ \A n \in Listed : hasRun[n] =>
          /\ version[n] <= latest
          /\ skip # 0 => version[n] < skip
          /\ Running => version[n] <= final
          /\ pass = "skip" => version[n] <= over
    /\ Running => final <= latest /\ (skip # 0 => final < skip)
    /\ pass = "skip" => over # 0 /\ over <= final /\ old # {}
    /\ skip # 0 => Listed # {} /\ skip <= latest

(* A writer is at the newest version and keeps others from committing, and *)
(* nobody joins or leaves those the Realm waits for.                       *)
TransactionsFit ==
    /\ read <= latest
    /\ doing = "commit" => writing
    /\ writing \/ doing = "begin" => latest < MaxVersion
    /\ writing => reading /\ read = latest
    /\ doing \in {"refresh", "begin"} =>
          /\ reading /\ ~writing /\ ~sending
          /\ waitsFor = Mine /\ target # 0 /\ target <= latest
    /\ doing = "begin" => target = latest
    /\ due # {} => sending
    /\ ~reading => moved

(* What there is for a callback only if there is one, and only after its   *)
(* notifier has run.                                                       *)
CallbacksFit ==
    \A n \in Notifier :
        /\ ~on[n] => /\ accumulated[n] = {} /\ toDeliver[n] = {} /\ settled[n] = {} /\ asked[n] = {}
                     /\ ~initial[n] /\ ~skipNext[n] /\ ~late[n] /\ n \notin due
        /\ status[n] = "none" => ~on[n]
        /\ initial[n] \/ n \in due => hasRun[n]
        /\ ~hasRun[n] => changes[n] = {} /\ accumulated[n] = {} /\ toDeliver[n] = {} /\ settled[n] = {}

(* The worker is busy only with those it has taken, and looks at all that  *)
(* is modified for a callback that was there in time.                      *)
StagesFit ==
    \A n \in Notifier :
        /\ stage[n] # "none" => Running /\ n \in old \cup new
        /\ n \in new => stage[n] # "none" /\ (pass = "skip" => stage[n] = "asked")
        /\ n \in tracked => stage[n] \in {"asked", "running"}
        /\ stage[n] \in {"asked", "running"} /\ hasRun[n] /\ on[n] /\ ~late[n] => n \in tracked

(* The version that the run on the way has taken a notifier to.            *)
HasReached(n) == IF stage[n] = "ran" THEN Destination ELSE version[n]

(* The rows a notifier compares with are as good as those of the version   *)
(* it is at, and what it has found is what changed since.                  *)
RowsAreCurrent ==
    \A n \in Notifier : alive[n] /\ ~rested[n] =>
        /\ hasRun[n] =>
              /\ rows[n] <= HasReached(n)
              /\ Changes(rows[n], HasReached(n)) = {}
              /\ changes[n] \subseteq Changes(version[n], HasReached(n))
              /\ on[n] /\ ~late[n] => changes[n] = Changes(version[n], HasReached(n))
        /\ stage[n] = "ran" /\ n \in new => rows[n] = final

(* Before the first call, too, nothing of a later version is told, and     *)
(* the first call leaves nothing out that is not still to be told.         *)
NothingTwice ==
    \A n \in Notifier : on[n] /\ alive[n] /\ hasRun[n] /\ ~rested[n] /\ ~late[n] =>
        /\ settled[n] \cup toDeliver[n] \cup accumulated[n] \subseteq Changes(0, version[n])
        /\ n \in due /\ ~initial[n] =>
              /\ packed <= version[n]
              /\ settled[n] \cup Changes(0, packed) \cup accumulated[n] = Changes(0, version[n])
              /\ (settled[n] \cup Changes(0, packed)) \cap accumulated[n] = {}

(* A notifier is not behind what is packed of it, and behind the Realm by  *)
(* at most the Realm's own commit, of which it knows nothing yet; a writer *)
(* has been told everything; what is packed is going to be called.         *)
InStep ==
    \A n \in Notifier :
        /\ n \in due /\ alive[n] => version[n] >= packed
        /\ on[n] /\ initial[n] /\ alive[n] /\ ~moved =>
              /\ version[n] + 1 >= read
              /\ ~rested[n] /\ version[n] < read => accumulated[n] = {}
        /\ writing /\ ~moved /\ on[n] /\ alive[n] =>
              /\ hasRun[n] /\ version[n] = read
              /\ ~rested[n] => accumulated[n] = {}
        /\ initial[n] /\ alive[n] /\ ~rested[n] /\ toDeliver[n] # {} /\ n \notin due => moved

(* The version that the next handover takes a notifier to which has a skip *)
(* mark.                                                                   *)
Skipped(n) ==
    CASE pass = "skip" -> over
      [] pass = "last" -> final
      [] OTHER         -> skip

(* The skip mark is there for the commit it was set for: its notifier is   *)
(* behind that commit, and its next handover makes a stop there.           *)
SkipsAreAhead ==
    \A n \in Notifier : skipNext[n] /\ alive[n] =>
        /\ doing # "commit" /\ hasRun[n] => version[n] < latest
        /\ doing \in {"refresh", "begin"} /\ hasRun[n] => version[n] < target
        /\ ~moved => hasRun[n]
        /\ ~moved /\ ~rested[n] /\ doing # "commit" =>
              /\ pass \in {"idle", "tell"} => skip # 0
              /\ Changes(version[n], Skipped(n)) \subseteq asked[n]
        /\ ~moved /\ doing = "commit" => {latest + 1} \cap Touching \subseteq asked[n]

(* The notifiers, the package and the Realm's transactions always fit      *)
(* together: what the properties above follow from.                        *)
Inv ==
    /\ TypeOK /\ ListsAreExact /\ VersionsAgree /\ TransactionsFit /\ CallbacksFit
    /\ StagesFit /\ RowsAreCurrent /\ NothingTwice
    /\ DueAgreesWithRead /\ TellsExactly /\ InStep /\ SkipsAreAhead
=============================================================================
