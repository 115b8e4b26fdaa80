---------------------------- MODULE SyncSession ----------------------------
(***************************************************************************)
(* One SyncSession of Realm's object store (sync/sync_session.cpp): the    *)
(* state machine that owns the sync client's sync::Session for one Realm   *)
(* file, the functions that wait for the upload to complete, and the ways  *)
(* in which errors, closing, logging out and a client resync end the wait. *)
(*                                                                         *)
(* Everything between taking and releasing m_state_mutex is one step.  The *)
(* code that runs after the release (calling the functions that were moved *)
(* out, the second half of handle_error, the loop of update_configuration, *)
(* the revival after a resync) is a later step of the same thread, with    *)
(* the steps of the other threads in between.  The sync client's event     *)
(* loop is the thread Loop; its sync::Session is external and is modelled  *)
(* by what its documentation promises.                                     *)
(***************************************************************************)
EXTENDS Integers, FiniteSets

CONSTANTS
    AppThreads,     \* the threads of the application
    Loop,           \* the thread that runs the sync client's event loop
    Waiters,        \* the functions given to wait_for_upload_completion
    Policies,       \* the stop policies that are configured
    Cancel,         \* SyncConfig::cancel_waits_on_nonfatal_error
    MaxCommits,     \* bound: local commits
    MaxSessions,    \* bound: sync::Sessions created
    MaxDeaths,      \* bound: how often the session starts dying
    MaxResyncs      \* bound: client resyncs

ASSUME SessionAssumption ==
    /\ Loop \notin AppThreads
    /\ Policies \subseteq {"Immediately", "LiveIndefinitely", "AfterChangesUploaded"}
    /\ Cancel \in BOOLEAN
    /\ {MaxCommits, MaxSessions, MaxDeaths, MaxResyncs} \subseteq Nat

Threads  == AppThreads \cup {Loop}
Codes    == {"ok", "aborted", "error"}
States   == {"waiting_for_access_token", "active", "dying", "inactive"}

\* What remains of a call once the mutex has been released.
None   == [do |-> "none"]
Revive == [do |-> "revive"]
Conts  == {None, Revive}
          \cup [do : {"update"}, policy : Policies]
          \cup [do : {"error"}, kind : {"cancels", "token_expired", "delete", "client_reset"}]
          \cup [do : {"restore"}, who : SUBSET Waiters]

\* A completion handler the sync client has yet to run: of which
\* sync::Session, on behalf of the waiting functions or of the dying state,
\* with the count it captured, and the last commit announced by then.
Handlers == [session : 1..MaxSessions, for : {"callbacks", "death"}, count : Nat, mark : 0..MaxCommits]

VARIABLES
    state,          \* m_state
    policy,         \* m_config.stop_policy
    session,        \* m_session: 0, or which one
    made,           \* how many sync::Sessions have been made
    deferredClose,  \* m_deferred_close
    deferredCommit, \* m_deferred_commit_notification: 0, or the version
    deathCount,     \* m_death_count
    resyncs,        \* m_client_resync_counter
    callbacks,      \* m_upload_completion_callbacks
    crashed,        \* a REALM_ASSERT has failed
    calling,        \* the functions a thread has moved out and has to call, with what code
    next,           \* what the thread does after that
    pending,        \* the completion handlers the client holds
    commits,        \* the local commits in the file
    announced,      \* the last one m_session has been told of
    uploaded,       \* the last one the server has acknowledged
    asked,          \* history: the last commit when a function began to wait
    unheard         \* history: a commit was made while nobody listened

stateVars  == <<state, policy, session, made, deferredClose, deferredCommit, deathCount, resyncs, crashed>>
threadVars == <<calling, next>>
fileVars   == <<commits, announced, uploaded, unheard>>
waitVars   == <<callbacks, pending, asked>>
vars == <<stateVars, threadVars, fileVars, waitVars>>

Idle == -1

MaxOf(a, b) == IF a > b THEN a ELSE b

Init ==
    /\ state = "inactive" /\ policy \in Policies /\ session = 0 /\ made = 0
    /\ deferredClose = FALSE /\ deferredCommit = 0 /\ deathCount = 0 /\ resyncs = 0
    /\ crashed = FALSE
    /\ calling = [t \in Threads |-> {}]
    /\ next = [t \in Threads |-> None]
    /\ callbacks = {} /\ pending = {}
    /\ asked = [w \in Waiters |-> Idle]
    /\ commits = 0 /\ announced = 0 /\ uploaded = 0 /\ unheard = FALSE

Waiting == {w \in Waiters : asked[w] # Idle}

\* The thread is inside no call.
Free(t) == ~crashed /\ calling[t] = {} /\ next[t] = None
\* The thread has called everything it had to and goes on with the rest.
Resuming(t, what) == ~crashed /\ calling[t] = {} /\ next[t].do = what

-----------------------------------------------------------------------------
(* Entering the states *)

\* add_completion_callback: the handler remembers the resync counter.
CompletionHandler(s, ann) == [session |-> s, for |-> "callbacks", count |-> resyncs, mark |-> ann]
\* Flawed: the handler remembers the count from before the increment.
DeathHandlerOldCount(s, n, ann) == [session |-> s, for |-> "death", count |-> n - 1, mark |-> ann]

\* Dying::enter_state: the handler remembers the death count.
DeathHandler(s, n, ann) == [session |-> s, for |-> "death", count |-> n, mark |-> ann]

\* Flawed: entering the active state registers nothing.
HandlersOnActiveNone(s, ann) == {}

\* Active::enter_state registers the functions that are waiting already.
HandlersOnActive(s, ann) == IF callbacks = {} THEN {} ELSE {CompletionHandler(s, ann)}

\* Flawed: the functions are copied, not moved.
MoveOutCopies(t, c) ==
    /\ calling' = [calling EXCEPT ![t] = callbacks \X {c}]
    /\ callbacks' = callbacks

\* A thread moves the waiting functions out, to call them after unlocking.
MoveOut(t, c) ==
    /\ calling' = [calling EXCEPT ![t] = callbacks \X {c}]
    /\ callbacks' = {}

\* Flawed: the sync::Session is kept.
EnterInactiveKeepsSession(t) ==
    /\ state' = "inactive" /\ session' = session
    /\ MoveOut(t, "aborted")

\* advance_state(inactive) from another state: the sync::Session goes, and
\* whoever waits is told that the operation was aborted.
EnterInactive(t) ==
    /\ state' = "inactive" /\ session' = 0
    /\ MoveOut(t, "aborted")

\* Flawed: a close that was put off is not forgotten.
EnterWaitingKeepsClose ==
    /\ state' = "waiting_for_access_token"
    /\ deferredClose' = deferredClose

EnterWaiting ==
    /\ state' = "waiting_for_access_token"
    /\ deferredClose' = FALSE

\* advance_state(dying), with a sync::Session.
EnterDying ==
    /\ deathCount < MaxDeaths
    /\ state' = "dying"
    /\ deathCount' = deathCount + 1

-----------------------------------------------------------------------------
(* Operations of the application *)

\* The part of revive_if_needed that needs the mutex (the binding is asked
\* for a token after it; its answer is RefreshToken).
ReviveIfNeeded ==
    \/ /\ state = "inactive"
       /\ EnterWaiting
       /\ UNCHANGED pending
    \/ /\ state = "waiting_for_access_token"
       /\ deferredClose' = FALSE
       /\ UNCHANGED <<state, pending>>
    \/ /\ state = "dying"
       /\ state' = "active"
       /\ pending' = pending \cup HandlersOnActive(session, announced)
       /\ UNCHANGED deferredClose
    \/ /\ state = "active"
       /\ UNCHANGED <<state, deferredClose, pending>>

ReviveSession(t) ==
    /\ Free(t) /\ state # "active"
    /\ ReviveIfNeeded
    /\ UNCHANGED <<policy, session, made, deferredCommit, deathCount, resyncs, crashed,
                   threadVars, fileVars, callbacks, asked>>

\* refresh_access_token while waiting for it: the sync::Session is made if
\* there is none (which announces what the file holds), the commit that
\* could not be announced is, the session becomes active, and the close
\* that was put off is carried out (PutOffIsNotImmediate: it is never one
\* that would have to end the session at once).
RefreshToken(t) ==
    LET fresh == session = 0
        s     == IF fresh THEN made + 1 ELSE session
        ann   == MaxOf(IF fresh THEN commits ELSE announced, deferredCommit)
    IN  /\ Free(t) /\ state = "waiting_for_access_token"
        /\ fresh => made < MaxSessions
        /\ made' = IF fresh THEN s ELSE made
        /\ announced' = ann
        /\ unheard' = (unheard /\ ann < commits)
        /\ deferredCommit' = 0
        /\ \/ /\ ~deferredClose \/ policy = "LiveIndefinitely"
              /\ state' = "active" /\ session' = s
              /\ pending' = pending \cup HandlersOnActive(s, ann)
              /\ UNCHANGED deathCount
           \/ /\ deferredClose /\ policy = "AfterChangesUploaded"
              /\ EnterDying
              /\ session' = s
              /\ pending' = pending \cup HandlersOnActive(s, ann) \cup {DeathHandler(s, deathCount + 1, ann)}
        /\ UNCHANGED <<policy, callbacks, threadVars, deferredClose, resyncs, crashed, commits, uploaded, asked>>

\* Flawed: a session that waits for its token drops the announcement.
CommitUndeferred(t) ==
    /\ Free(t) /\ commits < MaxCommits
    /\ commits' = commits + 1
    /\ announced' = IF state = "active" THEN commits + 1 ELSE announced
    /\ unheard' = (state \in {"dying", "inactive"} \/ (unheard /\ state # "active"))
    /\ UNCHANGED <<stateVars, uploaded, threadVars, waitVars>>

\* A local commit, and nonsync_transact_notify: only an active session
\* passes it on; one that waits for its token remembers it; while dying or
\* inactive the announcement falls on deaf ears.
Commit(t) ==
    /\ Free(t) /\ commits < MaxCommits
    /\ commits' = commits + 1
    /\ announced' = IF state = "active" THEN commits + 1 ELSE announced
    /\ deferredCommit' = IF state = "waiting_for_access_token" THEN commits + 1 ELSE deferredCommit
    /\ unheard' = (state \in {"dying", "inactive"} \/ (unheard /\ state # "active"))
    /\ UNCHANGED <<state, policy, session, made, deferredClose, deathCount, resyncs, crashed,
                   uploaded, threadVars, waitVars>>

\* wait_for_upload_completion: only the first function in the list makes
\* the session ask the client, and only while active or dying.
WaitForUpload(t, w) ==
    /\ Free(t) /\ asked[w] = Idle
    /\ pending' = IF callbacks = {} /\ state \in {"active", "dying"}
                    THEN pending \cup {CompletionHandler(session, announced)}
                    ELSE pending
    /\ callbacks' = callbacks \cup {w}
    /\ asked' = [asked EXCEPT ![w] = commits]
    /\ UNCHANGED <<stateVars, threadVars, fileVars>>

\* close(), by name or because the last external reference was dropped.
Close(t) ==
    /\ Free(t)
    /\ \/ /\ state \in {"active", "waiting_for_access_token"} /\ policy = "Immediately"
          /\ EnterInactive(t)
          /\ UNCHANGED <<deferredClose, deathCount, next, pending>>
       \/ /\ state = "waiting_for_access_token" /\ policy # "Immediately"
          /\ deferredClose' = TRUE
          /\ UNCHANGED <<state, session, deathCount, callbacks, threadVars, pending>>
       \/ /\ state = "active" /\ policy = "AfterChangesUploaded"
          /\ EnterDying
          /\ pending' = pending \cup {DeathHandler(session, deathCount + 1, announced)}
          /\ UNCHANGED <<session, deferredClose, callbacks, threadVars>>
    /\ UNCHANGED <<policy, made, deferredCommit, resyncs, crashed, fileVars, asked>>

LogOut(t) ==
    /\ Free(t) /\ state # "inactive"
    /\ EnterInactive(t)
    /\ UNCHANGED <<policy, made, deferredClose, deferredCommit, deathCount, resyncs, crashed,
                   next, fileVars, pending, asked>>

UpdateConfiguration(t, p) ==
    /\ Free(t)
    /\ next' = [next EXCEPT ![t] = [do |-> "update", policy |-> p]]
    /\ UNCHANGED <<stateVars, calling, fileVars, waitVars>>

\* One turn of its loop: back to inactive until it stays there.
UpdateLoop(t) ==
    /\ Resuming(t, "update")
    /\ \/ /\ state # "inactive"
          /\ EnterInactive(t)
          /\ UNCHANGED <<policy, next>>
       \/ /\ state = "inactive"
          /\ policy' = next[t].policy
          /\ next' = [next EXCEPT ![t] = Revive]
          /\ UNCHANGED <<state, session, calling, callbacks>>
    /\ UNCHANGED <<made, deferredClose, deferredCommit, deathCount, resyncs, crashed,
                   fileVars, pending, asked>>

-----------------------------------------------------------------------------
(* After the mutex has been released *)

Call(t, w, c) ==
    /\ ~crashed /\ <<w, c>> \in calling[t]
    /\ calling' = [calling EXCEPT ![t] = @ \ {<<w, c>>}]
    /\ asked' = [asked EXCEPT ![w] = Idle]
    /\ UNCHANGED <<stateVars, next, fileVars, callbacks, pending>>

ReviveLater(t) ==
    /\ Resuming(t, "revive")
    /\ ReviveIfNeeded
    /\ next' = [next EXCEPT ![t] = None]
    /\ UNCHANGED <<policy, session, made, deferredCommit, deathCount, resyncs, crashed,
                   calling, fileVars, callbacks, asked>>

-----------------------------------------------------------------------------
(* The event loop of the sync client *)

\* The server acknowledges changes while there is a sync::Session; what was
\* not announced may be picked up too.
Upload(v) ==
    /\ session # 0 /\ ~crashed
    /\ uploaded < v /\ v <= commits
    /\ uploaded' = v
    /\ UNCHANGED <<stateVars, threadVars, commits, announced, unheard, waitVars>>

\* A completion handler runs: with success once everything announced by its
\* registration is uploaded, cancelled once its sync::Session is gone.
Answers(h) == (IF uploaded >= h.mark THEN {"ok"} ELSE {})
              \cup (IF h.session # session THEN {"aborted"} ELSE {})

\* The handler of add_completion_callback.
CompleteWaits(h, c) ==
    /\ h.for = "callbacks"
    /\ IF h.count = resyncs THEN MoveOut(Loop, c)
                            ELSE UNCHANGED <<callbacks, calling>>
    /\ UNCHANGED <<state, session>>

\* Flawed: any death's handler ends the session.
CompleteDeathAny(h) ==
    /\ h.for = "death"
    /\ IF state = "dying"
         THEN EnterInactive(Loop)
         ELSE UNCHANGED <<state, session, callbacks, calling>>

\* The handler of Dying::enter_state.
CompleteDeath(h) ==
    /\ h.for = "death"
    /\ IF state = "dying" /\ h.count = deathCount
         THEN EnterInactive(Loop)
         ELSE UNCHANGED <<state, session, callbacks, calling>>

Complete(h) ==
    /\ Free(Loop) /\ h \in pending
    /\ \E c \in Answers(h) : CompleteWaits(h, c) \/ CompleteDeath(h)
    /\ pending' = pending \ {h}
    /\ UNCHANGED <<policy, made, deferredClose, deferredCommit, deathCount, resyncs, crashed,
                   next, fileVars, asked>>

\* The connection listener calls handle_error, whichever sync::Session the
\* error comes from.  A dying session takes care of it; otherwise the rest
\* of handle_error follows in a section of its own.
HandleError(kind, fatal) ==
    /\ Free(Loop) /\ made > 0
    /\ \/ /\ state = "dying" /\ fatal
          /\ EnterInactive(Loop)
          /\ UNCHANGED next
       \/ /\ state # "dying"
          /\ kind = "cancels" => fatal \/ Cancel
          /\ kind = "client_reset" => resyncs < MaxResyncs
          /\ next' = [next EXCEPT ![Loop] = [do |-> "error", kind |-> kind]]
          /\ UNCHANGED <<state, session, calling, callbacks>>
    /\ UNCHANGED <<policy, made, deferredClose, deferredCommit, deathCount, resyncs, crashed,
                   fileVars, pending, asked>>

\* advance_state(inactive) of a session that is inactive by now.
AssertFails ==
    /\ crashed' = TRUE
    /\ UNCHANGED <<state, session, resyncs, calling, callbacks>>

\* Errors that only cancel the waits (all fatal ones, bad_authentication,
\* and the others if the configuration says so).
ErrorCancels ==
    /\ next[Loop].kind = "cancels"
    /\ MoveOut(Loop, "error")
    /\ next' = [next EXCEPT ![Loop] = None]
    /\ UNCHANGED <<state, session, resyncs, deferredClose, crashed>>

\* Active::access_token_expired; no other state minds.
ErrorTokenExpired ==
    /\ next[Loop].kind = "token_expired"
    /\ IF state = "active" THEN EnterWaiting ELSE UNCHANGED <<state, deferredClose>>
    /\ next' = [next EXCEPT ![Loop] = None]
    /\ UNCHANGED <<session, resyncs, crashed, calling, callbacks>>

\* The server no longer wants the file.
ErrorDelete ==
    /\ next[Loop].kind = "delete"
    /\ \/ state # "inactive" /\ EnterInactive(Loop) /\ UNCHANGED <<resyncs, crashed>>
       \/ state = "inactive" /\ AssertFails
    /\ next' = [next EXCEPT ![Loop] = None]
    /\ UNCHANGED deferredClose

\* Client reset in the mode Recover: the waiting functions are put aside,
\* not aborted, and nobody is to be called by the handlers of old.
ErrorClientReset ==
    /\ next[Loop].kind = "client_reset"
    /\ \/ /\ state # "inactive"
          /\ resyncs' = resyncs + 1
          /\ state' = "inactive" /\ session' = 0
          /\ callbacks' = {}
          /\ next' = [next EXCEPT ![Loop] = [do |-> "restore", who |-> callbacks]]
          /\ UNCHANGED <<calling, crashed>>
       \/ /\ state = "inactive"
          /\ AssertFails
          /\ next' = [next EXCEPT ![Loop] = None]
    /\ UNCHANGED deferredClose

HandleErrorLater ==
    /\ Resuming(Loop, "error")
    /\ ErrorCancels \/ ErrorTokenExpired \/ ErrorDelete \/ ErrorClientReset
    /\ UNCHANGED <<policy, made, deferredCommit, deathCount, fileVars, pending, asked>>

\* advance_state has released the mutex, so the functions are put back
\* without it, over whatever has been registered in the meantime.
RestoreCallbacks ==
    /\ Resuming(Loop, "restore")
    /\ callbacks' = next[Loop].who
    /\ next' = [next EXCEPT ![Loop] = Revive]
    /\ UNCHANGED <<stateVars, calling, fileVars, pending, asked>>

-----------------------------------------------------------------------------
Kinds == {"cancels", "token_expired", "delete", "client_reset"}

AppNext(t) ==
    \/ ReviveSession(t) \/ RefreshToken(t) \/ Commit(t) \/ Close(t) \/ LogOut(t)
    \/ \E w \in Waiters : WaitForUpload(t, w)
    \/ \E p \in Policies : UpdateConfiguration(t, p)

\* What a thread does to come to the end of a call.
Continue(t) ==
    \/ \E w \in Waiters, c \in Codes : Call(t, w, c)
    \/ UpdateLoop(t)
    \/ ReviveLater(t)
    \/ t = Loop /\ (HandleErrorLater \/ RestoreCallbacks)

LoopNext ==
    \/ \E v \in 1..MaxCommits : Upload(v)
    \/ \E h \in pending : Complete(h)
    \/ \E kind \in Kinds, fatal \in BOOLEAN : HandleError(kind, fatal)

Next ==
    \/ \E t \in AppThreads : AppNext(t)
    \/ \E t \in Threads : Continue(t)
    \/ LoopNext

Spec == Init /\ [][Next]_vars

\* Some handler that was registered for this purpose runs.
CompleteOne(for) == \E h \in pending : h.for = for /\ Complete(h)

\* A call that has begun comes to its end, the client uploads what it was
\* told of, and it does not stop running the completion handlers it can
\* run, however often its event loop is busy with something else: "as long
\* as the client's event loop thread is running, all completion handlers
\* will be called".
Fairness ==
    /\ \A t \in Threads : WF_vars(Continue(t))
    /\ WF_vars(Upload(announced))
    /\ SF_vars(CompleteOne("callbacks")) /\ SF_vars(CompleteOne("death"))

FairSpec == Spec /\ Fairness

-----------------------------------------------------------------------------
(* Properties *)

TypeOK ==
    /\ state \in States /\ policy \in Policies
    /\ made \in 0..MaxSessions /\ session \in 0..made
    /\ deferredClose \in BOOLEAN /\ crashed \in BOOLEAN /\ unheard \in BOOLEAN
    /\ commits \in 0..MaxCommits /\ deferredCommit \in 0..commits
    /\ announced \in 0..commits /\ uploaded \in 0..commits
    /\ deathCount \in 0..MaxDeaths /\ resyncs \in 0..MaxResyncs
    /\ callbacks \in SUBSET Waiters
    /\ calling \in [Threads -> SUBSET (Waiters \X Codes)]
    /\ next \in [Threads -> Conts]
    /\ pending \in SUBSET Handlers
    /\ asked \in [Waiters -> {Idle} \cup 0..commits]

\* An active or dying session has a sync::Session to talk to, and an
\* inactive one has let go of it, whichever thread moved it (the asserts of
\* wait_for_completion and update_configuration).
SessionIsThere ==
    /\ state \in {"active", "dying"} => session # 0
    /\ state = "inactive" => session = 0

\* A close that was put off is of a policy that allows that: the policy only
\* changes while inactive, and leaving that state forgets the close.
PutOffIsNotImmediate ==
    state = "waiting_for_access_token" /\ deferredClose => policy # "Immediately"

\* The functions put aside by a resync that is under way.
PutAside == IF next[Loop].do = "restore" THEN next[Loop].who ELSE {}

HasToCall(t, w) == \E c \in Codes : <<w, c>> \in calling[t]

\* Every function that still waits is kept in at most one place (the list,
\* one thread's moved-out batch, or a resync's), and every function kept is
\* still waiting, so none can be called twice.  Only a resync, which puts
\* its functions back over newer ones, loses any.
WaitersAreKept ==
    \A w \in Waiters :
        /\ w \in callbacks => w \in Waiting /\ w \notin PutAside
        /\ w \in callbacks \cup PutAside => \A t \in Threads : ~HasToCall(t, w)
        /\ w \in PutAside => w \in Waiting
        /\ \A t \in Threads : HasToCall(t, w) =>
              w \in Waiting /\ \A u \in Threads \ {t} : ~HasToCall(u, w)
        /\ \A t \in Threads, c, d \in Codes :
              <<w, c>> \in calling[t] /\ <<w, d>> \in calling[t] => c = d
        /\ w \in Waiting /\ resyncs = 0 =>
              w \in callbacks \/ \E t \in Threads : HasToCall(t, w)

\* While the session is active or dying, somebody will come for the waiting
\* functions: a handler of this sync::Session, or of one the client is yet
\* to cancel.  Only a resync can leave them without.
WaitsAreAwaited ==
    state \in {"active", "dying"} /\ callbacks # {} /\ resyncs = 0 =>
        \E h \in pending : h.for = "callbacks" /\ h.session = session

\* A dying session has a handler under way that will let it die.
DeathIsAwaited ==
    state = "dying" =>
        \E h \in pending : h.for = "death" /\ h.session = session /\ h.count = deathCount

\* No commit is forgotten by an active session, whether it was made before
\* the token arrived or while a token was refreshed.  The one exception is
\* a commit made while the session was dying, which is then revived.
CommitsAreAnnounced ==
    state = "active" /\ ~unheard => announced = commits

\* The upload ends a dying session only if what was announced when it
\* started dying, for the last time, is on the server: a handler left over
\* from an earlier death does not end it.
DiesOnceUploaded ==
    [][state = "dying" /\ state' = "inactive" /\ pending' # pending =>
          \E h \in pending \ pending' :
             /\ h.for = "death" /\ h.count = deathCount /\ h.session = session
             /\ h.mark <= uploaded]_vars

\* No session dies for ever.
DyingEnds == state = "dying" ~> (state # "dying" \/ crashed)

\* A function that waits for an active or dying session is called, unless
\* the session loses its token or a resync loses the function.
WaitsEnd ==
    \A w \in Waiters :
        w \in Waiting ~>
            \/ w \notin Waiting
            \/ state \in {"waiting_for_access_token", "inactive"}
            \/ resyncs > 0 \/ crashed

\* What the header says of wait_for_upload_completion: "a callback that will
\* be called when all pending uploads have completed".
OkMeansUploaded ==
    \A t \in Threads, w \in Waiters : <<w, "ok">> \in calling[t] => asked[w] <= uploaded

\* What advance_state asserts: the state it is given is another one.
AdvanceChangesState == ~crashed

-----------------------------------------------------------------------------
(* The inductive invariant *)

\* Only the event loop handles errors and resyncs, a resync is counted
\* before it puts anything aside, and no handler knows of a later resync.
ResyncsAreCounted ==
    /\ \A t \in AppThreads : next[t].do \in {"none", "revive", "update"}
    /\ next[Loop].do = "restore" => resyncs > 0
    /\ next[Loop] = [do |-> "error", kind |-> "client_reset"] => resyncs < MaxResyncs
    /\ \A h \in pending : h.for = "callbacks" => h.count <= resyncs

\* What the announcement of an active session rests on: one that dies knows
\* of every commit that was heard, and one that waits for a new token has
\* remembered it.
CommitsAreRemembered ==
    ~unheard =>
        /\ state = "dying" => announced = commits
        /\ state = "waiting_for_access_token" /\ session # 0 =>
              MaxOf(announced, deferredCommit) = commits

\* No handler knows of a later death, and that of the last one belongs to
\* the sync::Session that is dying.
DeathsAreCounted ==
    \A h \in pending : h.for = "death" =>
        /\ h.count <= deathCount
        /\ state = "dying" /\ h.count = deathCount => h.session = session

Inv ==
    /\ TypeOK /\ SessionIsThere /\ PutOffIsNotImmediate
    /\ WaitersAreKept /\ WaitsAreAwaited /\ DeathIsAwaited
    /\ CommitsAreAnnounced
    /\ ResyncsAreCounted /\ DeathsAreCounted /\ CommitsAreRemembered
=============================================================================
