-------------------------- MODULE SessionRegistry --------------------------
(***************************************************************************)
(* Who owns a SyncSession of Realm's object store: the SyncManager's map   *)
(* of sessions (sync/sync_manager.cpp), the external references that keep  *)
(* a session in it, and the SyncUser that logs its sessions out and revives*)
(* them (sync/sync_user.cpp), for one Realm file.  The two mutexes are     *)
(* modelled as such, because calls into the one are made while the other   *)
(* is held; the mutex of a session is only held within a step.             *)
(*                                                                         *)
(* What a session does while it has a sync::Session is left to SyncSession:*)
(* here it is "live" (waiting for its token, or active), dying, inactive.  *)
(***************************************************************************)
EXTENDS Integers, FiniteSets

CONSTANTS
    AppThreads,     \* the threads of the application
    Loop,           \* the thread of the sync client's event loop
    Nobody,         \* the owner of a free mutex
    Policies,       \* the stop policies that are configured
    MaxSessions,    \* bound: SyncSession objects made for the file
    MaxRefs         \* bound: external references held by the application

ASSUME RegistryAssumption ==
    /\ Loop \notin AppThreads /\ Nobody \notin AppThreads \cup {Loop}
    /\ Policies \subseteq {"Immediately", "LiveIndefinitely", "AfterChangesUploaded"}
    /\ MaxSessions \in Nat /\ MaxRefs \in Nat \ {0}

Threads  == AppThreads \cup {Loop}
Sessions == 1..MaxSessions
None     == 0                   \* no session
Steps    == {"idle", "get", "register", "revive", "take", "drop", "unregister", "release",
             "closeInside", "stuck", "loggedOut", "reviveLater"}
States   == {"live", "closing", "dying", "inactive"}

VARIABLES
    registered,     \* SyncManager::m_sessions: the session of the file
    made,           \* how many have been made
    session,        \* the state of each; "closing" is live with a close put off
    refs,           \* its external references
    held,           \* those of them the application holds
    policy,         \* the stop policy of the file
    user,           \* SyncUser::m_state
    known,          \* SyncUser::m_sessions
    waiting,        \* SyncUser::m_waiting_sessions
    manager,        \* who holds SyncManager::m_session_mutex
    userMutex,      \* who holds SyncUser::m_mutex
    at,             \* what each thread does next
    on,             \* and on which session: it keeps a pointer to it
    crashed,        \* a REALM_ASSERT has failed
    late,           \* history: a session was revived after its user had logged out
    invalidated     \* history: the user has been invalidated

sessionVars == <<made, session, refs, held>>
userVars    == <<user, known, waiting>>
threadVars  == <<at, on>>
vars == <<registered, sessionVars, policy, userVars, manager, userMutex, threadVars, crashed, late, invalidated>>

Init ==
    /\ registered = None /\ made = 0
    /\ session = [s \in Sessions |-> "inactive"]
    /\ refs = [s \in Sessions |-> 0] /\ held = [s \in Sessions |-> 0]
    /\ policy \in Policies
    /\ user \in {"active", "loggedOut"} /\ known = None /\ waiting = None
    /\ manager = Nobody /\ userMutex = Nobody
    /\ at = [t \in Threads |-> "idle"] /\ on = [t \in Threads |-> None]
    /\ crashed = FALSE /\ late = FALSE /\ invalidated = FALSE

\* Somebody still has a shared pointer to the session, so that a weak one
\* can be locked.
Alive(s) == s # None /\ (s = registered \/ refs[s] > 0 \/ \E t \in Threads : on[t] = s)

Idle(t) == ~crashed /\ at[t] = "idle"
Doing(t, step) == ~crashed /\ at[t] = step

GoOn(t, step, s) ==
    /\ at' = [at EXCEPT ![t] = step]
    /\ on' = [on EXCEPT ![t] = s]

\* The call is over, or log_out, which has made it, goes on.
Return(t) == IF userMutex = t THEN GoOn(t, "loggedOut", on[t]) ELSE GoOn(t, "idle", None)

Take(s)    == refs' = [refs EXCEPT ![s] = @ + 1]
Release(s) == refs' = [refs EXCEPT ![s] = @ - 1]

\* revive_if_needed, by a thread that has let go of the user's mutex.
Revive(s) ==
    /\ session' = [session EXCEPT ![s] = "live"]
    /\ late' = (late \/ user # "active")

-----------------------------------------------------------------------------
(* SyncManager::get_session *)

\* The bounds leave room for every call that has begun.
Room ==
    /\ made + Cardinality({t \in Threads : at[t] = "get"}) < MaxSessions
    /\ \A s \in Sessions : held[s] < MaxRefs

GetSession(t) ==
    /\ Idle(t) /\ Room
    /\ GoOn(t, "get", None)
    /\ UNCHANGED <<registered, sessionVars, policy, userVars, manager, userMutex, crashed, late, invalidated>>

\* With the mutex: find the session of the file, or make one, which takes
\* its external reference at once.
FindSession(t) ==
    /\ Doing(t, "get") /\ manager = Nobody
    /\ manager' = t
    /\ \/ /\ registered # None
          /\ GoOn(t, "register", registered)
          /\ UNCHANGED <<registered, made, refs>>
       \/ /\ registered = None /\ made < MaxSessions
          /\ made' = made + 1 /\ registered' = made + 1
          /\ Take(made + 1)
          /\ GoOn(t, "register", made + 1)
    /\ UNCHANGED <<session, held, policy, userVars, userMutex, crashed, late, invalidated>>

\* SyncUser::register_session, inside of get_session.
RegisterSession(t) ==
    /\ Doing(t, "register") /\ userMutex = Nobody
    /\ \/ user = "active"    /\ known' = on[t]   /\ GoOn(t, "revive", on[t]) /\ UNCHANGED waiting
       \/ user = "loggedOut" /\ waiting' = on[t] /\ GoOn(t, "take", on[t])   /\ UNCHANGED known
       \/ user = "error"     /\ GoOn(t, "take", on[t]) /\ UNCHANGED <<known, waiting>>
    /\ UNCHANGED <<registered, sessionVars, policy, user, manager, userMutex, crashed, late, invalidated>>

ReviveRegistered(t) ==
    /\ Doing(t, "revive")
    /\ Revive(on[t])
    /\ GoOn(t, "take", on[t])
    /\ UNCHANGED <<registered, made, refs, held, policy, userVars, manager, userMutex, crashed, invalidated>>

\* The reference to a session that was there already is taken last.  That
\* of a new one, the only one not held so far, is handed out.
TakeReference(t) ==
    /\ Doing(t, "take")
    /\ IF refs[on[t]] = held[on[t]] THEN Take(on[t]) ELSE UNCHANGED refs
    /\ held' = [held EXCEPT ![on[t]] = @ + 1]
    /\ manager' = Nobody
    /\ GoOn(t, "idle", None)
    /\ UNCHANGED <<registered, made, session, policy, userVars, userMutex, crashed, late, invalidated>>

\* get_existing_session, and get_existing_active_session.
GetExistingSession(t) ==
    /\ Idle(t) /\ manager = Nobody
    /\ registered # None /\ held[registered] < MaxRefs
    /\ Take(registered)
    /\ held' = [held EXCEPT ![registered] = @ + 1]
    /\ UNCHANGED <<registered, made, session, policy, userVars, manager, userMutex, threadVars,
                   crashed, late, invalidated>>

\* has_existing_sessions looks at an external reference, which makes one.
HasExistingSessions(t) ==
    /\ Idle(t) /\ manager = Nobody
    /\ registered # None /\ refs[registered] > 0
    /\ Take(registered)
    /\ manager' = t
    /\ GoOn(t, "release", None)
    /\ UNCHANGED <<registered, made, session, held, policy, userVars, userMutex, crashed, late, invalidated>>

-----------------------------------------------------------------------------
(* The end of a session *)

DropReference(t, s) ==
    /\ Idle(t) /\ held[s] > 0
    /\ held' = [held EXCEPT ![s] = @ - 1]
    /\ Release(s)
    /\ IF refs[s] = 1 THEN GoOn(t, "drop", s) ELSE UNCHANGED threadVars
    /\ UNCHANGED <<registered, made, session, policy, userVars, manager, userMutex, crashed, late, invalidated>>

\* What close() makes of a session that is not resurrected, and whether it
\* is unregistered then.
Closed(s) ==
    CASE session[s] = "inactive" -> {"inactive"}
      [] session[s] # "dying" /\ policy = "Immediately" -> {"inactive"}
      [] session[s] = "live" /\ policy = "AfterChangesUploaded" -> {"closing", "dying"}
      [] OTHER -> {session[s]}

\* did_drop_external_reference: unless somebody has taken a new one.
DidDropReference(t) ==
    /\ Doing(t, "drop")
    /\ \/ /\ refs[on[t]] > 0
          /\ GoOn(t, "idle", None)
          /\ UNCHANGED session
       \/ /\ refs[on[t]] = 0
          /\ \E new \in Closed(on[t]) :
                /\ session' = [session EXCEPT ![on[t]] = new]
                /\ IF new = "inactive" THEN GoOn(t, "unregister", on[t]) ELSE GoOn(t, "idle", None)
    /\ UNCHANGED <<registered, made, refs, held, policy, userVars, manager, userMutex, crashed, late, invalidated>>

\* The token arrives while a close is put off.
CarryOutClose(s) ==
    /\ ~crashed /\ session[s] = "closing"
    /\ session' = [session EXCEPT ![s] = "dying"]
    /\ UNCHANGED <<registered, made, refs, held, policy, userVars, manager, userMutex, threadVars,
                   crashed, late, invalidated>>

\* The event loop ends a session whose changes are uploaded, or for which
\* the server has no use.
EndSession(s) ==
    /\ Idle(Loop) /\ session[s] # "inactive" /\ Alive(s)
    /\ session' = [session EXCEPT ![s] = "inactive"]
    /\ GoOn(Loop, "unregister", s)
    /\ UNCHANGED <<registered, made, refs, held, policy, userVars, manager, userMutex, crashed, late, invalidated>>

\* Flawed: the reference of the session is not looked at.
UnregisterAnyway(t) ==
    /\ Doing(t, "unregister") /\ manager = Nobody
    /\ IF registered = None
         THEN crashed' = TRUE /\ UNCHANGED <<registered, threadVars>>
         ELSE registered' = None /\ Return(t) /\ UNCHANGED crashed
    /\ UNCHANGED <<sessionVars, policy, userVars, manager, userMutex, late, invalidated>>

\* SyncManager::unregister_session: whichever session is registered for the
\* file goes, unless it has an external reference, which is looked at by
\* taking one.
UnregisterSession(t) ==
    /\ Doing(t, "unregister") /\ manager = Nobody
    /\ \/ /\ registered = None
          /\ crashed' = TRUE
          /\ UNCHANGED <<registered, refs, manager, threadVars>>
       \/ /\ registered # None /\ refs[registered] = 0
          /\ registered' = None
          /\ Return(t)
          /\ UNCHANGED <<refs, manager, crashed>>
       \/ /\ registered # None /\ refs[registered] > 0
          /\ Take(registered)
          /\ manager' = t
          /\ GoOn(t, "release", on[t])
          /\ UNCHANGED <<registered, crashed>>
    /\ UNCHANGED <<made, session, held, policy, userVars, userMutex, late, invalidated>>

\* Flawed: the mutex is not released with it.
ReleaseKeepsMutex(t) ==
    /\ Doing(t, "release")
    /\ Release(registered)
    /\ IF refs[registered] = 1
         THEN GoOn(t, "closeInside", on[t]) /\ UNCHANGED manager
         ELSE Return(t) /\ UNCHANGED manager
    /\ UNCHANGED <<registered, made, session, held, policy, userVars, userMutex, crashed, late, invalidated>>

\* The reference that was looked at goes, before the mutex does.
ReleaseReference(t) ==
    /\ Doing(t, "release")
    /\ Release(registered)
    /\ IF refs[registered] = 1
         THEN GoOn(t, "closeInside", on[t]) /\ UNCHANGED manager
         ELSE Return(t) /\ manager' = Nobody
    /\ UNCHANGED <<registered, made, session, held, policy, userVars, userMutex, crashed, late, invalidated>>

\* If it was the last one, the session is closed with the mutex held.  One
\* that is to be unregistered waits for that mutex for ever.
CloseInside(t) ==
    /\ Doing(t, "closeInside")
    /\ \E new \in Closed(registered) :
          /\ session' = [session EXCEPT ![registered] = new]
          /\ IF new = "inactive"
               THEN GoOn(t, "stuck", on[t]) /\ UNCHANGED manager
               ELSE Return(t) /\ manager' = Nobody
    /\ UNCHANGED <<registered, made, refs, held, policy, userVars, userMutex, crashed, late, invalidated>>

-----------------------------------------------------------------------------
(* SyncUser *)

\* Flawed: a dying session is left to die.
LogOutLeavesDying(t) ==
    /\ Idle(t) /\ userMutex = Nobody /\ user # "loggedOut"
    /\ user' = "loggedOut"
    /\ IF Alive(known)
         THEN /\ session' = [session EXCEPT ![known] = IF @ = "dying" THEN @ ELSE "inactive"]
              /\ GoOn(t, IF session[known] \in {"dying", "inactive"} THEN "loggedOut" ELSE "unregister", known)
              /\ userMutex' = t
              /\ UNCHANGED known
         ELSE known' = None /\ UNCHANGED <<session, userMutex, threadVars>>
    /\ UNCHANGED <<registered, made, refs, held, policy, waiting, manager, crashed, late, invalidated>>

\* log_out, with the user's mutex held until LoggedOut.  The session's own
\* log_out is part of the step: what other threads do between the two, they
\* may as well do before.
LogOut(t) ==
    /\ Idle(t) /\ userMutex = Nobody /\ user # "loggedOut"
    /\ user' = "loggedOut"
    /\ IF Alive(known)
         THEN /\ session' = [session EXCEPT ![known] = "inactive"]
              /\ GoOn(t, IF session[known] = "inactive" THEN "loggedOut" ELSE "unregister", known)
              /\ userMutex' = t
              /\ UNCHANGED known
         ELSE known' = None /\ UNCHANGED <<session, userMutex, threadVars>>
    /\ UNCHANGED <<registered, made, refs, held, policy, waiting, manager, crashed, late, invalidated>>

\* Flawed: the session is not kept for the next login.
LoggedOutForgets(t) ==
    /\ Doing(t, "loggedOut")
    /\ known' = None /\ waiting' = waiting
    /\ userMutex' = Nobody
    /\ GoOn(t, "idle", None)
    /\ UNCHANGED <<registered, sessionVars, policy, user, manager, crashed, late, invalidated>>

LoggedOut(t) ==
    /\ Doing(t, "loggedOut")
    /\ waiting' = on[t] /\ known' = None
    /\ userMutex' = Nobody
    /\ GoOn(t, "idle", None)
    /\ UNCHANGED <<registered, sessionVars, policy, user, manager, crashed, late, invalidated>>

\* update_refresh_token of a user who was logged out.  The sessions are
\* revived after the mutex is released.
LogIn(t) ==
    /\ Idle(t) /\ userMutex = Nobody /\ user = "loggedOut"
    /\ user' = "active" /\ waiting' = None
    /\ IF Alive(waiting)
         THEN known' = waiting /\ GoOn(t, "reviveLater", waiting)
         ELSE UNCHANGED <<known, threadVars>>
    /\ UNCHANGED <<registered, sessionVars, policy, manager, userMutex, crashed, late, invalidated>>

ReviveLater(t) ==
    /\ Doing(t, "reviveLater")
    /\ Revive(on[t])
    /\ GoOn(t, "idle", None)
    /\ UNCHANGED <<registered, made, refs, held, policy, userVars, manager, userMutex, crashed, invalidated>>

Invalidate(t) ==
    /\ Idle(t) /\ userMutex = Nobody /\ user # "error"
    /\ user' = "error" /\ invalidated' = TRUE
    /\ UNCHANGED <<registered, sessionVars, policy, known, waiting, manager, userMutex, threadVars,
                   crashed, late>>

-----------------------------------------------------------------------------
AppNext(t) ==
    \/ GetSession(t) \/ GetExistingSession(t) \/ HasExistingSessions(t)
    \/ LogOut(t) \/ LogIn(t) \/ Invalidate(t)
    \/ \E s \in Sessions : DropReference(t, s)

\* The rest of a call that has begun.
Continue(t) ==
    \/ FindSession(t) \/ RegisterSession(t) \/ ReviveRegistered(t) \/ TakeReference(t)
    \/ DidDropReference(t) \/ UnregisterSession(t) \/ ReleaseReference(t) \/ CloseInside(t)
    \/ LoggedOut(t) \/ ReviveLater(t)

Next ==
    \/ \E t \in AppThreads : AppNext(t)
    \/ \E t \in Threads : Continue(t)
    \/ \E s \in Sessions : CarryOutClose(s) \/ EndSession(s)

Spec == Init /\ [][Next]_vars

\* A thread that can go on does so, and one that waits for a mutex gets it
\* if it is free again and again.
FairSpec == Spec /\ \A t \in Threads : SF_vars(Continue(t))

-----------------------------------------------------------------------------
(* Properties *)

TypeOK ==
    /\ made \in 0..MaxSessions /\ registered \in 0..made
    /\ session \in [Sessions -> States]
    /\ refs \in [Sessions -> Int] /\ held \in [Sessions -> Int]
    /\ policy \in Policies
    /\ user \in {"active", "loggedOut", "error"}
    /\ known \in 0..MaxSessions /\ waiting \in 0..MaxSessions
    /\ manager \in Threads \cup {Nobody} /\ userMutex \in Threads \cup {Nobody}
    /\ at \in [Threads -> Steps] /\ on \in [Threads -> 0..MaxSessions]
    /\ crashed \in BOOLEAN /\ late \in BOOLEAN /\ invalidated \in BOOLEAN

\* A session somebody refers to is the one that is registered: nobody who
\* asks for the session of the file is given a second one beside it, though
\* any session's end unregisters whichever session is there.
ReferencedIsRegistered ==
    \A s \in Sessions : refs[s] > 0 => registered = s

Quiet == \A t \in Threads : at[t] = "idle"

\* Once the user is logged out and every call has ended, no session is left
\* running for him, unless it was revived by a thread that had found him
\* logged in and let go of his mutex.
LoggedOutIsQuiet ==
    Quiet /\ user = "loggedOut" /\ ~late =>
        \A s \in Sessions : Alive(s) => session[s] = "inactive"

\* A registered session is known to its user, who will log it out, or waits
\* for the user to log in: no order of getting, dropping, logging in and
\* logging out leaves it out of reach of the next login or logout.
RegisteredIsKnown ==
    Quiet /\ registered # None /\ ~invalidated =>
        /\ user = "active" => known = registered
        /\ user = "loggedOut" => waiting = registered

\* Two ways for a call never to end: a last reference that dies inside
\* unregister_session or has_existing_sessions and unregisters again with
\* the mutex held; and log_out, which holds the user's mutex and wants the
\* manager's, against get_session, which does it the other way round.
Stuck ==
    \/ \E t \in Threads : at[t] = "stuck"
    \/ /\ manager # Nobody /\ at[manager] = "register"
       /\ userMutex # Nobody /\ at[userMutex] = "unregister"

\* Every other call comes to its end.
CallsEnd ==
    \A t \in Threads : at[t] # "idle" ~> at[t] = "idle" \/ crashed \/ Stuck

\* What unregister_session asserts: the session it is asked to unregister
\* is registered.
UnregisterFindsSession == ~crashed

-----------------------------------------------------------------------------
(* The inductive invariant *)

\* The steps taken with the manager's mutex, and those that go on with the
\* session that is registered.
WithManager == {"register", "revive", "take", "release", "closeInside", "stuck"}
Getting     == {"register", "revive", "take"}

HoldsItsMutexes(t) ==
    /\ at[t] \in WithManager => manager = t /\ registered # None
    /\ at[t] \in Getting => on[t] = registered
    /\ at[t] \in {"drop", "unregister", "reviveLater"} => on[t] # None
    /\ at[t] \in {"idle", "get", "register", "revive", "take", "drop", "reviveLater"} => userMutex # t

MutexesAreHeld == \A t \in Threads : HoldsItsMutexes(t)

\* What a session that has not been made, or that nobody works on, is to
\* whoever could name it.
OnlyMadeSessions ==
    /\ known <= made /\ waiting <= made
    /\ \A t \in Threads : on[t] <= made /\ (at[t] = "idle" => on[t] = None)
    /\ \A s \in Sessions : s > made => session[s] = "inactive"

\* The user's two sets of sessions, by his state and by who holds his mutex.
UserIsConsistent ==
    /\ userMutex # Nobody => user = "loggedOut"
    /\ \A t \in Threads : at[t] = "loggedOut" => userMutex = t
    /\ user = "active" => waiting = None
    /\ user = "loggedOut" /\ userMutex = Nobody => known = None
    /\ user = "error" => invalidated

\* The user has the session, or the thread that logs him out has it for him.
Kept(s) ==
    IF userMutex = Nobody THEN known = s \/ (known = None /\ waiting = s) ELSE on[userMutex] = s

\* Once it has gone through register_session, the registered session stays
\* with its user, unless he has been invalidated.
RegisteredIsKept ==
    registered # None /\ ~invalidated =>
        Kept(registered) \/ \E t \in Threads : at[t] = "register"

\* A thread that is to revive the registered session has found it with the
\* user, who still has it.
RevivedIsKept ==
    \A t \in Threads :
        at[t] = "revive" \/ (at[t] = "reviveLater" /\ on[t] = registered) => Kept(registered)

\* The registered session runs only for a user who is not logged out and
\* will be able to find it when he is, unless it was revived too late.
RunningIsKnown ==
    registered # None /\ ~late /\ session[registered] # "inactive" =>
        userMutex = Nobody /\ user # "loggedOut" /\ known = registered

Inv ==
    /\ TypeOK /\ ReferencedIsRegistered /\ MutexesAreHeld
    /\ OnlyMadeSessions /\ UserIsConsistent
    /\ RegisteredIsKept /\ RevivedIsKept /\ RunningIsKnown
=============================================================================
