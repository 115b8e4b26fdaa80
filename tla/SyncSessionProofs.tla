------------------------- MODULE SyncSessionProofs -------------------------
(***************************************************************************)
(* Proofs about SyncSession, for any number of application threads and of  *)
(* waiting functions, any stop policies and any bounds.                    *)
(***************************************************************************)
EXTENDS SyncSession, TLAPS

LEMMA Bounds == MaxCommits \in Nat /\ MaxSessions \in Nat /\ MaxDeaths \in Nat /\ MaxResyncs \in Nat
BY SessionAssumption

\* What the constants say of the handlers that are made.
LEMMA HandlerTypes ==
    ASSUME TypeOK, NEW s \in 1..MaxSessions, NEW ann \in 0..MaxCommits, NEW n \in Nat
    PROVE  /\ CompletionHandler(s, ann) \in Handlers
           /\ DeathHandler(s, n, ann) \in Handlers
           /\ HandlersOnActive(s, ann) \subseteq Handlers
BY SessionAssumption DEF TypeOK, CompletionHandler, DeathHandler, HandlersOnActive, Handlers

LEMMA InitInv == Init => Inv
<1> SUFFICES ASSUME Init PROVE Inv
  OBVIOUS
<1> USE SessionAssumption DEF Init, Idle
<1>1. TypeOK
  <2>1. None \in Conts
    BY DEF Conts
  <2>2. next \in [Threads -> Conts]
    BY <2>1
  <2>3. asked \in [Waiters -> {Idle} \cup 0..commits]
    BY Bounds
  <2>4. calling \in [Threads -> SUBSET (Waiters \X Codes)]
    OBVIOUS
  <2>5. /\ state \in States /\ made \in 0..MaxSessions /\ session \in 0..made
        /\ commits \in 0..MaxCommits /\ deferredCommit \in 0..commits
        /\ announced \in 0..commits /\ uploaded \in 0..commits
        /\ deathCount \in 0..MaxDeaths /\ resyncs \in 0..MaxResyncs
    BY Bounds DEF States
  <2>6. callbacks \in SUBSET Waiters /\ pending \in SUBSET Handlers
    OBVIOUS
  <2>7. policy \in Policies /\ deferredClose \in BOOLEAN /\ crashed \in BOOLEAN /\ unheard \in BOOLEAN
    OBVIOUS
  <2>8. QED BY <2>2, <2>3, <2>4, <2>5, <2>6, <2>7 DEF TypeOK
<1>2. SessionIsThere /\ PutOffIsNotImmediate /\ WaitsAreAwaited /\ DeathIsAwaited /\ CommitsAreAnnounced
  BY DEF SessionIsThere, PutOffIsNotImmediate, WaitsAreAwaited, DeathIsAwaited, CommitsAreAnnounced
<1>3. next[Loop] = None /\ \A t \in AppThreads : next[t] = None
  BY DEF Threads
<1>4. WaitersAreKept
  <2>1. callbacks = {} /\ PutAside = {} /\ Waiting = {}
    BY <1>3 DEF PutAside, None, Waiting
  <2>2. \A t \in Threads, w \in Waiters : ~HasToCall(t, w) /\ calling[t] = {}
    BY DEF HasToCall
  <2>3. QED BY <2>1, <2>2 DEF WaitersAreKept
<1>5. ResyncsAreCounted /\ DeathsAreCounted /\ CommitsAreRemembered
  BY <1>3 DEF ResyncsAreCounted, DeathsAreCounted, CommitsAreRemembered, None
<1>6. QED BY <1>1, <1>2, <1>4, <1>5 DEF Inv

-----------------------------------------------------------------------------
(* Types *)

LEMMA ContTypes ==
    /\ None \in Conts /\ Revive \in Conts
    /\ \A p \in Policies : [do |-> "update", policy |-> p] \in Conts
    /\ \A k \in Kinds : [do |-> "error", kind |-> k] \in Conts
    /\ \A w \in SUBSET Waiters : [do |-> "restore", who |-> w] \in Conts
BY DEF Conts, None, Revive, Kinds

LEMMA MoveOutTypes ==
    ASSUME TypeOK, NEW t \in Threads, NEW c \in Codes, MoveOut(t, c)
    PROVE  callbacks' \in SUBSET Waiters /\ calling' \in [Threads -> SUBSET (Waiters \X Codes)]
BY DEF TypeOK, MoveOut

LEMMA EnterInactiveTypes ==
    ASSUME TypeOK, NEW t \in Threads, EnterInactive(t)
    PROVE  /\ callbacks' \in SUBSET Waiters /\ calling' \in [Threads -> SUBSET (Waiters \X Codes)]
           /\ state' \in States /\ session' = 0
BY MoveOutTypes DEF EnterInactive, Codes, States

LEMMA ReviveTypes ==
    ASSUME TypeOK, SessionIsThere, ReviveIfNeeded
    PROVE  state' \in States /\ deferredClose' \in BOOLEAN /\ pending' \in SUBSET Handlers
<1>1. state = "dying" => HandlersOnActive(session, announced) \subseteq Handlers
  BY SessionAssumption, HandlerTypes DEF TypeOK, SessionIsThere
<1>2. QED BY <1>1 DEF ReviveIfNeeded, EnterWaiting, TypeOK, States

LEMMA TypeStep == Inv /\ [Next]_vars => TypeOK'
<1> SUFFICES ASSUME Inv, [Next]_vars PROVE TypeOK'
  OBVIOUS
<1>0. TypeOK /\ SessionIsThere
  BY DEF Inv
<1> USE SessionAssumption DEF stateVars, threadVars, fileVars, waitVars
<1>1. ASSUME NEW t \in AppThreads, AppNext(t) PROVE TypeOK'
  <2>0. t \in Threads
    BY DEF Threads
  <2>1. CASE ReviveSession(t)
    BY <1>0, <2>1, ReviveTypes DEF ReviveSession, TypeOK
  <2>2. CASE RefreshToken(t)
    <3> DEFINE s   == IF session = 0 THEN made + 1 ELSE session
               ann == MaxOf(IF session = 0 THEN commits ELSE announced, deferredCommit)
    <3>1. s \in 1..MaxSessions /\ ann \in 0..commits /\ s \in 0..made' /\ made' \in 0..MaxSessions
      BY <1>0, <2>2 DEF RefreshToken, TypeOK, MaxOf
    <3>2. /\ HandlersOnActive(s, ann) \subseteq Handlers
          /\ DeathHandler(s, deathCount + 1, ann) \in Handlers
      BY <1>0, <3>1, HandlerTypes DEF TypeOK
    <3> HIDE DEF s, ann
    <3>3. /\ announced' = ann /\ session' = s /\ unheard' \in BOOLEAN /\ deferredCommit' = 0
          /\ state' \in States /\ deathCount' \in 0..MaxDeaths /\ pending' \in SUBSET Handlers
      BY <1>0, <2>2, <3>2 DEF RefreshToken, TypeOK, EnterDying, States, s, ann
    <3>4. UNCHANGED <<policy, callbacks, calling, next, deferredClose, resyncs, crashed, commits, uploaded, asked>>
      BY <2>2 DEF RefreshToken
    <3>5. QED BY <1>0, <3>1, <3>3, <3>4 DEF TypeOK
  <2>3. CASE Commit(t)
    BY <1>0, <2>3 DEF Commit, TypeOK
  <2>4. CASE Close(t)
    <3>1. CASE EnterInactive(t) /\ UNCHANGED <<deferredClose, deathCount, next, pending>>
      BY <1>0, <2>0, <2>4, <3>1, EnterInactiveTypes DEF Close, TypeOK
    <3>2. CASE deferredClose' = TRUE /\ UNCHANGED <<state, session, deathCount, callbacks, threadVars, pending>>
      BY <1>0, <2>4, <3>2 DEF Close, TypeOK
    <3>3. CASE /\ state = "active" /\ EnterDying
               /\ pending' = pending \cup {DeathHandler(session, deathCount + 1, announced)}
               /\ UNCHANGED <<session, deferredClose, callbacks, threadVars>>
      <4>1. DeathHandler(session, deathCount + 1, announced) \in Handlers
        <5>1. session \in 1..MaxSessions /\ deathCount + 1 \in Nat /\ announced \in 0..MaxCommits
          BY <1>0, <3>3, Bounds DEF TypeOK, SessionIsThere
        <5>2. QED BY <1>0, <5>1, HandlerTypes
      <4>2. QED BY <1>0, <2>4, <3>3, <4>1 DEF Close, TypeOK, EnterDying, States
    <3>4. QED BY <2>4, <3>1, <3>2, <3>3 DEF Close
  <2>5. CASE LogOut(t)
    BY <1>0, <2>0, <2>5, EnterInactiveTypes DEF LogOut, TypeOK
  <2>6. ASSUME NEW w \in Waiters, WaitForUpload(t, w) PROVE TypeOK'
    <3>1. state \in {"active", "dying"} => CompletionHandler(session, announced) \in Handlers
      BY <1>0, HandlerTypes DEF TypeOK, SessionIsThere
    <3>2. QED BY <1>0, <2>6, <3>1 DEF WaitForUpload, TypeOK
  <2>7. ASSUME NEW p \in Policies, UpdateConfiguration(t, p) PROVE TypeOK'
    BY <1>0, <2>7, ContTypes DEF UpdateConfiguration, TypeOK
  <2>8. QED BY <1>1, <2>1, <2>2, <2>3, <2>4, <2>5, <2>6, <2>7 DEF AppNext
<1>2. ASSUME NEW t \in Threads, Continue(t) PROVE TypeOK'
  <2>1. ASSUME NEW w \in Waiters, NEW c \in Codes, Call(t, w, c) PROVE TypeOK'
    BY <1>0, <2>1 DEF Call, TypeOK
  <2>2. CASE UpdateLoop(t)
    <3>1. CASE EnterInactive(t) /\ UNCHANGED <<policy, next>>
      BY <1>0, <2>2, <3>1, EnterInactiveTypes DEF UpdateLoop, TypeOK
    <3>2. CASE /\ policy' = next[t].policy /\ next' = [next EXCEPT ![t] = Revive]
               /\ UNCHANGED <<state, session, calling, callbacks>>
      <4>1. next[t].policy \in Policies
        BY <1>0, <2>2 DEF UpdateLoop, Resuming, TypeOK, Conts, None, Revive
      <4>2. QED BY <1>0, <2>2, <3>2, <4>1, ContTypes DEF UpdateLoop, TypeOK
    <3>3. QED BY <2>2, <3>1, <3>2 DEF UpdateLoop
  <2>3. CASE ReviveLater(t)
    BY <1>0, <2>3, ReviveTypes, ContTypes DEF ReviveLater, TypeOK
  <2>4. CASE t = Loop /\ HandleErrorLater
    <3>1. CASE ErrorCancels
      BY <1>0, <1>2, <2>4, <3>1, MoveOutTypes, ContTypes DEF HandleErrorLater, ErrorCancels, TypeOK, Codes
    <3>2. CASE ErrorTokenExpired
      BY <1>0, <2>4, <3>2, ContTypes DEF HandleErrorLater, ErrorTokenExpired, EnterWaiting, TypeOK, States
    <3>3. CASE ErrorDelete
      <4>1. CASE EnterInactive(Loop) /\ UNCHANGED <<resyncs, crashed>>
        BY <1>0, <1>2, <2>4, <3>3, <4>1, EnterInactiveTypes, ContTypes
        DEF HandleErrorLater, ErrorDelete, TypeOK
      <4>2. CASE AssertFails
        BY <1>0, <2>4, <3>3, <4>2, ContTypes DEF HandleErrorLater, ErrorDelete, AssertFails, TypeOK
      <4>3. QED BY <3>3, <4>1, <4>2 DEF ErrorDelete
    <3>4. CASE ErrorClientReset
      <4>0. next[Loop] = [do |-> "error", kind |-> "client_reset"]
        BY <1>0, <1>2, <2>4, <3>4 DEF HandleErrorLater, Resuming, ErrorClientReset, TypeOK, Conts, None, Revive
      <4>1. resyncs' \in 0..MaxResyncs
        BY <1>0, <2>4, <3>4, <4>0
        DEF HandleErrorLater, ErrorClientReset, AssertFails, TypeOK, Inv, ResyncsAreCounted
      <4>2. callbacks \in SUBSET Waiters
        BY <1>0 DEF TypeOK
      <4>3. CASE AssertFails
        BY <1>0, <2>4, <3>4, <4>3, ContTypes DEF HandleErrorLater, ErrorClientReset, AssertFails, TypeOK
      <4>4. CASE /\ resyncs' = resyncs + 1 /\ state' = "inactive" /\ session' = 0 /\ callbacks' = {}
                 /\ next' = [next EXCEPT ![Loop] = [do |-> "restore", who |-> callbacks]]
                 /\ UNCHANGED <<calling, crashed>>
        BY <1>0, <2>4, <3>4, <4>1, <4>2, <4>4, ContTypes
        DEF HandleErrorLater, ErrorClientReset, TypeOK, States
      <4>5. QED BY <3>4, <4>3, <4>4 DEF ErrorClientReset, AssertFails
    <3>5. QED BY <2>4, <3>1, <3>2, <3>3, <3>4 DEF HandleErrorLater
  <2>5. CASE t = Loop /\ RestoreCallbacks
    <3>1. next[Loop].who \in SUBSET Waiters
      BY <1>0, <1>2, <2>5 DEF RestoreCallbacks, Resuming, TypeOK, Conts, None, Revive
    <3>2. QED BY <1>0, <2>5, <3>1, ContTypes DEF RestoreCallbacks, TypeOK
  <2>6. QED BY <1>2, <2>1, <2>2, <2>3, <2>4, <2>5 DEF Continue
<1>3. CASE LoopNext
  <2>0. Loop \in Threads
    BY DEF Threads
  <2>1. ASSUME NEW v \in 1..MaxCommits, Upload(v) PROVE TypeOK'
    BY <1>0, <2>1 DEF Upload, TypeOK
  <2>2. ASSUME NEW h \in pending, Complete(h) PROVE TypeOK'
    <3>1. PICK c \in Answers(h) : CompleteWaits(h, c) \/ CompleteDeath(h)
      BY <2>2 DEF Complete
    <3>2. c \in Codes
      BY <3>1 DEF Answers, Codes
    <3>3. CASE CompleteWaits(h, c)
      BY <1>0, <2>0, <2>2, <3>2, <3>3, MoveOutTypes DEF CompleteWaits, Complete, TypeOK
    <3>4. CASE CompleteDeath(h)
      BY <1>0, <2>0, <2>2, <3>4, EnterInactiveTypes DEF CompleteDeath, Complete, TypeOK
    <3>5. QED BY <3>1, <3>3, <3>4
  <2>3. ASSUME NEW kind \in Kinds, NEW fatal \in BOOLEAN, HandleError(kind, fatal) PROVE TypeOK'
    BY <1>0, <2>0, <2>3, EnterInactiveTypes, ContTypes DEF HandleError, TypeOK
  <2>4. QED BY <1>3, <2>1, <2>2, <2>3 DEF LoopNext
<1>4. CASE UNCHANGED vars
  BY <1>0, <1>4 DEF TypeOK, vars
<1>5. QED BY <1>1, <1>2, <1>3, <1>4 DEF Next
-----------------------------------------------------------------------------
(* The sync::Session and the deferred close *)

\* Every way into a state brings or drops the sync::Session.
LEMMA SessionStep == Inv /\ [Next]_vars => SessionIsThere'
<1> SUFFICES ASSUME Inv, [Next]_vars PROVE SessionIsThere'
  OBVIOUS
<1>0. SessionIsThere /\ TypeOK
  BY DEF Inv
<1> USE SessionAssumption DEF stateVars, threadVars, fileVars, waitVars, SessionIsThere
<1>1. ASSUME NEW t \in AppThreads, AppNext(t) PROVE SessionIsThere'
  <2>0. t \in Threads /\ t # Loop
    BY DEF Threads
  <2>1. CASE ReviveSession(t)
    BY <1>0, <2>0, <2>1 DEF ReviveSession, ReviveIfNeeded, EnterWaiting
  <2>2. CASE RefreshToken(t)
    BY <1>0, <2>0, <2>2 DEF RefreshToken, EnterDying, TypeOK
  <2>3. CASE Commit(t)
    BY <1>0, <2>0, <2>3 DEF Commit
  <2>4. CASE Close(t)
    BY <1>0, <2>0, <2>4 DEF Close, EnterInactive, EnterDying
  <2>5. CASE LogOut(t)
    BY <1>0, <2>0, <2>5 DEF LogOut, EnterInactive
  <2>6. ASSUME NEW w \in Waiters, WaitForUpload(t, w) PROVE SessionIsThere'
    BY <1>0, <2>0, <2>6 DEF WaitForUpload
  <2>7. ASSUME NEW p \in Policies, UpdateConfiguration(t, p) PROVE SessionIsThere'
    BY <1>0, <2>0, <2>7 DEF UpdateConfiguration
  <2>8. QED BY <1>1, <2>1, <2>2, <2>3, <2>4, <2>5, <2>6, <2>7 DEF AppNext
<1>2. ASSUME NEW t \in Threads, Continue(t) PROVE SessionIsThere'
  <2>1. ASSUME NEW v \in Waiters, NEW c \in Codes, Call(t, v, c) PROVE SessionIsThere'
    BY <1>0, <1>2, <2>1 DEF Call
  <2>2. CASE UpdateLoop(t)
    BY <1>0, <1>2, <2>2 DEF UpdateLoop, EnterInactive
  <2>3. CASE ReviveLater(t)
    BY <1>0, <1>2, <2>3 DEF ReviveLater, ReviveIfNeeded, EnterWaiting
  <2>4. CASE t = Loop /\ HandleErrorLater
    <3>1. CASE ErrorCancels
      BY <1>0, <1>2, <2>4, <3>1 DEF HandleErrorLater, ErrorCancels
    <3>2. CASE ErrorTokenExpired
      BY <1>0, <1>2, <2>4, <3>2 DEF HandleErrorLater, ErrorTokenExpired, EnterWaiting
    <3>3. CASE ErrorDelete
      BY <1>0, <1>2, <2>4, <3>3 DEF HandleErrorLater, ErrorDelete, AssertFails, EnterInactive
    <3>4. CASE ErrorClientReset
      BY <1>0, <1>2, <2>4, <3>4 DEF HandleErrorLater, ErrorClientReset, AssertFails
    <3>5. QED BY <2>4, <3>1, <3>2, <3>3, <3>4 DEF HandleErrorLater
  <2>5. CASE t = Loop /\ RestoreCallbacks
    BY <1>0, <1>2, <2>5 DEF RestoreCallbacks
  <2>6. QED BY <1>2, <2>1, <2>2, <2>3, <2>4, <2>5 DEF Continue
<1>3. CASE LoopNext
  <2>0. Loop \in Threads
    BY DEF Threads
  <2>1. ASSUME NEW v \in 1..MaxCommits, Upload(v) PROVE SessionIsThere'
    BY <1>0, <2>0, <2>1 DEF Upload
  <2>2. ASSUME NEW h \in pending, Complete(h) PROVE SessionIsThere'
    <3>1. PICK c \in Answers(h) : CompleteWaits(h, c) \/ CompleteDeath(h)
      BY <2>2 DEF Complete
    <3>2. CASE CompleteWaits(h, c)
      BY <1>0, <2>0, <2>2, <3>1, <3>2 DEF Complete, CompleteWaits
    <3>3. CASE CompleteDeath(h)
      BY <1>0, <2>0, <2>2, <3>3 DEF Complete, CompleteDeath, EnterInactive
    <3>4. QED BY <3>1, <3>2, <3>3
  <2>3. ASSUME NEW kind \in Kinds, NEW fatal \in BOOLEAN, HandleError(kind, fatal) PROVE SessionIsThere'
    BY <1>0, <2>0, <2>3 DEF HandleError, EnterInactive
  <2>4. QED BY <1>3, <2>1, <2>2, <2>3 DEF LoopNext
<1>4. CASE UNCHANGED vars
  BY <1>0, <1>4 DEF vars
<1>5. QED BY <1>1, <1>2, <1>3, <1>4 DEF Next

\* The policy changes while inactive only, and the close is forgotten on the way out.
LEMMA PutOffStep == Inv /\ [Next]_vars => PutOffIsNotImmediate'
<1> SUFFICES ASSUME Inv, [Next]_vars PROVE PutOffIsNotImmediate'
  OBVIOUS
<1>0. PutOffIsNotImmediate /\ TypeOK
  BY DEF Inv
<1> USE SessionAssumption DEF stateVars, threadVars, fileVars, waitVars, PutOffIsNotImmediate
<1>1. ASSUME NEW t \in AppThreads, AppNext(t) PROVE PutOffIsNotImmediate'
  <2>0. t \in Threads /\ t # Loop
    BY DEF Threads
  <2>1. CASE ReviveSession(t)
    BY <1>0, <2>0, <2>1 DEF ReviveSession, ReviveIfNeeded, EnterWaiting
  <2>2. CASE RefreshToken(t)
    BY <1>0, <2>0, <2>2 DEF RefreshToken, EnterDying
  <2>3. CASE Commit(t)
    BY <1>0, <2>0, <2>3 DEF Commit
  <2>4. CASE Close(t)
    BY <1>0, <2>0, <2>4 DEF Close, EnterInactive, EnterDying
  <2>5. CASE LogOut(t)
    BY <1>0, <2>0, <2>5 DEF LogOut, EnterInactive
  <2>6. ASSUME NEW w \in Waiters, WaitForUpload(t, w) PROVE PutOffIsNotImmediate'
    BY <1>0, <2>0, <2>6 DEF WaitForUpload
  <2>7. ASSUME NEW p \in Policies, UpdateConfiguration(t, p) PROVE PutOffIsNotImmediate'
    BY <1>0, <2>0, <2>7 DEF UpdateConfiguration
  <2>8. QED BY <1>1, <2>1, <2>2, <2>3, <2>4, <2>5, <2>6, <2>7 DEF AppNext
<1>2. ASSUME NEW t \in Threads, Continue(t) PROVE PutOffIsNotImmediate'
  <2>1. ASSUME NEW v \in Waiters, NEW c \in Codes, Call(t, v, c) PROVE PutOffIsNotImmediate'
    BY <1>0, <1>2, <2>1 DEF Call
  <2>2. CASE UpdateLoop(t)
    BY <1>0, <1>2, <2>2 DEF UpdateLoop, EnterInactive
  <2>3. CASE ReviveLater(t)
    BY <1>0, <1>2, <2>3 DEF ReviveLater, ReviveIfNeeded, EnterWaiting
  <2>4. CASE t = Loop /\ HandleErrorLater
    <3>1. CASE ErrorCancels
      BY <1>0, <1>2, <2>4, <3>1 DEF HandleErrorLater, ErrorCancels
    <3>2. CASE ErrorTokenExpired
      BY <1>0, <1>2, <2>4, <3>2 DEF HandleErrorLater, ErrorTokenExpired, EnterWaiting
    <3>3. CASE ErrorDelete
      BY <1>0, <1>2, <2>4, <3>3 DEF HandleErrorLater, ErrorDelete, AssertFails, EnterInactive
    <3>4. CASE ErrorClientReset
      BY <1>0, <1>2, <2>4, <3>4 DEF HandleErrorLater, ErrorClientReset, AssertFails
    <3>5. QED BY <2>4, <3>1, <3>2, <3>3, <3>4 DEF HandleErrorLater
  <2>5. CASE t = Loop /\ RestoreCallbacks
    BY <1>0, <1>2, <2>5 DEF RestoreCallbacks
  <2>6. QED BY <1>2, <2>1, <2>2, <2>3, <2>4, <2>5 DEF Continue
<1>3. CASE LoopNext
  <2>0. Loop \in Threads
    BY DEF Threads
  <2>1. ASSUME NEW v \in 1..MaxCommits, Upload(v) PROVE PutOffIsNotImmediate'
    BY <1>0, <2>0, <2>1 DEF Upload
  <2>2. ASSUME NEW h \in pending, Complete(h) PROVE PutOffIsNotImmediate'
    <3>1. PICK c \in Answers(h) : CompleteWaits(h, c) \/ CompleteDeath(h)
      BY <2>2 DEF Complete
    <3>2. CASE CompleteWaits(h, c)
      BY <1>0, <2>0, <2>2, <3>1, <3>2 DEF Complete, CompleteWaits
    <3>3. CASE CompleteDeath(h)
      BY <1>0, <2>0, <2>2, <3>3 DEF Complete, CompleteDeath, EnterInactive
    <3>4. QED BY <3>1, <3>2, <3>3
  <2>3. ASSUME NEW kind \in Kinds, NEW fatal \in BOOLEAN, HandleError(kind, fatal) PROVE PutOffIsNotImmediate'
    BY <1>0, <2>0, <2>3 DEF HandleError, EnterInactive
  <2>4. QED BY <1>3, <2>1, <2>2, <2>3 DEF LoopNext
<1>4. CASE UNCHANGED vars
  BY <1>0, <1>4 DEF vars
<1>5. QED BY <1>1, <1>2, <1>3, <1>4 DEF Next

-----------------------------------------------------------------------------
(* Dying *)

\* The handler of the last death stays until it runs, and then ends it.
LEMMA DeathStep == Inv /\ [Next]_vars => DeathIsAwaited'
<1> SUFFICES ASSUME Inv, [Next]_vars PROVE DeathIsAwaited'
  OBVIOUS
<1>0. DeathIsAwaited /\ TypeOK
  BY DEF Inv
<1> USE SessionAssumption DEF stateVars, threadVars, fileVars, waitVars, DeathIsAwaited
<1>1. ASSUME NEW t \in AppThreads, AppNext(t) PROVE DeathIsAwaited'
  <2>0. t \in Threads /\ t # Loop
    BY DEF Threads
  <2>1. CASE ReviveSession(t)
    BY <1>0, <2>0, <2>1 DEF ReviveSession, ReviveIfNeeded, EnterWaiting, HandlersOnActive
  <2>2. CASE RefreshToken(t)
    <3> DEFINE s   == IF session = 0 THEN made + 1 ELSE session
               ann == MaxOf(IF session = 0 THEN commits ELSE announced, deferredCommit)
               h   == DeathHandler(s, deathCount + 1, ann)
    <3>1. CASE state' = "active"
      BY <3>1
    <3>2. CASE state' = "dying"
      <4>1. session' = s /\ deathCount' = deathCount + 1 /\ h \in pending'
        BY <2>2, <3>2 DEF RefreshToken, EnterDying
      <4>2. h.for = "death" /\ h.session = s /\ h.count = deathCount + 1
        BY DEF DeathHandler
      <4>3. QED BY <4>1, <4>2
    <3>3. QED BY <2>2, <3>1, <3>2 DEF RefreshToken, EnterDying
  <2>3. CASE Commit(t)
    BY <1>0, <2>0, <2>3 DEF Commit
  <2>4. CASE Close(t)
    <3> DEFINE h == DeathHandler(session, deathCount + 1, announced)
    <3>1. CASE state' # "dying"
      BY <3>1
    <3>2. CASE state' = "dying"
      <4>1. session' = session /\ deathCount' = deathCount + 1 /\ h \in pending'
        BY <2>4, <3>2 DEF Close, EnterDying, EnterInactive
      <4>2. h.for = "death" /\ h.session = session /\ h.count = deathCount + 1
        BY DEF DeathHandler
      <4>3. QED BY <4>1, <4>2
    <3>3. QED BY <3>1, <3>2
  <2>5. CASE LogOut(t)
    BY <1>0, <2>0, <2>5 DEF LogOut, EnterInactive
  <2>6. ASSUME NEW w \in Waiters, WaitForUpload(t, w) PROVE DeathIsAwaited'
    BY <1>0, <2>0, <2>6 DEF WaitForUpload
  <2>7. ASSUME NEW p \in Policies, UpdateConfiguration(t, p) PROVE DeathIsAwaited'
    BY <1>0, <2>0, <2>7 DEF UpdateConfiguration
  <2>8. QED BY <1>1, <2>1, <2>2, <2>3, <2>4, <2>5, <2>6, <2>7 DEF AppNext
<1>2. ASSUME NEW t \in Threads, Continue(t) PROVE DeathIsAwaited'
  <2>1. ASSUME NEW v \in Waiters, NEW c \in Codes, Call(t, v, c) PROVE DeathIsAwaited'
    BY <1>0, <1>2, <2>1 DEF Call
  <2>2. CASE UpdateLoop(t)
    BY <1>0, <1>2, <2>2 DEF UpdateLoop, EnterInactive
  <2>3. CASE ReviveLater(t)
    BY <1>0, <1>2, <2>3 DEF ReviveLater, ReviveIfNeeded, EnterWaiting, HandlersOnActive
  <2>4. CASE t = Loop /\ HandleErrorLater
    <3>1. CASE ErrorCancels
      BY <1>0, <1>2, <2>4, <3>1 DEF HandleErrorLater, ErrorCancels
    <3>2. CASE ErrorTokenExpired
      BY <1>0, <1>2, <2>4, <3>2 DEF HandleErrorLater, ErrorTokenExpired, EnterWaiting
    <3>3. CASE ErrorDelete
      BY <1>0, <1>2, <2>4, <3>3 DEF HandleErrorLater, ErrorDelete, AssertFails, EnterInactive
    <3>4. CASE ErrorClientReset
      BY <1>0, <1>2, <2>4, <3>4 DEF HandleErrorLater, ErrorClientReset, AssertFails
    <3>5. QED BY <2>4, <3>1, <3>2, <3>3, <3>4 DEF HandleErrorLater
  <2>5. CASE t = Loop /\ RestoreCallbacks
    BY <1>0, <1>2, <2>5 DEF RestoreCallbacks
  <2>6. QED BY <1>2, <2>1, <2>2, <2>3, <2>4, <2>5 DEF Continue
<1>3. CASE LoopNext
  <2>0. Loop \in Threads
    BY DEF Threads
  <2>1. ASSUME NEW v \in 1..MaxCommits, Upload(v) PROVE DeathIsAwaited'
    BY <1>0, <2>0, <2>1 DEF Upload
  <2>2. ASSUME NEW h \in pending, Complete(h) PROVE DeathIsAwaited'
    <3>1. PICK c \in Answers(h) : CompleteWaits(h, c) \/ CompleteDeath(h)
      BY <2>2 DEF Complete
    <3>2. CASE CompleteWaits(h, c)
      BY <1>0, <2>0, <2>2, <3>1, <3>2 DEF Complete, CompleteWaits
    <3>3. CASE CompleteDeath(h)
      BY <1>0, <2>0, <2>2, <3>3 DEF Complete, CompleteDeath, EnterInactive
    <3>4. QED BY <3>1, <3>2, <3>3
  <2>3. ASSUME NEW kind \in Kinds, NEW fatal \in BOOLEAN, HandleError(kind, fatal) PROVE DeathIsAwaited'
    BY <1>0, <2>0, <2>3 DEF HandleError, EnterInactive
  <2>4. QED BY <1>3, <2>1, <2>2, <2>3 DEF LoopNext
<1>4. CASE UNCHANGED vars
  BY <1>0, <1>4 DEF vars
<1>5. QED BY <1>1, <1>2, <1>3, <1>4 DEF Next

\* A session starts dying with a count that no handler has seen.
LEMMA DeathCountStep == Inv /\ [Next]_vars => DeathsAreCounted'
<1> SUFFICES ASSUME Inv, [Next]_vars PROVE DeathsAreCounted'
  OBVIOUS
<1>0. DeathsAreCounted /\ TypeOK
  BY DEF Inv
<1> USE SessionAssumption DEF stateVars, threadVars, fileVars, waitVars, DeathsAreCounted, TypeOK, Handlers
<1>1. ASSUME NEW t \in AppThreads, AppNext(t) PROVE DeathsAreCounted'
  <2>0. t \in Threads /\ t # Loop
    BY DEF Threads
  <2>1. CASE ReviveSession(t)
    BY <1>0, <2>0, <2>1 DEF ReviveSession, ReviveIfNeeded, EnterWaiting, HandlersOnActive, CompletionHandler
  <2>2. CASE RefreshToken(t)
    BY <1>0, <2>0, <2>2 DEF RefreshToken, EnterDying, DeathHandler, HandlersOnActive, CompletionHandler
  <2>3. CASE Commit(t)
    BY <1>0, <2>0, <2>3 DEF Commit
  <2>4. CASE Close(t)
    BY <1>0, <2>0, <2>4 DEF Close, EnterInactive, EnterDying, DeathHandler
  <2>5. CASE LogOut(t)
    BY <1>0, <2>0, <2>5 DEF LogOut, EnterInactive
  <2>6. ASSUME NEW w \in Waiters, WaitForUpload(t, w) PROVE DeathsAreCounted'
    BY <1>0, <2>0, <2>6 DEF WaitForUpload, CompletionHandler
  <2>7. ASSUME NEW p \in Policies, UpdateConfiguration(t, p) PROVE DeathsAreCounted'
    BY <1>0, <2>0, <2>7 DEF UpdateConfiguration
  <2>8. QED BY <1>1, <2>1, <2>2, <2>3, <2>4, <2>5, <2>6, <2>7 DEF AppNext
<1>2. ASSUME NEW t \in Threads, Continue(t) PROVE DeathsAreCounted'
  <2>1. ASSUME NEW v \in Waiters, NEW c \in Codes, Call(t, v, c) PROVE DeathsAreCounted'
    BY <1>0, <1>2, <2>1 DEF Call
  <2>2. CASE UpdateLoop(t)
    BY <1>0, <1>2, <2>2 DEF UpdateLoop, EnterInactive
  <2>3. CASE ReviveLater(t)
    BY <1>0, <1>2, <2>3 DEF ReviveLater, ReviveIfNeeded, EnterWaiting, HandlersOnActive, CompletionHandler
  <2>4. CASE t = Loop /\ HandleErrorLater
    <3>1. CASE ErrorCancels
      BY <1>0, <1>2, <2>4, <3>1 DEF HandleErrorLater, ErrorCancels
    <3>2. CASE ErrorTokenExpired
      BY <1>0, <1>2, <2>4, <3>2 DEF HandleErrorLater, ErrorTokenExpired, EnterWaiting
    <3>3. CASE ErrorDelete
      BY <1>0, <1>2, <2>4, <3>3 DEF HandleErrorLater, ErrorDelete, AssertFails, EnterInactive
    <3>4. CASE ErrorClientReset
      BY <1>0, <1>2, <2>4, <3>4 DEF HandleErrorLater, ErrorClientReset, AssertFails
    <3>5. QED BY <2>4, <3>1, <3>2, <3>3, <3>4 DEF HandleErrorLater
  <2>5. CASE t = Loop /\ RestoreCallbacks
    BY <1>0, <1>2, <2>5 DEF RestoreCallbacks
  <2>6. QED BY <1>2, <2>1, <2>2, <2>3, <2>4, <2>5 DEF Continue
<1>3. CASE LoopNext
  <2>0. Loop \in Threads
    BY DEF Threads
  <2>1. ASSUME NEW v \in 1..MaxCommits, Upload(v) PROVE DeathsAreCounted'
    BY <1>0, <2>0, <2>1 DEF Upload
  <2>2. ASSUME NEW h \in pending, Complete(h) PROVE DeathsAreCounted'
    <3>1. PICK c \in Answers(h) : CompleteWaits(h, c) \/ CompleteDeath(h)
      BY <2>2 DEF Complete
    <3>2. CASE CompleteWaits(h, c)
      BY <1>0, <2>0, <2>2, <3>1, <3>2 DEF Complete, CompleteWaits
    <3>3. CASE CompleteDeath(h)
      BY <1>0, <2>0, <2>2, <3>3 DEF Complete, CompleteDeath, EnterInactive
    <3>4. QED BY <3>1, <3>2, <3>3
  <2>3. ASSUME NEW kind \in Kinds, NEW fatal \in BOOLEAN, HandleError(kind, fatal) PROVE DeathsAreCounted'
    BY <1>0, <2>0, <2>3 DEF HandleError, EnterInactive
  <2>4. QED BY <1>3, <2>1, <2>2, <2>3 DEF LoopNext
<1>4. CASE UNCHANGED vars
  BY <1>0, <1>4 DEF vars
<1>5. QED BY <1>1, <1>2, <1>3, <1>4 DEF Next

-----------------------------------------------------------------------------
(* Commits *)

\* A session becomes active with what it remembered, and only hears more.
LEMMA AnnouncedStep == Inv /\ [Next]_vars => CommitsAreAnnounced'
<1> SUFFICES ASSUME Inv, [Next]_vars PROVE CommitsAreAnnounced'
  OBVIOUS
<1>0. CommitsAreAnnounced /\ CommitsAreRemembered /\ SessionIsThere /\ TypeOK
  BY DEF Inv
<1> USE SessionAssumption DEF stateVars, threadVars, fileVars, waitVars, CommitsAreAnnounced, CommitsAreRemembered, SessionIsThere, MaxOf, TypeOK
<1>1. ASSUME NEW t \in AppThreads, AppNext(t) PROVE CommitsAreAnnounced'
  <2>0. t \in Threads /\ t # Loop
    BY DEF Threads
  <2>1. CASE ReviveSession(t)
    BY <1>0, <2>0, <2>1 DEF ReviveSession, ReviveIfNeeded, EnterWaiting
  <2>2. CASE RefreshToken(t)
    BY <1>0, <2>0, <2>2 DEF RefreshToken, EnterDying
  <2>3. CASE Commit(t)
    BY <1>0, <2>0, <2>3 DEF Commit
  <2>4. CASE Close(t)
    BY <1>0, <2>0, <2>4 DEF Close, EnterInactive, EnterDying
  <2>5. CASE LogOut(t)
    BY <1>0, <2>0, <2>5 DEF LogOut, EnterInactive
  <2>6. ASSUME NEW w \in Waiters, WaitForUpload(t, w) PROVE CommitsAreAnnounced'
    BY <1>0, <2>0, <2>6 DEF WaitForUpload
  <2>7. ASSUME NEW p \in Policies, UpdateConfiguration(t, p) PROVE CommitsAreAnnounced'
    BY <1>0, <2>0, <2>7 DEF UpdateConfiguration
  <2>8. QED BY <1>1, <2>1, <2>2, <2>3, <2>4, <2>5, <2>6, <2>7 DEF AppNext
<1>2. ASSUME NEW t \in Threads, Continue(t) PROVE CommitsAreAnnounced'
  <2>1. ASSUME NEW v \in Waiters, NEW c \in Codes, Call(t, v, c) PROVE CommitsAreAnnounced'
    BY <1>0, <1>2, <2>1 DEF Call
  <2>2. CASE UpdateLoop(t)
    BY <1>0, <1>2, <2>2 DEF UpdateLoop, EnterInactive
  <2>3. CASE ReviveLater(t)
    BY <1>0, <1>2, <2>3 DEF ReviveLater, ReviveIfNeeded, EnterWaiting
  <2>4. CASE t = Loop /\ HandleErrorLater
    <3>1. CASE ErrorCancels
      BY <1>0, <1>2, <2>4, <3>1 DEF HandleErrorLater, ErrorCancels
    <3>2. CASE ErrorTokenExpired
      BY <1>0, <1>2, <2>4, <3>2 DEF HandleErrorLater, ErrorTokenExpired, EnterWaiting
    <3>3. CASE ErrorDelete
      BY <1>0, <1>2, <2>4, <3>3 DEF HandleErrorLater, ErrorDelete, AssertFails, EnterInactive
    <3>4. CASE ErrorClientReset
      BY <1>0, <1>2, <2>4, <3>4 DEF HandleErrorLater, ErrorClientReset, AssertFails
    <3>5. QED BY <2>4, <3>1, <3>2, <3>3, <3>4 DEF HandleErrorLater
  <2>5. CASE t = Loop /\ RestoreCallbacks
    BY <1>0, <1>2, <2>5 DEF RestoreCallbacks
  <2>6. QED BY <1>2, <2>1, <2>2, <2>3, <2>4, <2>5 DEF Continue
<1>3. CASE LoopNext
  <2>0. Loop \in Threads
    BY DEF Threads
  <2>1. ASSUME NEW v \in 1..MaxCommits, Upload(v) PROVE CommitsAreAnnounced'
    BY <1>0, <2>0, <2>1 DEF Upload
  <2>2. ASSUME NEW h \in pending, Complete(h) PROVE CommitsAreAnnounced'
    <3>1. PICK c \in Answers(h) : CompleteWaits(h, c) \/ CompleteDeath(h)
      BY <2>2 DEF Complete
    <3>2. CASE CompleteWaits(h, c)
      BY <1>0, <2>0, <2>2, <3>1, <3>2 DEF Complete, CompleteWaits
    <3>3. CASE CompleteDeath(h)
      BY <1>0, <2>0, <2>2, <3>3 DEF Complete, CompleteDeath, EnterInactive
    <3>4. QED BY <3>1, <3>2, <3>3
  <2>3. ASSUME NEW kind \in Kinds, NEW fatal \in BOOLEAN, HandleError(kind, fatal) PROVE CommitsAreAnnounced'
    BY <1>0, <2>0, <2>3 DEF HandleError, EnterInactive
  <2>4. QED BY <1>3, <2>1, <2>2, <2>3 DEF LoopNext
<1>4. CASE UNCHANGED vars
  BY <1>0, <1>4 DEF vars
<1>5. QED BY <1>1, <1>2, <1>3, <1>4 DEF Next

\* A commit is heard or remembered until the session is active again.
LEMMA RememberedStep == Inv /\ [Next]_vars => CommitsAreRemembered'
<1> SUFFICES ASSUME Inv, [Next]_vars PROVE CommitsAreRemembered'
  OBVIOUS
<1>0. CommitsAreAnnounced /\ CommitsAreRemembered /\ SessionIsThere /\ TypeOK
  BY DEF Inv
<1> USE SessionAssumption DEF stateVars, threadVars, fileVars, waitVars, CommitsAreRemembered, CommitsAreAnnounced, SessionIsThere, MaxOf, TypeOK
<1>1. ASSUME NEW t \in AppThreads, AppNext(t) PROVE CommitsAreRemembered'
  <2>0. t \in Threads /\ t # Loop
    BY DEF Threads
  <2>1. CASE ReviveSession(t)
    BY <1>0, <2>0, <2>1 DEF ReviveSession, ReviveIfNeeded, EnterWaiting
  <2>2. CASE RefreshToken(t)
    BY <1>0, <2>0, <2>2 DEF RefreshToken, EnterDying
  <2>3. CASE Commit(t)
    <3>1. CASE state = "active"
      BY <2>3, <3>1 DEF Commit
    <3>2. CASE state = "waiting_for_access_token"
      <4>1. unheard' = (unheard /\ TRUE) /\ deferredCommit' = commits + 1 /\ announced' = announced
        BY <2>3, <3>2 DEF Commit
      <4>2. announced \in Int /\ commits \in Int /\ announced <= commits /\ commits' = commits + 1 /\ state' = state
        BY <1>0, <2>3 DEF Commit
      <4>3. MaxOf(announced', deferredCommit') = commits'
        BY <4>1, <4>2
      <4>4. QED BY <3>2, <4>2, <4>3
    <3>3. CASE state \in {"dying", "inactive"}
      <4>1. unheard'
        BY <2>3, <3>3 DEF Commit
      <4>2. QED BY <4>1
    <3>4. QED BY <1>0, <3>1, <3>2, <3>3 DEF States
  <2>4. CASE Close(t)
    BY <1>0, <2>0, <2>4 DEF Close, EnterInactive, EnterDying
  <2>5. CASE LogOut(t)
    BY <1>0, <2>0, <2>5 DEF LogOut, EnterInactive
  <2>6. ASSUME NEW w \in Waiters, WaitForUpload(t, w) PROVE CommitsAreRemembered'
    BY <1>0, <2>0, <2>6 DEF WaitForUpload
  <2>7. ASSUME NEW p \in Policies, UpdateConfiguration(t, p) PROVE CommitsAreRemembered'
    BY <1>0, <2>0, <2>7 DEF UpdateConfiguration
  <2>8. QED BY <1>1, <2>1, <2>2, <2>3, <2>4, <2>5, <2>6, <2>7 DEF AppNext
<1>2. ASSUME NEW t \in Threads, Continue(t) PROVE CommitsAreRemembered'
  <2>1. ASSUME NEW v \in Waiters, NEW c \in Codes, Call(t, v, c) PROVE CommitsAreRemembered'
    BY <1>0, <1>2, <2>1 DEF Call
  <2>2. CASE UpdateLoop(t)
    BY <1>0, <1>2, <2>2 DEF UpdateLoop, EnterInactive
  <2>3. CASE ReviveLater(t)
    BY <1>0, <1>2, <2>3 DEF ReviveLater, ReviveIfNeeded, EnterWaiting
  <2>4. CASE t = Loop /\ HandleErrorLater
    <3>1. CASE ErrorCancels
      BY <1>0, <1>2, <2>4, <3>1 DEF HandleErrorLater, ErrorCancels
    <3>2. CASE ErrorTokenExpired
      BY <1>0, <1>2, <2>4, <3>2 DEF HandleErrorLater, ErrorTokenExpired, EnterWaiting
    <3>3. CASE ErrorDelete
      BY <1>0, <1>2, <2>4, <3>3 DEF HandleErrorLater, ErrorDelete, AssertFails, EnterInactive
    <3>4. CASE ErrorClientReset
      BY <1>0, <1>2, <2>4, <3>4 DEF HandleErrorLater, ErrorClientReset, AssertFails
    <3>5. QED BY <2>4, <3>1, <3>2, <3>3, <3>4 DEF HandleErrorLater
  <2>5. CASE t = Loop /\ RestoreCallbacks
    BY <1>0, <1>2, <2>5 DEF RestoreCallbacks
  <2>6. QED BY <1>2, <2>1, <2>2, <2>3, <2>4, <2>5 DEF Continue
<1>3. CASE LoopNext
  <2>0. Loop \in Threads
    BY DEF Threads
  <2>1. ASSUME NEW v \in 1..MaxCommits, Upload(v) PROVE CommitsAreRemembered'
    BY <1>0, <2>0, <2>1 DEF Upload
  <2>2. ASSUME NEW h \in pending, Complete(h) PROVE CommitsAreRemembered'
    <3>1. PICK c \in Answers(h) : CompleteWaits(h, c) \/ CompleteDeath(h)
      BY <2>2 DEF Complete
    <3>2. CASE CompleteWaits(h, c)
      BY <1>0, <2>0, <2>2, <3>1, <3>2 DEF Complete, CompleteWaits
    <3>3. CASE CompleteDeath(h)
      BY <1>0, <2>0, <2>2, <3>3 DEF Complete, CompleteDeath, EnterInactive
    <3>4. QED BY <3>1, <3>2, <3>3
  <2>3. ASSUME NEW kind \in Kinds, NEW fatal \in BOOLEAN, HandleError(kind, fatal) PROVE CommitsAreRemembered'
    BY <1>0, <2>0, <2>3 DEF HandleError, EnterInactive
  <2>4. QED BY <1>3, <2>1, <2>2, <2>3 DEF LoopNext
<1>4. CASE UNCHANGED vars
  BY <1>0, <1>4 DEF vars
<1>5. QED BY <1>1, <1>2, <1>3, <1>4 DEF Next

-----------------------------------------------------------------------------
(* Waiting functions and their handlers *)

\* Only the event loop's thread carries on with an error or a resync.
LEMMA CountedStep == Inv /\ [Next]_vars => ResyncsAreCounted'
<1> SUFFICES ASSUME Inv, [Next]_vars PROVE ResyncsAreCounted'
  OBVIOUS
<1>0. ResyncsAreCounted /\ TypeOK
  BY DEF Inv
<1> USE SessionAssumption DEF stateVars, threadVars, fileVars, waitVars, ResyncsAreCounted, TypeOK, None, Revive, Threads
<1>1. ASSUME NEW t \in AppThreads, AppNext(t) PROVE ResyncsAreCounted'
  <2>0. t \in Threads /\ t # Loop
    BY DEF Threads
  <2>1. CASE ReviveSession(t)
    BY <1>0, <2>0, <2>1 DEF ReviveSession, ReviveIfNeeded, EnterWaiting, HandlersOnActive, CompletionHandler, Resuming
  <2>2. CASE RefreshToken(t)
    BY <1>0, <2>0, <2>2 DEF RefreshToken, EnterDying, HandlersOnActive, CompletionHandler, DeathHandler
  <2>3. CASE Commit(t)
    BY <1>0, <2>0, <2>3 DEF Commit
  <2>4. CASE Close(t)
    BY <1>0, <2>0, <2>4 DEF Close, EnterInactive, EnterDying, MoveOut, DeathHandler
  <2>5. CASE LogOut(t)
    BY <1>0, <2>0, <2>5 DEF LogOut, EnterInactive, MoveOut
  <2>6. ASSUME NEW w \in Waiters, WaitForUpload(t, w) PROVE ResyncsAreCounted'
    BY <1>0, <2>0, <2>6 DEF WaitForUpload, CompletionHandler
  <2>7. ASSUME NEW p \in Policies, UpdateConfiguration(t, p) PROVE ResyncsAreCounted'
    BY <1>0, <2>0, <2>7 DEF UpdateConfiguration, Free
  <2>8. QED BY <1>1, <2>1, <2>2, <2>3, <2>4, <2>5, <2>6, <2>7 DEF AppNext
<1>2. ASSUME NEW t \in Threads, Continue(t) PROVE ResyncsAreCounted'
  <2>1. ASSUME NEW v \in Waiters, NEW c \in Codes, Call(t, v, c) PROVE ResyncsAreCounted'
    BY <1>0, <1>2, <2>1 DEF Call
  <2>2. CASE UpdateLoop(t)
    BY <1>0, <1>2, <2>2 DEF UpdateLoop, EnterInactive, MoveOut, Resuming
  <2>3. CASE ReviveLater(t)
    BY <1>0, <1>2, <2>3 DEF ReviveLater, ReviveIfNeeded, EnterWaiting, HandlersOnActive, CompletionHandler, Resuming
  <2>4. CASE t = Loop /\ HandleErrorLater
    <3>1. CASE ErrorCancels
      BY <1>0, <1>2, <2>4, <3>1 DEF HandleErrorLater, ErrorCancels, MoveOut, Resuming
    <3>2. CASE ErrorTokenExpired
      BY <1>0, <1>2, <2>4, <3>2 DEF HandleErrorLater, ErrorTokenExpired, EnterWaiting, Resuming
    <3>3. CASE ErrorDelete
      BY <1>0, <1>2, <2>4, <3>3 DEF HandleErrorLater, ErrorDelete, AssertFails, EnterInactive, MoveOut, Resuming
    <3>4. CASE ErrorClientReset
      <4>0. Loop \in Threads /\ next \in [Threads -> Conts] /\ pending' = pending /\ resyncs \in Nat /\ resyncs' \in {resyncs, resyncs + 1}
        BY <1>0, <1>2, <2>4, <3>4 DEF HandleErrorLater, ErrorClientReset, AssertFails
      <4>1. /\ \A u \in AppThreads : next'[u] = next[u]
            /\ \/ next'[Loop].do = "restore" /\ resyncs' = resyncs + 1
               \/ next'[Loop].do = "none"
        BY <1>0, <1>2, <2>4, <3>4, <4>0 DEF HandleErrorLater, ErrorClientReset, AssertFails
      <4>2. next'[Loop] # [do |-> "error", kind |-> "client_reset"]
        BY <4>1
      <4>3. \A h \in pending : h.for = "callbacks" => h.count <= resyncs'
        BY <1>0, <4>0 DEF Handlers
      <4>4. QED BY <1>0, <4>0, <4>1, <4>2, <4>3
    <3>5. QED BY <2>4, <3>1, <3>2, <3>3, <3>4 DEF HandleErrorLater
  <2>5. CASE t = Loop /\ RestoreCallbacks
    BY <1>0, <1>2, <2>5 DEF RestoreCallbacks, Resuming
  <2>6. QED BY <1>2, <2>1, <2>2, <2>3, <2>4, <2>5 DEF Continue
<1>3. CASE LoopNext
  <2>0. Loop \in Threads
    BY DEF Threads
  <2>1. ASSUME NEW v \in 1..MaxCommits, Upload(v) PROVE ResyncsAreCounted'
    BY <1>0, <2>0, <2>1 DEF Upload
  <2>2. ASSUME NEW h \in pending, Complete(h) PROVE ResyncsAreCounted'
    <3>1. PICK c \in Answers(h) : CompleteWaits(h, c) \/ CompleteDeath(h)
      BY <2>2 DEF Complete
    <3>2. CASE CompleteWaits(h, c)
      BY <1>0, <2>0, <2>2, <3>1, <3>2 DEF Complete, CompleteWaits, MoveOut
    <3>3. CASE CompleteDeath(h)
      BY <1>0, <2>0, <2>2, <3>3 DEF Complete, CompleteDeath, EnterInactive, MoveOut
    <3>4. QED BY <3>1, <3>2, <3>3
  <2>3. ASSUME NEW kind \in Kinds, NEW fatal \in BOOLEAN, HandleError(kind, fatal) PROVE ResyncsAreCounted'
    BY <1>0, <2>0, <2>3 DEF HandleError, EnterInactive, MoveOut, Free
  <2>4. QED BY <1>3, <2>1, <2>2, <2>3 DEF LoopNext
<1>4. CASE UNCHANGED vars
  BY <1>0, <1>4 DEF vars
<1>5. QED BY <1>1, <1>2, <1>3, <1>4 DEF Next

\* A handler goes only together with the functions it was registered for.
LEMMA AwaitedStep == Inv /\ [Next]_vars => WaitsAreAwaited'
<1> SUFFICES ASSUME Inv, [Next]_vars PROVE WaitsAreAwaited'
  OBVIOUS
<1>0. WaitsAreAwaited /\ ResyncsAreCounted /\ TypeOK
  BY DEF Inv
<1> USE SessionAssumption DEF stateVars, threadVars, fileVars, waitVars, WaitsAreAwaited, ResyncsAreCounted
<1>1. ASSUME NEW t \in AppThreads, AppNext(t) PROVE WaitsAreAwaited'
  <2>0. t \in Threads /\ t # Loop
    BY DEF Threads
  <2>1. CASE ReviveSession(t)
    BY <1>0, <2>0, <2>1 DEF ReviveSession, ReviveIfNeeded, EnterWaiting, HandlersOnActive, CompletionHandler
  <2>2. CASE RefreshToken(t)
    <3> DEFINE s   == IF session = 0 THEN made + 1 ELSE session
               ann == MaxOf(IF session = 0 THEN commits ELSE announced, deferredCommit)
               h   == CompletionHandler(s, ann)
    <3>1. SUFFICES ASSUME callbacks # {} PROVE session' = s /\ h \in pending' /\ h.for = "callbacks" /\ h.session = s
      BY <2>2 DEF RefreshToken
    <3>2. session' = s /\ HandlersOnActive(s, ann) \subseteq pending'
      BY <2>2 DEF RefreshToken
    <3>3. h \in HandlersOnActive(s, ann) /\ h.for = "callbacks" /\ h.session = s
      BY <3>1 DEF HandlersOnActive, CompletionHandler
    <3>4. QED BY <3>2, <3>3
  <2>3. CASE Commit(t)
    BY <1>0, <2>0, <2>3 DEF Commit
  <2>4. CASE Close(t)
    BY <1>0, <2>0, <2>4 DEF Close, EnterInactive, EnterDying, MoveOut, DeathHandler, MoveOut
  <2>5. CASE LogOut(t)
    BY <1>0, <2>0, <2>5 DEF LogOut, EnterInactive, MoveOut
  <2>6. ASSUME NEW w \in Waiters, WaitForUpload(t, w) PROVE WaitsAreAwaited'
    <3> DEFINE h == CompletionHandler(session, announced)
    <3>1. h.for = "callbacks" /\ h.session = session
      BY DEF CompletionHandler
    <3>2. session' = session /\ state' = state /\ resyncs' = resyncs /\ pending \subseteq pending'
      BY <2>6 DEF WaitForUpload
    <3>3. state \in {"active", "dying"} /\ callbacks = {} => h \in pending'
      BY <2>6 DEF WaitForUpload
    <3>4. QED BY <1>0, <3>1, <3>2, <3>3
  <2>7. ASSUME NEW p \in Policies, UpdateConfiguration(t, p) PROVE WaitsAreAwaited'
    BY <1>0, <2>0, <2>7 DEF UpdateConfiguration
  <2>8. QED BY <1>1, <2>1, <2>2, <2>3, <2>4, <2>5, <2>6, <2>7 DEF AppNext
<1>2. ASSUME NEW t \in Threads, Continue(t) PROVE WaitsAreAwaited'
  <2>1. ASSUME NEW v \in Waiters, NEW c \in Codes, Call(t, v, c) PROVE WaitsAreAwaited'
    BY <1>0, <1>2, <2>1 DEF Call
  <2>2. CASE UpdateLoop(t)
    BY <1>0, <1>2, <2>2 DEF UpdateLoop, EnterInactive, MoveOut
  <2>3. CASE ReviveLater(t)
    BY <1>0, <1>2, <2>3 DEF ReviveLater, ReviveIfNeeded, EnterWaiting, HandlersOnActive, CompletionHandler
  <2>4. CASE t = Loop /\ HandleErrorLater
    <3>1. CASE ErrorCancels
      BY <1>0, <1>2, <2>4, <3>1 DEF HandleErrorLater, ErrorCancels, MoveOut
    <3>2. CASE ErrorTokenExpired
      BY <1>0, <1>2, <2>4, <3>2 DEF HandleErrorLater, ErrorTokenExpired, EnterWaiting
    <3>3. CASE ErrorDelete
      BY <1>0, <1>2, <2>4, <3>3 DEF HandleErrorLater, ErrorDelete, AssertFails, EnterInactive, MoveOut
    <3>4. CASE ErrorClientReset
      BY <1>0, <1>2, <2>4, <3>4 DEF HandleErrorLater, ErrorClientReset, AssertFails
    <3>5. QED BY <2>4, <3>1, <3>2, <3>3, <3>4 DEF HandleErrorLater
  <2>5. CASE t = Loop /\ RestoreCallbacks
    BY <1>0, <1>2, <2>5 DEF RestoreCallbacks, TypeOK, Resuming, Conts, None, Revive
  <2>6. QED BY <1>2, <2>1, <2>2, <2>3, <2>4, <2>5 DEF Continue
<1>3. CASE LoopNext
  <2>0. Loop \in Threads
    BY DEF Threads
  <2>1. ASSUME NEW v \in 1..MaxCommits, Upload(v) PROVE WaitsAreAwaited'
    BY <1>0, <2>0, <2>1 DEF Upload
  <2>2. ASSUME NEW h \in pending, Complete(h) PROVE WaitsAreAwaited'
    <3>1. PICK c \in Answers(h) : CompleteWaits(h, c) \/ CompleteDeath(h)
      BY <2>2 DEF Complete
    <3>2. CASE CompleteWaits(h, c)
      <4>1. CASE h.count = resyncs
        BY <2>2, <3>2, <4>1 DEF Complete, CompleteWaits, MoveOut
      <4>2. CASE h.count # resyncs
        <5>1. h \in Handlers /\ h.for = "callbacks" /\ resyncs \in Nat
          BY <1>0, <2>2, <3>2 DEF CompleteWaits, TypeOK
        <5>2. h.count \in Nat /\ h.count <= resyncs
          BY <1>0, <2>2, <5>1 DEF Handlers
        <5>3. resyncs # 0 /\ resyncs' = resyncs
          BY <2>2, <4>2, <5>1, <5>2 DEF Complete
        <5>4. QED BY <5>3
      <4>3. QED BY <4>1, <4>2
    <3>3. CASE CompleteDeath(h)
      BY <1>0, <2>0, <2>2, <3>3 DEF Complete, CompleteDeath, EnterInactive, MoveOut, TypeOK
    <3>4. QED BY <3>1, <3>2, <3>3
  <2>3. ASSUME NEW kind \in Kinds, NEW fatal \in BOOLEAN, HandleError(kind, fatal) PROVE WaitsAreAwaited'
    BY <1>0, <2>0, <2>3 DEF HandleError, EnterInactive, MoveOut
  <2>4. QED BY <1>3, <2>1, <2>2, <2>3 DEF LoopNext
<1>4. CASE UNCHANGED vars
  BY <1>0, <1>4 DEF vars
<1>5. QED BY <1>1, <1>2, <1>3, <1>4 DEF Next

\* The places of the waiting functions stay the same.
LEMMA KeptSame ==
    ASSUME WaitersAreKept, UNCHANGED <<callbacks, asked, calling, resyncs>>, PutAside' = PutAside
    PROVE  WaitersAreKept'
<1>1. Waiting' = Waiting /\ \A t \in Threads, w \in Waiters : HasToCall(t, w)' <=> HasToCall(t, w)
  BY DEF Waiting, HasToCall
<1>2. QED BY <1>1 DEF WaitersAreKept

\* A thread with nothing to call moves all of them out.
LEMMA KeptMoveOut ==
    ASSUME TypeOK, WaitersAreKept, NEW t \in Threads, NEW c \in Codes, calling[t] = {},
           MoveOut(t, c), UNCHANGED <<asked, resyncs>>, PutAside' = PutAside
    PROVE  WaitersAreKept'
<1>1. Waiting' = Waiting /\ callbacks' = {}
  BY DEF Waiting, MoveOut
<1>2. calling'[t] = callbacks \X {c} /\ \A u \in Threads \ {t} : calling'[u] = calling[u]
  BY DEF TypeOK, MoveOut
<1>3. \A w \in Waiters : (HasToCall(t, w)' <=> w \in callbacks) /\ ~HasToCall(t, w)
  BY <1>2 DEF HasToCall
<1>4. \A u \in Threads \ {t}, w \in Waiters : HasToCall(u, w)' <=> HasToCall(u, w)
  BY <1>2 DEF HasToCall
<1> SUFFICES ASSUME NEW w \in Waiters
             PROVE  /\ w \in PutAside => (w \in Waiting /\ \A u \in Threads : ~HasToCall(u, w)')
                    /\ \A u \in Threads : HasToCall(u, w)' =>
                          w \in Waiting /\ \A v \in Threads \ {u} : ~HasToCall(v, w)'
                    /\ \A u \in Threads, d, e \in Codes :
                          <<w, d>> \in calling'[u] /\ <<w, e>> \in calling'[u] => d = e
                    /\ w \in Waiting /\ resyncs = 0 => \E u \in Threads : HasToCall(u, w)'
  BY <1>1 DEF WaitersAreKept
<1>5. w \in PutAside => (w \in Waiting /\ \A u \in Threads : ~HasToCall(u, w)')
  BY <1>3, <1>4 DEF WaitersAreKept
<1>6. \A u \in Threads : HasToCall(u, w)' => w \in Waiting /\ \A v \in Threads \ {u} : ~HasToCall(v, w)'
  BY <1>3, <1>4 DEF WaitersAreKept
<1>7. \A u \in Threads, d, e \in Codes : <<w, d>> \in calling'[u] /\ <<w, e>> \in calling'[u] => d = e
  BY <1>2 DEF WaitersAreKept
<1>8. w \in Waiting /\ resyncs = 0 => \E u \in Threads : HasToCall(u, w)'
  BY <1>3, <1>4 DEF WaitersAreKept
<1>9. QED BY <1>5, <1>6, <1>7, <1>8

\* A resync puts the list aside, or puts back what it had put aside.
LEMMA KeptPutAside ==
    ASSUME WaitersAreKept, UNCHANGED <<asked, calling>>, resyncs' # 0,
           \/ PutAside = {} /\ PutAside' = callbacks /\ callbacks' = {}
           \/ callbacks' = PutAside /\ PutAside' = {}
    PROVE  WaitersAreKept'
<1>1. Waiting' = Waiting /\ \A t \in Threads, w \in Waiters : HasToCall(t, w)' <=> HasToCall(t, w)
  BY DEF Waiting, HasToCall
<1>2. QED BY <1>1 DEF WaitersAreKept

\* A new function is added to the list.
LEMMA KeptWait ==
    ASSUME TypeOK, WaitersAreKept, NEW w \in Waiters, asked[w] = Idle, callbacks' = callbacks \cup {w},
           asked' = [asked EXCEPT ![w] = commits], UNCHANGED <<calling, resyncs>>, PutAside' = PutAside
    PROVE  WaitersAreKept'
<1>1. Waiting' = Waiting \cup {w} /\ w \notin Waiting
  BY DEF Waiting, TypeOK, Idle
<1>2. \A t \in Threads, v \in Waiters : HasToCall(t, v)' <=> HasToCall(t, v)
  BY DEF HasToCall
<1>3. w \notin PutAside /\ \A t \in Threads : ~HasToCall(t, w)
  BY <1>1 DEF WaitersAreKept
<1>4. QED BY <1>1, <1>2, <1>3 DEF WaitersAreKept

\* A function that was moved out is called.
LEMMA KeptCall ==
    ASSUME TypeOK, WaitersAreKept, NEW t \in Threads, NEW w \in Waiters, NEW c \in Codes, Call(t, w, c),
           PutAside' = PutAside
    PROVE  WaitersAreKept'
<1>1. HasToCall(t, w) /\ Waiting' = Waiting \ {w} /\ callbacks' = callbacks /\ resyncs' = resyncs
  BY DEF HasToCall, Waiting, TypeOK, Call, stateVars
<1>2. /\ calling'[t] = calling[t] \ {<<w, c>>}
      /\ \A u \in Threads \ {t} : calling'[u] = calling[u]
  BY DEF TypeOK, Call
<1>3. w \notin callbacks \cup PutAside /\ \A u \in Threads \ {t} : ~HasToCall(u, w)
  BY <1>1 DEF WaitersAreKept
<1>4. \A d \in Codes : <<w, d>> \notin calling'[t]
  BY <1>2 DEF WaitersAreKept, Call
<1>5. \A u \in Threads : ~HasToCall(u, w)'
  BY <1>2, <1>3, <1>4 DEF HasToCall
<1>6. \A u \in Threads, v \in Waiters \ {w} : HasToCall(u, v)' <=> HasToCall(u, v)
  BY <1>2 DEF HasToCall
<1>7. \A u \in Threads, v \in Waiters, d, e \in Codes :
          <<v, d>> \in calling'[u] /\ <<v, e>> \in calling'[u] => d = e
  BY <1>2 DEF WaitersAreKept
<1>8. QED BY <1>1, <1>3, <1>5, <1>6, <1>7 DEF WaitersAreKept

LEMMA PutAsideSame ==
    /\ next'[Loop] = next[Loop] => PutAside' = PutAside
    /\ next[Loop].do # "restore" => PutAside = {}
    /\ next'[Loop].do # "restore" => PutAside' = {}
BY DEF PutAside

\* A waiting function moves from one place to the next and is never copied.
LEMMA KeptStep == Inv /\ [Next]_vars => WaitersAreKept'
<1> SUFFICES ASSUME Inv, [Next]_vars PROVE WaitersAreKept'
  OBVIOUS
<1>0. WaitersAreKept /\ ResyncsAreCounted /\ TypeOK /\ next \in [Threads -> Conts] /\ Loop \in Threads
  BY DEF Inv, TypeOK, Threads
<1> USE SessionAssumption DEF stateVars, threadVars, fileVars, waitVars
<1>1. ASSUME NEW t \in AppThreads, AppNext(t) PROVE WaitersAreKept'
  <2>0. t \in Threads /\ t # Loop /\ "aborted" \in Codes
    BY DEF Threads, Codes
  <2>1. CASE ReviveSession(t)
    BY <1>0, <2>1, KeptSame, PutAsideSame DEF ReviveSession
  <2>2. CASE RefreshToken(t)
    BY <1>0, <2>2, KeptSame, PutAsideSame DEF RefreshToken
  <2>3. CASE Commit(t)
    BY <1>0, <2>3, KeptSame, PutAsideSame DEF Commit
  <2>4. CASE Close(t)
    <3>1. next' = next /\ calling[t] = {} /\ UNCHANGED <<asked, resyncs>>
      BY <2>4 DEF Close, Free
    <3>2. MoveOut(t, "aborted") \/ UNCHANGED <<callbacks, calling>>
      BY <2>4 DEF Close, EnterInactive
    <3>3. QED BY <1>0, <2>0, <3>1, <3>2, KeptSame, KeptMoveOut, PutAsideSame
  <2>5. CASE LogOut(t)
    <3>1. next' = next /\ calling[t] = {} /\ UNCHANGED <<asked, resyncs>> /\ MoveOut(t, "aborted")
      BY <2>5 DEF LogOut, Free, EnterInactive
    <3>2. QED BY <1>0, <2>0, <3>1, KeptMoveOut, PutAsideSame
  <2>6. ASSUME NEW w \in Waiters, WaitForUpload(t, w) PROVE WaitersAreKept'
    BY <1>0, <2>6, KeptWait, PutAsideSame DEF WaitForUpload
  <2>7. ASSUME NEW p \in Policies, UpdateConfiguration(t, p) PROVE WaitersAreKept'
    <3>1. next'[Loop] = next[Loop]
      BY <1>0, <2>0, <2>7 DEF UpdateConfiguration
    <3>2. QED BY <1>0, <2>7, <3>1, KeptSame, PutAsideSame DEF UpdateConfiguration
  <2>8. QED BY <1>1, <2>1, <2>2, <2>3, <2>4, <2>5, <2>6, <2>7 DEF AppNext
<1>2. ASSUME NEW t \in Threads, Continue(t) PROVE WaitersAreKept'
  <2>0. {"aborted", "error"} \subseteq Codes
    BY DEF Codes
  <2>1. ASSUME NEW w \in Waiters, NEW c \in Codes, Call(t, w, c) PROVE WaitersAreKept'
    <3>1. next' = next
      BY <2>1 DEF Call
    <3>2. QED BY <1>0, <2>1, <3>1, KeptCall, PutAsideSame
  <2>2. CASE UpdateLoop(t)
    <3>1. calling[t] = {} /\ next[t].do = "update" /\ UNCHANGED <<asked, resyncs>>
      BY <2>2 DEF UpdateLoop, Resuming
    <3>2. CASE EnterInactive(t) /\ UNCHANGED <<policy, next>>
      BY <1>0, <2>0, <3>1, <3>2, KeptMoveOut, PutAsideSame DEF EnterInactive
    <3>3. CASE next' = [next EXCEPT ![t] = Revive] /\ UNCHANGED <<calling, callbacks>>
      <4>1. PutAside' = PutAside
        BY <1>0, <3>1, <3>3, PutAsideSame DEF Revive
      <4>2. QED BY <1>0, <3>1, <3>3, <4>1, KeptSame
    <3>4. QED BY <2>2, <3>2, <3>3 DEF UpdateLoop
  <2>3. CASE ReviveLater(t)
    <3>1. PutAside' = PutAside
      BY <1>0, <2>3, PutAsideSame DEF ReviveLater, Resuming, None
    <3>2. QED BY <1>0, <2>3, <3>1, KeptSame DEF ReviveLater
  <2>4. CASE t = Loop /\ HandleErrorLater
    <3>0. PutAside = {} /\ calling[Loop] = {} /\ asked' = asked
      BY <2>4, PutAsideSame DEF HandleErrorLater, Resuming
    <3>1. CASE ErrorCancels
      <4>1. PutAside' = {} /\ MoveOut(Loop, "error") /\ resyncs' = resyncs
        BY <1>0, <3>1, PutAsideSame DEF ErrorCancels, None
      <4>2. QED BY <1>0, <2>0, <3>0, <4>1, KeptMoveOut
    <3>2. CASE ErrorTokenExpired
      <4>1. PutAside' = {}
        BY <1>0, <3>2, PutAsideSame DEF ErrorTokenExpired, None
      <4>2. QED BY <1>0, <3>0, <3>2, <4>1, KeptSame DEF ErrorTokenExpired
    <3>3. CASE ErrorDelete
      <4>1. PutAside' = {}
        BY <1>0, <3>3, PutAsideSame DEF ErrorDelete, None
      <4>2. CASE EnterInactive(Loop) /\ UNCHANGED <<resyncs, crashed>>
        BY <1>0, <2>0, <3>0, <4>1, <4>2, KeptMoveOut DEF EnterInactive
      <4>3. CASE AssertFails
        BY <1>0, <3>0, <4>1, <4>3, KeptSame DEF AssertFails
      <4>4. QED BY <3>3, <4>2, <4>3 DEF ErrorDelete
    <3>4. CASE ErrorClientReset
      <4>1. CASE AssertFails /\ next' = [next EXCEPT ![Loop] = None]
        <5>1. PutAside' = {}
          BY <1>0, <4>1, PutAsideSame DEF None
        <5>2. QED BY <1>0, <3>0, <4>1, <5>1, KeptSame DEF AssertFails
      <4>2. CASE /\ resyncs' = resyncs + 1 /\ callbacks' = {} /\ UNCHANGED <<calling, crashed>>
                 /\ next' = [next EXCEPT ![Loop] = [do |-> "restore", who |-> callbacks]]
        <5>1. PutAside' = callbacks /\ resyncs' # 0
          BY <1>0, <4>2 DEF PutAside, TypeOK
        <5>2. QED BY <1>0, <3>0, <4>2, <5>1, KeptPutAside
      <4>3. QED BY <3>4, <4>1, <4>2 DEF ErrorClientReset
    <3>5. QED BY <2>4, <3>1, <3>2, <3>3, <3>4 DEF HandleErrorLater
  <2>5. CASE t = Loop /\ RestoreCallbacks
    <3>1. callbacks' = PutAside /\ UNCHANGED <<calling, asked, resyncs>> /\ resyncs # 0
      BY <1>0, <2>5 DEF RestoreCallbacks, Resuming, PutAside, ResyncsAreCounted, TypeOK
    <3>2. PutAside' = {}
      BY <1>0, <2>5, PutAsideSame DEF RestoreCallbacks, Revive
    <3>3. QED BY <1>0, <3>1, <3>2, KeptPutAside
  <2>6. QED BY <1>2, <2>1, <2>2, <2>3, <2>4, <2>5 DEF Continue
<1>3. CASE LoopNext
  <2>1. ASSUME NEW v \in 1..MaxCommits, Upload(v) PROVE WaitersAreKept'
    BY <1>0, <2>1, KeptSame, PutAsideSame DEF Upload
  <2>2. ASSUME NEW h \in pending, Complete(h) PROVE WaitersAreKept'
    <3>1. PICK c \in Answers(h) : CompleteWaits(h, c) \/ CompleteDeath(h)
      BY <2>2 DEF Complete
    <3>2. c \in Codes /\ "aborted" \in Codes
      BY <3>1 DEF Answers, Codes
    <3>3. PutAside' = PutAside /\ calling[Loop] = {} /\ UNCHANGED <<asked, resyncs>>
      BY <2>2, PutAsideSame DEF Complete, Free
    <3>4. MoveOut(Loop, c) \/ MoveOut(Loop, "aborted") \/ UNCHANGED <<callbacks, calling>>
      BY <3>1 DEF CompleteWaits, CompleteDeath, EnterInactive
    <3>5. QED BY <1>0, <3>2, <3>3, <3>4, KeptSame, KeptMoveOut
  <2>3. ASSUME NEW kind \in Kinds, NEW fatal \in BOOLEAN, HandleError(kind, fatal) PROVE WaitersAreKept'
    <3>1. calling[Loop] = {} /\ PutAside = {} /\ UNCHANGED <<asked, resyncs>> /\ "aborted" \in Codes
      BY <2>3, PutAsideSame DEF HandleError, Free, None, Codes
    <3>2. PutAside' = {}
      BY <1>0, <2>3, PutAsideSame DEF HandleError, Free, None
    <3>3. MoveOut(Loop, "aborted") \/ UNCHANGED <<callbacks, calling>>
      BY <2>3 DEF HandleError, EnterInactive
    <3>4. QED BY <1>0, <3>1, <3>2, <3>3, KeptSame, KeptMoveOut
  <2>4. QED BY <1>3, <2>1, <2>2, <2>3 DEF LoopNext
<1>4. CASE UNCHANGED vars
  BY <1>0, <1>4, KeptSame, PutAsideSame DEF vars
<1>5. QED BY <1>1, <1>2, <1>3, <1>4 DEF Next

-----------------------------------------------------------------------------
LEMMA InvStep == Inv /\ [Next]_vars => Inv'
<1> SUFFICES ASSUME Inv, [Next]_vars PROVE Inv'
  OBVIOUS
<1>1. TypeOK' /\ SessionIsThere' /\ PutOffIsNotImmediate'
  BY TypeStep, SessionStep, PutOffStep
<1>2. WaitersAreKept' /\ WaitsAreAwaited' /\ DeathIsAwaited'
  BY KeptStep, AwaitedStep, DeathStep
<1>3. CommitsAreAnnounced' /\ ResyncsAreCounted' /\ DeathsAreCounted' /\ CommitsAreRemembered'
  BY AnnouncedStep, CountedStep, DeathCountStep, RememberedStep
<1>4. QED BY <1>1, <1>2, <1>3 DEF Inv

\* The inductive invariant that the other theorems follow from.
THEOREM Invariance == Spec => []Inv
<1>1. Init => Inv
  BY InitInv
<1>2. Inv /\ [Next]_vars => Inv'
  BY InvStep
<1>3. QED BY <1>1, <1>2, PTL DEF Spec

\* An active or dying session always has its sync::Session, an inactive one
\* never, whatever errors, resyncs and configurations came between.
THEOREM SessionIsAlwaysThere == Spec => []SessionIsThere
<1>1. Inv => SessionIsThere
  BY DEF Inv
<1>2. QED BY <1>1, Invariance, PTL

\* No waiting function is ever kept twice, or lost but by a resync.
THEOREM WaitersAreAlwaysKept == Spec => []WaitersAreKept
<1>1. Inv => WaitersAreKept
  BY DEF Inv
<1>2. QED BY <1>1, Invariance, PTL

\* Without a resync, the functions that wait for an active or dying session
\* always have a handler that will come for them.
THEOREM WaitsAreAlwaysAwaited == Spec => []WaitsAreAwaited
<1>1. Inv => WaitsAreAwaited
  BY DEF Inv
<1>2. QED BY <1>1, Invariance, PTL

\* A dying session always has the handler that lets it die.
THEOREM DeathIsAlwaysAwaited == Spec => []DeathIsAwaited
<1>1. Inv => DeathIsAwaited
  BY DEF Inv
<1>2. QED BY <1>1, Invariance, PTL

\* A close that was put off never needs to end the session at once.
THEOREM PutOffIsNeverImmediate == Spec => []PutOffIsNotImmediate
<1>1. Inv => PutOffIsNotImmediate
  BY DEF Inv
<1>2. QED BY <1>1, Invariance, PTL

\* An active session has announced every commit that it ever heard of.
THEOREM CommitsAreAlwaysAnnounced == Spec => []CommitsAreAnnounced
<1>1. Inv => CommitsAreAnnounced
  BY DEF Inv
<1>2. QED BY <1>1, Invariance, PTL

\* A completion handler ends a dying session only if it is the one of the
\* last death and what it waited for is on the server.
THEOREM DiesOnlyOnceUploaded == Spec => DiesOnceUploaded
<1> DEFINE Step == state = "dying" /\ state' = "inactive" /\ pending' # pending =>
                      \E h \in pending \ pending' :
                         /\ h.for = "death" /\ h.count = deathCount /\ h.session = session
                         /\ h.mark <= uploaded
<1>1. Inv /\ [Next]_vars => [Step]_vars
  <2> SUFFICES ASSUME Inv, [Next]_vars, state = "dying", state' = "inactive", pending' # pending
               PROVE  \E h \in pending \ pending' :
                         /\ h.for = "death" /\ h.count = deathCount /\ h.session = session
                         /\ h.mark <= uploaded
    OBVIOUS
  <2> USE DEF stateVars, threadVars, fileVars, waitVars
  <2>1. \E h \in pending : Complete(h)
    <3>1. \A t \in AppThreads : ~AppNext(t)
      BY DEF AppNext, ReviveSession, ReviveIfNeeded, EnterWaiting, RefreshToken, Commit, Close, LogOut,
             EnterDying, WaitForUpload, UpdateConfiguration
    <3>2. \A t \in Threads : ~Continue(t)
      BY DEF Continue, Call, UpdateLoop, ReviveLater, HandleErrorLater, RestoreCallbacks,
             ReviveIfNeeded, EnterWaiting
    <3>3. LoopNext
      BY <3>1, <3>2 DEF Next, vars
    <3>4. QED BY <3>3 DEF LoopNext, Upload, HandleError
  <2>2. PICK h \in pending : Complete(h)
    BY <2>1
  <2>3. PICK c \in Answers(h) : CompleteWaits(h, c) \/ CompleteDeath(h)
    BY <2>2 DEF Complete
  <2>4. h.for = "death" /\ h.count = deathCount
    BY <2>3 DEF CompleteWaits, CompleteDeath
  <2>5. h.session = session
    BY <2>4 DEF Inv, DeathsAreCounted
  <2>6. uploaded >= h.mark
    BY <2>3, <2>5 DEF Answers
  <2>7. h \notin pending' /\ h.mark <= uploaded
    BY <2>2, <2>6 DEF Complete, Inv, TypeOK, Handlers
  <2>8. QED BY <2>4, <2>5, <2>7
<1>2. QED BY <1>1, Invariance, PTL DEF Spec, DiesOnceUploaded
=============================================================================
