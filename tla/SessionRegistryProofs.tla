----------------------- MODULE SessionRegistryProofs -----------------------
(***************************************************************************)
(* Proofs about SessionRegistry, for any number of application threads and *)
(* any bounds.                                                             *)
(***************************************************************************)
EXTENDS SessionRegistry, TLAPS

\* What a thread does next, and on which session.
LEMMA GoOnTypes ==
    ASSUME TypeOK, NEW t \in Threads, NEW step \in Steps, NEW s \in 0..MaxSessions,
           GoOn(t, step, s)
    PROVE  at' \in [Threads -> Steps] /\ on' \in [Threads -> 0..MaxSessions]
BY DEF TypeOK, GoOn

\* What close() can make of a session.
LEMMA ClosedStates == ASSUME TypeOK, NEW s \in Sessions PROVE Closed(s) \subseteq States
<1>1. session[s] \in States
  BY DEF TypeOK
<1>2. QED BY <1>1 DEF Closed, States

LEMMA InitInv == Init => Inv
<1> SUFFICES ASSUME Init PROVE Inv
  OBVIOUS
<1> USE RegistryAssumption DEF Init, None
<1>1. TypeOK
  <2>1. session \in [Sessions -> States] /\ at \in [Threads -> Steps]
    BY DEF States, Steps
  <2>2. made \in 0..MaxSessions /\ registered \in 0..made /\ known \in 0..made /\ waiting \in 0..made
    OBVIOUS
  <2>3. on \in [Threads -> 0..made] /\ refs \in [Sessions -> Int] /\ held \in [Sessions -> Int]
    OBVIOUS
  <2>4. user \in {"active", "loggedOut", "error"} /\ policy \in Policies
    OBVIOUS
  <2>5. QED BY <2>1, <2>2, <2>3, <2>4 DEF TypeOK
<1>2. ReferencedIsRegistered
  BY DEF ReferencedIsRegistered
<1>3. MutexesAreHeld
  BY DEF MutexesAreHeld, HoldsItsMutexes, Threads, WithManager, Getting
<1>4. OnlyMadeSessions /\ UserIsConsistent
  BY DEF OnlyMadeSessions, UserIsConsistent, Sessions
<1>5. RegisteredIsKept /\ RevivedIsKept /\ RunningIsKnown
  BY DEF RegisteredIsKept, RevivedIsKept, RunningIsKnown
<1>6. QED BY <1>1, <1>2, <1>3, <1>4, <1>5 DEF Inv

\* Every step keeps the types: the indices of sessions are those of sessions made.
LEMMA TypeStep == Inv /\ [Next]_vars => TypeOK'
<1> SUFFICES ASSUME Inv, [Next]_vars PROVE TypeOK'
  OBVIOUS
<1>0. TypeOK /\ ReferencedIsRegistered /\ MutexesAreHeld
  BY DEF Inv
<1>n. Nobody \notin Threads
  BY RegistryAssumption DEF Threads
<1> USE <1>n, RegistryAssumption DEF sessionVars, userVars, threadVars, Idle, Doing, None, Sessions, WithManager, Getting, HoldsItsMutexes
<1>1. ASSUME NEW t \in AppThreads, AppNext(t) PROVE TypeOK'
  <2>0. t \in Threads
    BY DEF Threads
  <2>1. CASE GetSession(t)
    <3>1. made' \in 0..MaxSessions /\ made' >= made /\ registered' \in 0..made'
      BY <1>0, <2>0, <2>1 DEF GetSession, GoOn, TypeOK, MutexesAreHeld
    <3>2. at' \in [Threads -> Steps] /\ on' \in [Threads -> 0..MaxSessions]
      <4>1. (\E step \in Steps, z \in 0..MaxSessions : GoOn(t, step, z)) \/ UNCHANGED <<at, on>>
        BY <1>0, <2>0, <2>1, <3>1 DEF GetSession, TypeOK, Steps, MutexesAreHeld
      <4>2. QED BY <1>0, <2>0, <3>1, <4>1, GoOnTypes DEF TypeOK
    <3>3. session' \in [Sessions -> States] /\ refs' \in [Sessions -> Int] /\ held' \in [Sessions -> Int]
      BY <1>0, <2>0, <2>1 DEF GetSession, GoOn, TypeOK, States, MutexesAreHeld
    <3>4. /\ user' \in {"active", "loggedOut", "error"} /\ policy' \in Policies
          /\ known' \in 0..MaxSessions /\ waiting' \in 0..MaxSessions
      BY <1>0, <2>0, <2>1, <3>1 DEF GetSession, GoOn, TypeOK, MutexesAreHeld
    <3>5. /\ manager' \in Threads \cup {Nobody} /\ userMutex' \in Threads \cup {Nobody}
          /\ crashed' \in BOOLEAN /\ late' \in BOOLEAN /\ invalidated' \in BOOLEAN
      BY <1>0, <2>0, <2>1 DEF GetSession, GoOn, TypeOK
    <3>6. QED BY <3>1, <3>2, <3>3, <3>4, <3>5 DEF TypeOK
  <2>2. CASE GetExistingSession(t)
    <3>1. made' \in 0..MaxSessions /\ made' >= made /\ registered' \in 0..made'
      BY <1>0, <2>0, <2>2 DEF GetExistingSession, Take, TypeOK, MutexesAreHeld
    <3>2. at' \in [Threads -> Steps] /\ on' \in [Threads -> 0..MaxSessions]
      <4>1. (\E step \in Steps, z \in 0..MaxSessions : GoOn(t, step, z)) \/ UNCHANGED <<at, on>>
        BY <1>0, <2>0, <2>2, <3>1 DEF GetExistingSession, TypeOK, Steps, MutexesAreHeld
      <4>2. QED BY <1>0, <2>0, <3>1, <4>1, GoOnTypes DEF TypeOK
    <3>3. session' \in [Sessions -> States] /\ refs' \in [Sessions -> Int] /\ held' \in [Sessions -> Int]
      BY <1>0, <2>0, <2>2 DEF GetExistingSession, Take, TypeOK, States, MutexesAreHeld
    <3>4. /\ user' \in {"active", "loggedOut", "error"} /\ policy' \in Policies
          /\ known' \in 0..MaxSessions /\ waiting' \in 0..MaxSessions
      BY <1>0, <2>0, <2>2, <3>1 DEF GetExistingSession, Take, TypeOK, MutexesAreHeld
    <3>5. /\ manager' \in Threads \cup {Nobody} /\ userMutex' \in Threads \cup {Nobody}
          /\ crashed' \in BOOLEAN /\ late' \in BOOLEAN /\ invalidated' \in BOOLEAN
      BY <1>0, <2>0, <2>2 DEF GetExistingSession, Take, TypeOK
    <3>6. QED BY <3>1, <3>2, <3>3, <3>4, <3>5 DEF TypeOK
  <2>3. CASE HasExistingSessions(t)
    <3>1. made' \in 0..MaxSessions /\ made' >= made /\ registered' \in 0..made'
      BY <1>0, <2>0, <2>3 DEF HasExistingSessions, Take, GoOn, TypeOK, MutexesAreHeld
    <3>2. at' \in [Threads -> Steps] /\ on' \in [Threads -> 0..MaxSessions]
      <4>1. (\E step \in Steps, z \in 0..MaxSessions : GoOn(t, step, z)) \/ UNCHANGED <<at, on>>
        BY <1>0, <2>0, <2>3, <3>1 DEF HasExistingSessions, TypeOK, Steps, MutexesAreHeld
      <4>2. QED BY <1>0, <2>0, <3>1, <4>1, GoOnTypes DEF TypeOK
    <3>3. session' \in [Sessions -> States] /\ refs' \in [Sessions -> Int] /\ held' \in [Sessions -> Int]
      BY <1>0, <2>0, <2>3 DEF HasExistingSessions, Take, GoOn, TypeOK, States, MutexesAreHeld
    <3>4. /\ user' \in {"active", "loggedOut", "error"} /\ policy' \in Policies
          /\ known' \in 0..MaxSessions /\ waiting' \in 0..MaxSessions
      BY <1>0, <2>0, <2>3, <3>1 DEF HasExistingSessions, Take, GoOn, TypeOK, MutexesAreHeld
    <3>5. /\ manager' \in Threads \cup {Nobody} /\ userMutex' \in Threads \cup {Nobody}
          /\ crashed' \in BOOLEAN /\ late' \in BOOLEAN /\ invalidated' \in BOOLEAN
      BY <1>0, <2>0, <2>3 DEF HasExistingSessions, Take, GoOn, TypeOK
    <3>6. QED BY <3>1, <3>2, <3>3, <3>4, <3>5 DEF TypeOK
  <2>4. CASE LogOut(t)
    <3>1. made' \in 0..MaxSessions /\ made' >= made /\ registered' \in 0..made'
      BY <1>0, <2>0, <2>4 DEF LogOut, GoOn, Alive, TypeOK, MutexesAreHeld
    <3>2. at' \in [Threads -> Steps] /\ on' \in [Threads -> 0..MaxSessions]
      <4>1. (\E step \in Steps, z \in 0..MaxSessions : GoOn(t, step, z)) \/ UNCHANGED <<at, on>>
        BY <1>0, <2>0, <2>4, <3>1 DEF LogOut, Alive, TypeOK, Steps, MutexesAreHeld
      <4>2. QED BY <1>0, <2>0, <3>1, <4>1, GoOnTypes DEF TypeOK
    <3>3. session' \in [Sessions -> States] /\ refs' \in [Sessions -> Int] /\ held' \in [Sessions -> Int]
      BY <1>0, <2>0, <2>4 DEF LogOut, GoOn, Alive, TypeOK, States, MutexesAreHeld
    <3>4. /\ user' \in {"active", "loggedOut", "error"} /\ policy' \in Policies
          /\ known' \in 0..MaxSessions /\ waiting' \in 0..MaxSessions
      BY <1>0, <2>0, <2>4, <3>1 DEF LogOut, GoOn, Alive, TypeOK, MutexesAreHeld
    <3>5. /\ manager' \in Threads \cup {Nobody} /\ userMutex' \in Threads \cup {Nobody}
          /\ crashed' \in BOOLEAN /\ late' \in BOOLEAN /\ invalidated' \in BOOLEAN
      BY <1>0, <2>0, <2>4 DEF LogOut, GoOn, Alive, TypeOK
    <3>6. QED BY <3>1, <3>2, <3>3, <3>4, <3>5 DEF TypeOK
  <2>5. CASE LogIn(t)
    <3>1. made' \in 0..MaxSessions /\ made' >= made /\ registered' \in 0..made'
      BY <1>0, <2>0, <2>5 DEF LogIn, GoOn, Alive, TypeOK, MutexesAreHeld
    <3>2. at' \in [Threads -> Steps] /\ on' \in [Threads -> 0..MaxSessions]
      <4>1. (\E step \in Steps, z \in 0..MaxSessions : GoOn(t, step, z)) \/ UNCHANGED <<at, on>>
        BY <1>0, <2>0, <2>5, <3>1 DEF LogIn, Alive, TypeOK, Steps, MutexesAreHeld
      <4>2. QED BY <1>0, <2>0, <3>1, <4>1, GoOnTypes DEF TypeOK
    <3>3. session' \in [Sessions -> States] /\ refs' \in [Sessions -> Int] /\ held' \in [Sessions -> Int]
      BY <1>0, <2>0, <2>5 DEF LogIn, GoOn, Alive, TypeOK, States, MutexesAreHeld
    <3>4. /\ user' \in {"active", "loggedOut", "error"} /\ policy' \in Policies
          /\ known' \in 0..MaxSessions /\ waiting' \in 0..MaxSessions
      BY <1>0, <2>0, <2>5, <3>1 DEF LogIn, GoOn, Alive, TypeOK, MutexesAreHeld
    <3>5. /\ manager' \in Threads \cup {Nobody} /\ userMutex' \in Threads \cup {Nobody}
          /\ crashed' \in BOOLEAN /\ late' \in BOOLEAN /\ invalidated' \in BOOLEAN
      BY <1>0, <2>0, <2>5 DEF LogIn, GoOn, Alive, TypeOK
    <3>6. QED BY <3>1, <3>2, <3>3, <3>4, <3>5 DEF TypeOK
  <2>6. CASE Invalidate(t)
    <3>1. made' \in 0..MaxSessions /\ made' >= made /\ registered' \in 0..made'
      BY <1>0, <2>0, <2>6 DEF Invalidate, TypeOK, MutexesAreHeld
    <3>2. at' \in [Threads -> Steps] /\ on' \in [Threads -> 0..MaxSessions]
      <4>1. (\E step \in Steps, z \in 0..MaxSessions : GoOn(t, step, z)) \/ UNCHANGED <<at, on>>
        BY <1>0, <2>0, <2>6, <3>1 DEF Invalidate, TypeOK, Steps, MutexesAreHeld
      <4>2. QED BY <1>0, <2>0, <3>1, <4>1, GoOnTypes DEF TypeOK
    <3>3. session' \in [Sessions -> States] /\ refs' \in [Sessions -> Int] /\ held' \in [Sessions -> Int]
      BY <1>0, <2>0, <2>6 DEF Invalidate, TypeOK, States, MutexesAreHeld
    <3>4. /\ user' \in {"active", "loggedOut", "error"} /\ policy' \in Policies
          /\ known' \in 0..MaxSessions /\ waiting' \in 0..MaxSessions
      BY <1>0, <2>0, <2>6, <3>1 DEF Invalidate, TypeOK, MutexesAreHeld
    <3>5. /\ manager' \in Threads \cup {Nobody} /\ userMutex' \in Threads \cup {Nobody}
          /\ crashed' \in BOOLEAN /\ late' \in BOOLEAN /\ invalidated' \in BOOLEAN
      BY <1>0, <2>0, <2>6 DEF Invalidate, TypeOK
    <3>6. QED BY <3>1, <3>2, <3>3, <3>4, <3>5 DEF TypeOK
  <2>7. ASSUME NEW s \in Sessions, DropReference(t, s) PROVE TypeOK'
    <3>1. made' \in 0..MaxSessions /\ made' >= made /\ registered' \in 0..made'
      BY <1>0, <2>0, <2>7 DEF DropReference, GoOn, Release, TypeOK, MutexesAreHeld
    <3>2. at' \in [Threads -> Steps] /\ on' \in [Threads -> 0..MaxSessions]
      <4>1. (\E step \in Steps, z \in 0..MaxSessions : GoOn(t, step, z)) \/ UNCHANGED <<at, on>>
        BY <1>0, <2>0, <2>7, <3>1 DEF DropReference, TypeOK, Steps, MutexesAreHeld
      <4>2. QED BY <1>0, <2>0, <3>1, <4>1, GoOnTypes DEF TypeOK
    <3>3. session' \in [Sessions -> States] /\ refs' \in [Sessions -> Int] /\ held' \in [Sessions -> Int]
      BY <1>0, <2>0, <2>7 DEF DropReference, GoOn, Release, TypeOK, States, MutexesAreHeld
    <3>4. /\ user' \in {"active", "loggedOut", "error"} /\ policy' \in Policies
          /\ known' \in 0..MaxSessions /\ waiting' \in 0..MaxSessions
      BY <1>0, <2>0, <2>7, <3>1 DEF DropReference, GoOn, Release, TypeOK, MutexesAreHeld
    <3>5. /\ manager' \in Threads \cup {Nobody} /\ userMutex' \in Threads \cup {Nobody}
          /\ crashed' \in BOOLEAN /\ late' \in BOOLEAN /\ invalidated' \in BOOLEAN
      BY <1>0, <2>0, <2>7 DEF DropReference, GoOn, Release, TypeOK
    <3>6. QED BY <3>1, <3>2, <3>3, <3>4, <3>5 DEF TypeOK
  <2> QED BY <1>1, <2>1, <2>2, <2>3, <2>4, <2>5, <2>6, <2>7 DEF AppNext
<1>2. ASSUME NEW t \in Threads, Continue(t) PROVE TypeOK'
  <2>0. t \in Threads
    OBVIOUS
  <2>1. CASE FindSession(t)
    <3>1. made' \in 0..MaxSessions /\ made' >= made /\ registered' \in 0..made'
      BY <1>0, <2>0, <2>1, SMTT(30) DEF FindSession, GoOn, Take, TypeOK, MutexesAreHeld
    <3>2. at' \in [Threads -> Steps] /\ on' \in [Threads -> 0..MaxSessions]
      <4>1. (\E step \in Steps, z \in 0..MaxSessions : GoOn(t, step, z)) \/ UNCHANGED <<at, on>>
        BY <1>0, <2>0, <2>1, <3>1 DEF FindSession, TypeOK, Steps, MutexesAreHeld
      <4>2. QED BY <1>0, <2>0, <3>1, <4>1, GoOnTypes DEF TypeOK
    <3>3. session' \in [Sessions -> States] /\ refs' \in [Sessions -> Int] /\ held' \in [Sessions -> Int]
      <4>1. UNCHANGED <<session, held>> /\ (UNCHANGED refs \/ \E z \in Sessions : Take(z))
        BY <1>0, <2>0, <2>1 DEF FindSession, TypeOK
      <4> HIDE DEF Sessions
      <4>2. QED BY <1>0, <4>1 DEF Take, TypeOK
    <3>4. /\ user' \in {"active", "loggedOut", "error"} /\ policy' \in Policies
          /\ known' \in 0..MaxSessions /\ waiting' \in 0..MaxSessions
      BY <1>0, <2>0, <2>1, <3>1 DEF FindSession, GoOn, Take, TypeOK, MutexesAreHeld
    <3>5. /\ manager' \in Threads \cup {Nobody} /\ userMutex' \in Threads \cup {Nobody}
          /\ crashed' \in BOOLEAN /\ late' \in BOOLEAN /\ invalidated' \in BOOLEAN
      BY <1>0, <2>0, <2>1 DEF FindSession, GoOn, Take, TypeOK
    <3>6. QED BY <3>1, <3>2, <3>3, <3>4, <3>5 DEF TypeOK
  <2>2. CASE RegisterSession(t)
    <3>1. made' \in 0..MaxSessions /\ made' >= made /\ registered' \in 0..made'
      BY <1>0, <2>0, <2>2 DEF RegisterSession, GoOn, TypeOK, MutexesAreHeld
    <3>2. at' \in [Threads -> Steps] /\ on' \in [Threads -> 0..MaxSessions]
      <4>1. (\E step \in Steps, z \in 0..MaxSessions : GoOn(t, step, z)) \/ UNCHANGED <<at, on>>
        BY <1>0, <2>0, <2>2, <3>1 DEF RegisterSession, TypeOK, Steps, MutexesAreHeld
      <4>2. QED BY <1>0, <2>0, <3>1, <4>1, GoOnTypes DEF TypeOK
    <3>3. session' \in [Sessions -> States] /\ refs' \in [Sessions -> Int] /\ held' \in [Sessions -> Int]
      BY <1>0, <2>0, <2>2 DEF RegisterSession, GoOn, TypeOK, States, MutexesAreHeld
    <3>4. /\ user' \in {"active", "loggedOut", "error"} /\ policy' \in Policies
          /\ known' \in 0..MaxSessions /\ waiting' \in 0..MaxSessions
      BY <1>0, <2>0, <2>2, <3>1 DEF RegisterSession, GoOn, TypeOK, MutexesAreHeld
    <3>5. /\ manager' \in Threads \cup {Nobody} /\ userMutex' \in Threads \cup {Nobody}
          /\ crashed' \in BOOLEAN /\ late' \in BOOLEAN /\ invalidated' \in BOOLEAN
      BY <1>0, <2>0, <2>2 DEF RegisterSession, GoOn, TypeOK
    <3>6. QED BY <3>1, <3>2, <3>3, <3>4, <3>5 DEF TypeOK
  <2>3. CASE ReviveRegistered(t)
    <3>1. made' \in 0..MaxSessions /\ made' >= made /\ registered' \in 0..made'
      BY <1>0, <2>0, <2>3 DEF ReviveRegistered, GoOn, Revive, TypeOK, MutexesAreHeld
    <3>2. at' \in [Threads -> Steps] /\ on' \in [Threads -> 0..MaxSessions]
      <4>1. (\E step \in Steps, z \in 0..MaxSessions : GoOn(t, step, z)) \/ UNCHANGED <<at, on>>
        BY <1>0, <2>0, <2>3, <3>1 DEF ReviveRegistered, TypeOK, Steps, MutexesAreHeld
      <4>2. QED BY <1>0, <2>0, <3>1, <4>1, GoOnTypes DEF TypeOK
    <3>3. session' \in [Sessions -> States] /\ refs' \in [Sessions -> Int] /\ held' \in [Sessions -> Int]
      BY <1>0, <2>0, <2>3 DEF ReviveRegistered, GoOn, Revive, TypeOK, States, MutexesAreHeld
    <3>4. /\ user' \in {"active", "loggedOut", "error"} /\ policy' \in Policies
          /\ known' \in 0..MaxSessions /\ waiting' \in 0..MaxSessions
      BY <1>0, <2>0, <2>3, <3>1 DEF ReviveRegistered, GoOn, Revive, TypeOK, MutexesAreHeld
    <3>5. /\ manager' \in Threads \cup {Nobody} /\ userMutex' \in Threads \cup {Nobody}
          /\ crashed' \in BOOLEAN /\ late' \in BOOLEAN /\ invalidated' \in BOOLEAN
      BY <1>0, <2>0, <2>3 DEF ReviveRegistered, GoOn, Revive, TypeOK
    <3>6. QED BY <3>1, <3>2, <3>3, <3>4, <3>5 DEF TypeOK
  <2>4. CASE TakeReference(t)
    <3>1. made' \in 0..MaxSessions /\ made' >= made /\ registered' \in 0..made'
      BY <1>0, <2>0, <2>4 DEF TakeReference, GoOn, Take, TypeOK, MutexesAreHeld
    <3>2. at' \in [Threads -> Steps] /\ on' \in [Threads -> 0..MaxSessions]
      <4>1. (\E step \in Steps, z \in 0..MaxSessions : GoOn(t, step, z)) \/ UNCHANGED <<at, on>>
        BY <1>0, <2>0, <2>4, <3>1 DEF TakeReference, TypeOK, Steps, MutexesAreHeld
      <4>2. QED BY <1>0, <2>0, <3>1, <4>1, GoOnTypes DEF TypeOK
    <3>3. session' \in [Sessions -> States] /\ refs' \in [Sessions -> Int] /\ held' \in [Sessions -> Int]
      <4>1. on[t] \in Sessions
        BY <1>0, <2>0, <2>4 DEF TakeReference, TypeOK, MutexesAreHeld
      <4> HIDE DEF Sessions
      <4>2. QED BY <1>0, <2>0, <2>4, <4>1 DEF TakeReference, Take, TypeOK
    <3>4. /\ user' \in {"active", "loggedOut", "error"} /\ policy' \in Policies
          /\ known' \in 0..MaxSessions /\ waiting' \in 0..MaxSessions
      BY <1>0, <2>0, <2>4, <3>1 DEF TakeReference, GoOn, Take, TypeOK, MutexesAreHeld
    <3>5. /\ manager' \in Threads \cup {Nobody} /\ userMutex' \in Threads \cup {Nobody}
          /\ crashed' \in BOOLEAN /\ late' \in BOOLEAN /\ invalidated' \in BOOLEAN
      BY <1>0, <2>0, <2>4 DEF TakeReference, GoOn, Take, TypeOK
    <3>6. QED BY <3>1, <3>2, <3>3, <3>4, <3>5 DEF TypeOK
  <2>5. CASE DidDropReference(t)
    <3>1. made' \in 0..MaxSessions /\ made' >= made /\ registered' \in 0..made'
      BY <1>0, <2>0, <2>5 DEF DidDropReference, GoOn, Closed, TypeOK, MutexesAreHeld
    <3>2. at' \in [Threads -> Steps] /\ on' \in [Threads -> 0..MaxSessions]
      <4>1. (\E step \in Steps, z \in 0..MaxSessions : GoOn(t, step, z)) \/ UNCHANGED <<at, on>>
        BY <1>0, <2>0, <2>5, <3>1 DEF DidDropReference, TypeOK, Steps, MutexesAreHeld
      <4>2. QED BY <1>0, <2>0, <3>1, <4>1, GoOnTypes DEF TypeOK
    <3>3. session' \in [Sessions -> States] /\ refs' \in [Sessions -> Int] /\ held' \in [Sessions -> Int]
      <4>1. on[t] \in Sessions
        BY <1>0, <2>0, <2>5 DEF DidDropReference, TypeOK, MutexesAreHeld
      <4> HIDE DEF Sessions
      <4>2. Closed(on[t]) \subseteq States
        BY <1>0, <4>1, ClosedStates
      <4>3. QED BY <1>0, <2>5, <4>2 DEF DidDropReference, TypeOK
    <3>4. /\ user' \in {"active", "loggedOut", "error"} /\ policy' \in Policies
          /\ known' \in 0..MaxSessions /\ waiting' \in 0..MaxSessions
      BY <1>0, <2>0, <2>5, <3>1 DEF DidDropReference, GoOn, Closed, TypeOK, MutexesAreHeld
    <3>5. /\ manager' \in Threads \cup {Nobody} /\ userMutex' \in Threads \cup {Nobody}
          /\ crashed' \in BOOLEAN /\ late' \in BOOLEAN /\ invalidated' \in BOOLEAN
      BY <1>0, <2>0, <2>5 DEF DidDropReference, GoOn, Closed, TypeOK
    <3>6. QED BY <3>1, <3>2, <3>3, <3>4, <3>5 DEF TypeOK
  <2>6. CASE UnregisterSession(t)
    <3>1. made' \in 0..MaxSessions /\ made' >= made /\ registered' \in 0..made'
      BY <1>0, <2>0, <2>6 DEF UnregisterSession, GoOn, Return, Take, TypeOK, MutexesAreHeld
    <3>2. at' \in [Threads -> Steps] /\ on' \in [Threads -> 0..MaxSessions]
      <4>1. (\E step \in Steps, z \in 0..MaxSessions : GoOn(t, step, z)) \/ UNCHANGED <<at, on>>
        BY <1>0, <2>0, <2>6, <3>1 DEF UnregisterSession, Return, TypeOK, Steps, MutexesAreHeld
      <4>2. QED BY <1>0, <2>0, <3>1, <4>1, GoOnTypes DEF TypeOK
    <3>3. session' \in [Sessions -> States] /\ refs' \in [Sessions -> Int] /\ held' \in [Sessions -> Int]
      BY <1>0, <2>0, <2>6 DEF UnregisterSession, GoOn, Return, Take, TypeOK, States, MutexesAreHeld
    <3>4. /\ user' \in {"active", "loggedOut", "error"} /\ policy' \in Policies
          /\ known' \in 0..MaxSessions /\ waiting' \in 0..MaxSessions
      BY <1>0, <2>0, <2>6, <3>1 DEF UnregisterSession, GoOn, Return, Take, TypeOK, MutexesAreHeld
    <3>5. /\ manager' \in Threads \cup {Nobody} /\ userMutex' \in Threads \cup {Nobody}
          /\ crashed' \in BOOLEAN /\ late' \in BOOLEAN /\ invalidated' \in BOOLEAN
      BY <1>0, <2>0, <2>6 DEF UnregisterSession, GoOn, Return, Take, TypeOK
    <3>6. QED BY <3>1, <3>2, <3>3, <3>4, <3>5 DEF TypeOK
  <2>7. CASE ReleaseReference(t)
    <3>1. made' \in 0..MaxSessions /\ made' >= made /\ registered' \in 0..made'
      BY <1>0, <2>0, <2>7 DEF ReleaseReference, GoOn, Return, Release, TypeOK, MutexesAreHeld
    <3>2. at' \in [Threads -> Steps] /\ on' \in [Threads -> 0..MaxSessions]
      <4>1. (\E step \in Steps, z \in 0..MaxSessions : GoOn(t, step, z)) \/ UNCHANGED <<at, on>>
        BY <1>0, <2>0, <2>7, <3>1 DEF ReleaseReference, Return, TypeOK, Steps, MutexesAreHeld
      <4>2. QED BY <1>0, <2>0, <3>1, <4>1, GoOnTypes DEF TypeOK
    <3>3. session' \in [Sessions -> States] /\ refs' \in [Sessions -> Int] /\ held' \in [Sessions -> Int]
      BY <1>0, <2>0, <2>7 DEF ReleaseReference, GoOn, Return, Release, TypeOK, States, MutexesAreHeld
    <3>4. /\ user' \in {"active", "loggedOut", "error"} /\ policy' \in Policies
          /\ known' \in 0..MaxSessions /\ waiting' \in 0..MaxSessions
      BY <1>0, <2>0, <2>7, <3>1 DEF ReleaseReference, GoOn, Return, Release, TypeOK, MutexesAreHeld
    <3>5. /\ manager' \in Threads \cup {Nobody} /\ userMutex' \in Threads \cup {Nobody}
          /\ crashed' \in BOOLEAN /\ late' \in BOOLEAN /\ invalidated' \in BOOLEAN
      BY <1>0, <2>0, <2>7 DEF ReleaseReference, GoOn, Return, Release, TypeOK
    <3>6. QED BY <3>1, <3>2, <3>3, <3>4, <3>5 DEF TypeOK
  <2>8. CASE CloseInside(t)
    <3>1. made' \in 0..MaxSessions /\ made' >= made /\ registered' \in 0..made'
      BY <1>0, <2>0, <2>8 DEF CloseInside, GoOn, Return, Closed, TypeOK, MutexesAreHeld
    <3>2. at' \in [Threads -> Steps] /\ on' \in [Threads -> 0..MaxSessions]
      <4>1. (\E step \in Steps, z \in 0..MaxSessions : GoOn(t, step, z)) \/ UNCHANGED <<at, on>>
        BY <1>0, <2>0, <2>8, <3>1 DEF CloseInside, Return, TypeOK, Steps, MutexesAreHeld
      <4>2. QED BY <1>0, <2>0, <3>1, <4>1, GoOnTypes DEF TypeOK
    <3>3. session' \in [Sessions -> States] /\ refs' \in [Sessions -> Int] /\ held' \in [Sessions -> Int]
      <4>1. registered \in Sessions
        BY <1>0, <2>0, <2>8 DEF CloseInside, TypeOK, MutexesAreHeld
      <4> HIDE DEF Sessions
      <4>2. Closed(registered) \subseteq States
        BY <1>0, <4>1, ClosedStates
      <4>3. QED BY <1>0, <2>8, <4>2 DEF CloseInside, TypeOK
    <3>4. /\ user' \in {"active", "loggedOut", "error"} /\ policy' \in Policies
          /\ known' \in 0..MaxSessions /\ waiting' \in 0..MaxSessions
      BY <1>0, <2>0, <2>8, <3>1 DEF CloseInside, GoOn, Return, Closed, TypeOK, MutexesAreHeld
    <3>5. /\ manager' \in Threads \cup {Nobody} /\ userMutex' \in Threads \cup {Nobody}
          /\ crashed' \in BOOLEAN /\ late' \in BOOLEAN /\ invalidated' \in BOOLEAN
      BY <1>0, <2>0, <2>8 DEF CloseInside, GoOn, Return, Closed, TypeOK
    <3>6. QED BY <3>1, <3>2, <3>3, <3>4, <3>5 DEF TypeOK
  <2>9. CASE LoggedOut(t)
    <3>1. made' \in 0..MaxSessions /\ made' >= made /\ registered' \in 0..made'
      BY <1>0, <2>0, <2>9 DEF LoggedOut, GoOn, TypeOK, MutexesAreHeld
    <3>2. at' \in [Threads -> Steps] /\ on' \in [Threads -> 0..MaxSessions]
      <4>1. (\E step \in Steps, z \in 0..MaxSessions : GoOn(t, step, z)) \/ UNCHANGED <<at, on>>
        BY <1>0, <2>0, <2>9, <3>1 DEF LoggedOut, TypeOK, Steps, MutexesAreHeld
      <4>2. QED BY <1>0, <2>0, <3>1, <4>1, GoOnTypes DEF TypeOK
    <3>3. session' \in [Sessions -> States] /\ refs' \in [Sessions -> Int] /\ held' \in [Sessions -> Int]
      BY <1>0, <2>0, <2>9 DEF LoggedOut, GoOn, TypeOK, States, MutexesAreHeld
    <3>4. /\ user' \in {"active", "loggedOut", "error"} /\ policy' \in Policies
          /\ known' \in 0..MaxSessions /\ waiting' \in 0..MaxSessions
      BY <1>0, <2>0, <2>9, <3>1 DEF LoggedOut, GoOn, TypeOK, MutexesAreHeld
    <3>5. /\ manager' \in Threads \cup {Nobody} /\ userMutex' \in Threads \cup {Nobody}
          /\ crashed' \in BOOLEAN /\ late' \in BOOLEAN /\ invalidated' \in BOOLEAN
      BY <1>0, <2>0, <2>9 DEF LoggedOut, GoOn, TypeOK
    <3>6. QED BY <3>1, <3>2, <3>3, <3>4, <3>5 DEF TypeOK
  <2>10. CASE ReviveLater(t)
    <3>1. made' \in 0..MaxSessions /\ made' >= made /\ registered' \in 0..made'
      BY <1>0, <2>0, <2>10 DEF ReviveLater, GoOn, Revive, TypeOK, MutexesAreHeld
    <3>2. at' \in [Threads -> Steps] /\ on' \in [Threads -> 0..MaxSessions]
      <4>1. (\E step \in Steps, z \in 0..MaxSessions : GoOn(t, step, z)) \/ UNCHANGED <<at, on>>
        BY <1>0, <2>0, <2>10, <3>1 DEF ReviveLater, TypeOK, Steps, MutexesAreHeld
      <4>2. QED BY <1>0, <2>0, <3>1, <4>1, GoOnTypes DEF TypeOK
    <3>3. session' \in [Sessions -> States] /\ refs' \in [Sessions -> Int] /\ held' \in [Sessions -> Int]
      BY <1>0, <2>0, <2>10 DEF ReviveLater, GoOn, Revive, TypeOK, States, MutexesAreHeld
    <3>4. /\ user' \in {"active", "loggedOut", "error"} /\ policy' \in Policies
          /\ known' \in 0..MaxSessions /\ waiting' \in 0..MaxSessions
      BY <1>0, <2>0, <2>10, <3>1 DEF ReviveLater, GoOn, Revive, TypeOK, MutexesAreHeld
    <3>5. /\ manager' \in Threads \cup {Nobody} /\ userMutex' \in Threads \cup {Nobody}
          /\ crashed' \in BOOLEAN /\ late' \in BOOLEAN /\ invalidated' \in BOOLEAN
      BY <1>0, <2>0, <2>10 DEF ReviveLater, GoOn, Revive, TypeOK
    <3>6. QED BY <3>1, <3>2, <3>3, <3>4, <3>5 DEF TypeOK
  <2> QED BY <1>2, <2>1, <2>2, <2>3, <2>4, <2>5, <2>6, <2>7, <2>8, <2>9, <2>10 DEF Continue
<1>3. ASSUME NEW s \in Sessions, CarryOutClose(s) PROVE TypeOK'
  BY <1>0, <1>3 DEF CarryOutClose, States, TypeOK, MutexesAreHeld, HoldsItsMutexes, ReferencedIsRegistered, Sessions
<1>4. ASSUME NEW s \in Sessions, EndSession(s) PROVE TypeOK'
  <2> DEFINE t == Loop
  <2>0. t \in Threads
    BY DEF Threads
  <2>1. EndSession(s)
    BY <1>4
  <2>2. QED
    <3>1. made' \in 0..MaxSessions /\ made' >= made /\ registered' \in 0..made'
      BY <1>0, <2>0, <2>1 DEF EndSession, GoOn, Alive, TypeOK, MutexesAreHeld
    <3>2. at' \in [Threads -> Steps] /\ on' \in [Threads -> 0..MaxSessions]
      <4>1. (\E step \in Steps, z \in 0..MaxSessions : GoOn(t, step, z)) \/ UNCHANGED <<at, on>>
        BY <1>0, <2>0, <2>1, <3>1 DEF EndSession, Alive, TypeOK, Steps, MutexesAreHeld
      <4>2. QED BY <1>0, <2>0, <3>1, <4>1, GoOnTypes DEF TypeOK
    <3>3. session' \in [Sessions -> States] /\ refs' \in [Sessions -> Int] /\ held' \in [Sessions -> Int]
      BY <1>0, <2>0, <2>1 DEF EndSession, GoOn, Alive, TypeOK, States, MutexesAreHeld
    <3>4. /\ user' \in {"active", "loggedOut", "error"} /\ policy' \in Policies
          /\ known' \in 0..MaxSessions /\ waiting' \in 0..MaxSessions
      BY <1>0, <2>0, <2>1, <3>1 DEF EndSession, GoOn, Alive, TypeOK, MutexesAreHeld
    <3>5. /\ manager' \in Threads \cup {Nobody} /\ userMutex' \in Threads \cup {Nobody}
          /\ crashed' \in BOOLEAN /\ late' \in BOOLEAN /\ invalidated' \in BOOLEAN
      BY <1>0, <2>0, <2>1 DEF EndSession, GoOn, Alive, TypeOK
    <3>6. QED BY <3>1, <3>2, <3>3, <3>4, <3>5 DEF TypeOK
<1>5. CASE UNCHANGED vars
  BY <1>0, <1>5 DEF vars, TypeOK, MutexesAreHeld, HoldsItsMutexes, ReferencedIsRegistered
<1>6. QED BY <1>1, <1>2, <1>3, <1>4, <1>5 DEF Next

\* Every step keeps the mutexes with those who took them.
LEMMA MutexStep == Inv /\ [Next]_vars => MutexesAreHeld'
<1> SUFFICES ASSUME Inv, [Next]_vars PROVE MutexesAreHeld'
  OBVIOUS
<1>0. TypeOK /\ ReferencedIsRegistered /\ MutexesAreHeld
  BY DEF Inv
<1>n. Nobody \notin Threads
  BY RegistryAssumption DEF Threads
<1> USE <1>n, RegistryAssumption DEF sessionVars, userVars, threadVars, Idle, Doing, None, Sessions, WithManager, Getting
<1>1. ASSUME NEW t \in AppThreads, AppNext(t) PROVE MutexesAreHeld'
  <2>0. t \in Threads
    BY DEF Threads
  <2>1. CASE GetSession(t)
    <3> SUFFICES ASSUME NEW u \in Threads PROVE HoldsItsMutexes(u)'
      BY DEF MutexesAreHeld
    <3>1. CASE u = t
      BY <1>0, <2>0, <2>1, <3>1 DEF GetSession, GoOn, TypeOK, MutexesAreHeld, HoldsItsMutexes
    <3>2. CASE u # t
      BY <1>0, <2>0, <2>1, <3>2 DEF GetSession, GoOn, TypeOK, MutexesAreHeld, HoldsItsMutexes
    <3>3. QED BY <3>1, <3>2
  <2>2. CASE GetExistingSession(t)
    <3> SUFFICES ASSUME NEW u \in Threads PROVE HoldsItsMutexes(u)'
      BY DEF MutexesAreHeld
    <3>1. CASE u = t
      BY <1>0, <2>0, <2>2, <3>1 DEF GetExistingSession, Take, TypeOK, MutexesAreHeld, HoldsItsMutexes
    <3>2. CASE u # t
      BY <1>0, <2>0, <2>2, <3>2 DEF GetExistingSession, Take, TypeOK, MutexesAreHeld, HoldsItsMutexes
    <3>3. QED BY <3>1, <3>2
  <2>3. CASE HasExistingSessions(t)
    <3> SUFFICES ASSUME NEW u \in Threads PROVE HoldsItsMutexes(u)'
      BY DEF MutexesAreHeld
    <3>1. CASE u = t
      BY <1>0, <2>0, <2>3, <3>1 DEF HasExistingSessions, Take, GoOn, TypeOK, MutexesAreHeld, HoldsItsMutexes
    <3>2. CASE u # t
      BY <1>0, <2>0, <2>3, <3>2 DEF HasExistingSessions, Take, GoOn, TypeOK, MutexesAreHeld, HoldsItsMutexes
    <3>3. QED BY <3>1, <3>2
  <2>4. CASE LogOut(t)
    <3> SUFFICES ASSUME NEW u \in Threads PROVE HoldsItsMutexes(u)'
      BY DEF MutexesAreHeld
    <3>1. CASE u = t
      BY <1>0, <2>0, <2>4, <3>1 DEF LogOut, GoOn, Alive, TypeOK, MutexesAreHeld, HoldsItsMutexes
    <3>2. CASE u # t
      BY <1>0, <2>0, <2>4, <3>2 DEF LogOut, GoOn, Alive, TypeOK, MutexesAreHeld, HoldsItsMutexes
    <3>3. QED BY <3>1, <3>2
  <2>5. CASE LogIn(t)
    <3> SUFFICES ASSUME NEW u \in Threads PROVE HoldsItsMutexes(u)'
      BY DEF MutexesAreHeld
    <3>1. CASE u = t
      BY <1>0, <2>0, <2>5, <3>1 DEF LogIn, GoOn, Alive, TypeOK, MutexesAreHeld, HoldsItsMutexes
    <3>2. CASE u # t
      BY <1>0, <2>0, <2>5, <3>2 DEF LogIn, GoOn, Alive, TypeOK, MutexesAreHeld, HoldsItsMutexes
    <3>3. QED BY <3>1, <3>2
  <2>6. CASE Invalidate(t)
    <3> SUFFICES ASSUME NEW u \in Threads PROVE HoldsItsMutexes(u)'
      BY DEF MutexesAreHeld
    <3>1. CASE u = t
      BY <1>0, <2>0, <2>6, <3>1 DEF Invalidate, TypeOK, MutexesAreHeld, HoldsItsMutexes
    <3>2. CASE u # t
      BY <1>0, <2>0, <2>6, <3>2 DEF Invalidate, TypeOK, MutexesAreHeld, HoldsItsMutexes
    <3>3. QED BY <3>1, <3>2
  <2>7. ASSUME NEW s \in Sessions, DropReference(t, s) PROVE MutexesAreHeld'
    <3> SUFFICES ASSUME NEW u \in Threads PROVE HoldsItsMutexes(u)'
      BY DEF MutexesAreHeld
    <3>1. CASE u = t
      BY <1>0, <2>0, <2>7, <3>1 DEF DropReference, GoOn, Release, TypeOK, MutexesAreHeld, HoldsItsMutexes
    <3>2. CASE u # t
      BY <1>0, <2>0, <2>7, <3>2 DEF DropReference, GoOn, Release, TypeOK, MutexesAreHeld, HoldsItsMutexes
    <3>3. QED BY <3>1, <3>2
  <2> QED BY <1>1, <2>1, <2>2, <2>3, <2>4, <2>5, <2>6, <2>7 DEF AppNext
<1>2. ASSUME NEW t \in Threads, Continue(t) PROVE MutexesAreHeld'
  <2>0. t \in Threads
    OBVIOUS
  <2>1. CASE FindSession(t)
    <3> SUFFICES ASSUME NEW u \in Threads PROVE HoldsItsMutexes(u)'
      BY DEF MutexesAreHeld
    <3>1. CASE u = t
      BY <1>0, <2>0, <2>1, <3>1 DEF FindSession, GoOn, Take, TypeOK, MutexesAreHeld, HoldsItsMutexes
    <3>2. CASE u # t
      BY <1>0, <2>0, <2>1, <3>2 DEF FindSession, GoOn, Take, TypeOK, MutexesAreHeld, HoldsItsMutexes
    <3>3. QED BY <3>1, <3>2
  <2>2. CASE RegisterSession(t)
    <3> SUFFICES ASSUME NEW u \in Threads PROVE HoldsItsMutexes(u)'
      BY DEF MutexesAreHeld
    <3>1. CASE u = t
      BY <1>0, <2>0, <2>2, <3>1 DEF RegisterSession, GoOn, TypeOK, MutexesAreHeld, HoldsItsMutexes
    <3>2. CASE u # t
      BY <1>0, <2>0, <2>2, <3>2 DEF RegisterSession, GoOn, TypeOK, MutexesAreHeld, HoldsItsMutexes
    <3>3. QED BY <3>1, <3>2
  <2>3. CASE ReviveRegistered(t)
    <3> SUFFICES ASSUME NEW u \in Threads PROVE HoldsItsMutexes(u)'
      BY DEF MutexesAreHeld
    <3>1. CASE u = t
      BY <1>0, <2>0, <2>3, <3>1 DEF ReviveRegistered, GoOn, Revive, TypeOK, MutexesAreHeld, HoldsItsMutexes
    <3>2. CASE u # t
      BY <1>0, <2>0, <2>3, <3>2 DEF ReviveRegistered, GoOn, Revive, TypeOK, MutexesAreHeld, HoldsItsMutexes
    <3>3. QED BY <3>1, <3>2
  <2>4. CASE TakeReference(t)
    <3> SUFFICES ASSUME NEW u \in Threads PROVE HoldsItsMutexes(u)'
      BY DEF MutexesAreHeld
    <3>1. CASE u = t
      BY <1>0, <2>0, <2>4, <3>1 DEF TakeReference, GoOn, Take, TypeOK, MutexesAreHeld, HoldsItsMutexes
    <3>2. CASE u # t
      BY <1>0, <2>0, <2>4, <3>2 DEF TakeReference, GoOn, Take, TypeOK, MutexesAreHeld, HoldsItsMutexes
    <3>3. QED BY <3>1, <3>2
  <2>5. CASE DidDropReference(t)
    <3> SUFFICES ASSUME NEW u \in Threads PROVE HoldsItsMutexes(u)'
      BY DEF MutexesAreHeld
    <3>1. CASE u = t
      BY <1>0, <2>0, <2>5, <3>1 DEF DidDropReference, GoOn, Closed, TypeOK, MutexesAreHeld, HoldsItsMutexes
    <3>2. CASE u # t
      BY <1>0, <2>0, <2>5, <3>2 DEF DidDropReference, GoOn, Closed, TypeOK, MutexesAreHeld, HoldsItsMutexes
    <3>3. QED BY <3>1, <3>2
  <2>6. CASE UnregisterSession(t)
    <3> SUFFICES ASSUME NEW u \in Threads PROVE HoldsItsMutexes(u)'
      BY DEF MutexesAreHeld
    <3>1. CASE u = t
      BY <1>0, <2>0, <2>6, <3>1 DEF UnregisterSession, GoOn, Return, Take, TypeOK, MutexesAreHeld, HoldsItsMutexes
    <3>2. CASE u # t
      BY <1>0, <2>0, <2>6, <3>2 DEF UnregisterSession, GoOn, Return, Take, TypeOK, MutexesAreHeld, HoldsItsMutexes
    <3>3. QED BY <3>1, <3>2
  <2>7. CASE ReleaseReference(t)
    <3> SUFFICES ASSUME NEW u \in Threads PROVE HoldsItsMutexes(u)'
      BY DEF MutexesAreHeld
    <3>1. CASE u = t
      BY <1>0, <2>0, <2>7, <3>1 DEF ReleaseReference, GoOn, Return, Release, TypeOK, MutexesAreHeld, HoldsItsMutexes
    <3>2. CASE u # t
      BY <1>0, <2>0, <2>7, <3>2 DEF ReleaseReference, GoOn, Return, Release, TypeOK, MutexesAreHeld, HoldsItsMutexes
    <3>3. QED BY <3>1, <3>2
  <2>8. CASE CloseInside(t)
    <3> SUFFICES ASSUME NEW u \in Threads PROVE HoldsItsMutexes(u)'
      BY DEF MutexesAreHeld
    <3>1. CASE u = t
      BY <1>0, <2>0, <2>8, <3>1 DEF CloseInside, GoOn, Return, Closed, TypeOK, MutexesAreHeld, HoldsItsMutexes
    <3>2. CASE u # t
      BY <1>0, <2>0, <2>8, <3>2 DEF CloseInside, GoOn, Return, Closed, TypeOK, MutexesAreHeld, HoldsItsMutexes
    <3>3. QED BY <3>1, <3>2
  <2>9. CASE LoggedOut(t)
    <3> SUFFICES ASSUME NEW u \in Threads PROVE HoldsItsMutexes(u)'
      BY DEF MutexesAreHeld
    <3>1. CASE u = t
      BY <1>0, <2>0, <2>9, <3>1 DEF LoggedOut, GoOn, TypeOK, MutexesAreHeld, HoldsItsMutexes
    <3>2. CASE u # t
      BY <1>0, <2>0, <2>9, <3>2 DEF LoggedOut, GoOn, TypeOK, MutexesAreHeld, HoldsItsMutexes
    <3>3. QED BY <3>1, <3>2
  <2>10. CASE ReviveLater(t)
    <3> SUFFICES ASSUME NEW u \in Threads PROVE HoldsItsMutexes(u)'
      BY DEF MutexesAreHeld
    <3>1. CASE u = t
      BY <1>0, <2>0, <2>10, <3>1 DEF ReviveLater, GoOn, Revive, TypeOK, MutexesAreHeld, HoldsItsMutexes
    <3>2. CASE u # t
      BY <1>0, <2>0, <2>10, <3>2 DEF ReviveLater, GoOn, Revive, TypeOK, MutexesAreHeld, HoldsItsMutexes
    <3>3. QED BY <3>1, <3>2
  <2> QED BY <1>2, <2>1, <2>2, <2>3, <2>4, <2>5, <2>6, <2>7, <2>8, <2>9, <2>10 DEF Continue
<1>3. ASSUME NEW s \in Sessions, CarryOutClose(s) PROVE MutexesAreHeld'
  BY <1>0, <1>3 DEF CarryOutClose, States, TypeOK, MutexesAreHeld, HoldsItsMutexes, ReferencedIsRegistered, Sessions
<1>4. ASSUME NEW s \in Sessions, EndSession(s) PROVE MutexesAreHeld'
  <2> DEFINE t == Loop
  <2>0. t \in Threads
    BY DEF Threads
  <2>1. EndSession(s)
    BY <1>4
  <2>2. QED
    <3> SUFFICES ASSUME NEW u \in Threads PROVE HoldsItsMutexes(u)'
      BY DEF MutexesAreHeld
    <3>1. CASE u = t
      BY <1>0, <2>0, <2>1, <3>1 DEF EndSession, GoOn, Alive, TypeOK, MutexesAreHeld, HoldsItsMutexes
    <3>2. CASE u # t
      BY <1>0, <2>0, <2>1, <3>2 DEF EndSession, GoOn, Alive, TypeOK, MutexesAreHeld, HoldsItsMutexes
    <3>3. QED BY <3>1, <3>2
<1>5. CASE UNCHANGED vars
  BY <1>0, <1>5 DEF vars, TypeOK, MutexesAreHeld, HoldsItsMutexes, ReferencedIsRegistered
<1>6. QED BY <1>1, <1>2, <1>3, <1>4, <1>5 DEF Next

\* Every step keeps a session that is referred to registered.
LEMMA ReferenceStep == Inv /\ [Next]_vars => ReferencedIsRegistered'
<1> SUFFICES ASSUME Inv, [Next]_vars PROVE ReferencedIsRegistered'
  OBVIOUS
<1>0. TypeOK /\ ReferencedIsRegistered /\ MutexesAreHeld
  BY DEF Inv
<1>n. Nobody \notin Threads
  BY RegistryAssumption DEF Threads
<1> USE <1>n, RegistryAssumption DEF sessionVars, userVars, threadVars, Idle, Doing, None, Sessions, WithManager, Getting
<1>1. ASSUME NEW t \in AppThreads, AppNext(t) PROVE ReferencedIsRegistered'
  <2>0. t \in Threads
    BY DEF Threads
  <2>1. CASE GetSession(t)
    BY <1>0, <2>0, <2>1 DEF GetSession, GoOn, TypeOK, MutexesAreHeld, HoldsItsMutexes, ReferencedIsRegistered
  <2>2. CASE GetExistingSession(t)
    BY <1>0, <2>0, <2>2 DEF GetExistingSession, Take, TypeOK, MutexesAreHeld, HoldsItsMutexes, ReferencedIsRegistered
  <2>3. CASE HasExistingSessions(t)
    BY <1>0, <2>0, <2>3 DEF HasExistingSessions, Take, GoOn, TypeOK, MutexesAreHeld, HoldsItsMutexes, ReferencedIsRegistered
  <2>4. CASE LogOut(t)
    BY <1>0, <2>0, <2>4 DEF LogOut, GoOn, Alive, TypeOK, MutexesAreHeld, HoldsItsMutexes, ReferencedIsRegistered
  <2>5. CASE LogIn(t)
    BY <1>0, <2>0, <2>5 DEF LogIn, GoOn, Alive, TypeOK, MutexesAreHeld, HoldsItsMutexes, ReferencedIsRegistered
  <2>6. CASE Invalidate(t)
    BY <1>0, <2>0, <2>6 DEF Invalidate, TypeOK, MutexesAreHeld, HoldsItsMutexes, ReferencedIsRegistered
  <2>7. ASSUME NEW s \in Sessions, DropReference(t, s) PROVE ReferencedIsRegistered'
    BY <1>0, <2>0, <2>7 DEF DropReference, GoOn, Release, TypeOK, MutexesAreHeld, HoldsItsMutexes, ReferencedIsRegistered
  <2> QED BY <1>1, <2>1, <2>2, <2>3, <2>4, <2>5, <2>6, <2>7 DEF AppNext
<1>2. ASSUME NEW t \in Threads, Continue(t) PROVE ReferencedIsRegistered'
  <2>0. t \in Threads
    OBVIOUS
  <2>1. CASE FindSession(t)
    <3>1. CASE registered # None
      BY <1>0, <2>1, <3>1 DEF FindSession, ReferencedIsRegistered
    <3>2. CASE registered = None
      <4>1. \A z \in Sessions : ~(refs[z] > 0)
        BY <1>0, <3>2 DEF ReferencedIsRegistered
      <4>2. registered' = made + 1 /\ refs' = [refs EXCEPT ![made + 1] = @ + 1]
        BY <2>1, <3>2 DEF FindSession, Take
      <4>3. QED BY <1>0, <4>1, <4>2 DEF TypeOK, ReferencedIsRegistered
    <3>3. QED BY <3>1, <3>2
  <2>2. CASE RegisterSession(t)
    BY <1>0, <2>0, <2>2 DEF RegisterSession, GoOn, TypeOK, MutexesAreHeld, HoldsItsMutexes, ReferencedIsRegistered
  <2>3. CASE ReviveRegistered(t)
    BY <1>0, <2>0, <2>3 DEF ReviveRegistered, GoOn, Revive, TypeOK, MutexesAreHeld, HoldsItsMutexes, ReferencedIsRegistered
  <2>4. CASE TakeReference(t)
    BY <1>0, <2>0, <2>4, ZenonT(60) DEF TakeReference, GoOn, Take, TypeOK, MutexesAreHeld, HoldsItsMutexes, ReferencedIsRegistered
  <2>5. CASE DidDropReference(t)
    BY <1>0, <2>0, <2>5 DEF DidDropReference, GoOn, Closed, TypeOK, MutexesAreHeld, HoldsItsMutexes, ReferencedIsRegistered
  <2>6. CASE UnregisterSession(t)
    BY <1>0, <2>0, <2>6 DEF UnregisterSession, GoOn, Return, Take, TypeOK, MutexesAreHeld, HoldsItsMutexes, ReferencedIsRegistered
  <2>7. CASE ReleaseReference(t)
    BY <1>0, <2>0, <2>7 DEF ReleaseReference, GoOn, Return, Release, TypeOK, MutexesAreHeld, HoldsItsMutexes, ReferencedIsRegistered
  <2>8. CASE CloseInside(t)
    BY <1>0, <2>0, <2>8 DEF CloseInside, GoOn, Return, Closed, TypeOK, MutexesAreHeld, HoldsItsMutexes, ReferencedIsRegistered
  <2>9. CASE LoggedOut(t)
    BY <1>0, <2>0, <2>9 DEF LoggedOut, GoOn, TypeOK, MutexesAreHeld, HoldsItsMutexes, ReferencedIsRegistered
  <2>10. CASE ReviveLater(t)
    BY <1>0, <2>0, <2>10 DEF ReviveLater, GoOn, Revive, TypeOK, MutexesAreHeld, HoldsItsMutexes, ReferencedIsRegistered
  <2> QED BY <1>2, <2>1, <2>2, <2>3, <2>4, <2>5, <2>6, <2>7, <2>8, <2>9, <2>10 DEF Continue
<1>3. ASSUME NEW s \in Sessions, CarryOutClose(s) PROVE ReferencedIsRegistered'
  BY <1>0, <1>3 DEF CarryOutClose, States, TypeOK, MutexesAreHeld, HoldsItsMutexes, ReferencedIsRegistered, Sessions
<1>4. ASSUME NEW s \in Sessions, EndSession(s) PROVE ReferencedIsRegistered'
  <2> DEFINE t == Loop
  <2>0. t \in Threads
    BY DEF Threads
  <2>1. EndSession(s)
    BY <1>4
  <2>2. QED
    BY <1>0, <2>0, <2>1 DEF EndSession, GoOn, Alive, TypeOK, MutexesAreHeld, HoldsItsMutexes, ReferencedIsRegistered
<1>5. CASE UNCHANGED vars
  BY <1>0, <1>5 DEF vars, TypeOK, MutexesAreHeld, HoldsItsMutexes, ReferencedIsRegistered
<1>6. QED BY <1>1, <1>2, <1>3, <1>4, <1>5 DEF Next

\* Every step only names sessions that have been made.
LEMMA MadeStep == Inv /\ [Next]_vars => OnlyMadeSessions'
<1> SUFFICES ASSUME Inv, [Next]_vars PROVE OnlyMadeSessions'
  OBVIOUS
<1>0. TypeOK /\ ReferencedIsRegistered /\ MutexesAreHeld /\ OnlyMadeSessions /\ UserIsConsistent /\ RegisteredIsKept /\ RevivedIsKept /\ RunningIsKnown
  BY DEF Inv
<1>n. Nobody \notin Threads
  BY RegistryAssumption DEF Threads
<1> USE <1>n, RegistryAssumption DEF sessionVars, userVars, threadVars, Idle, Doing, None, Sessions
<1>1. ASSUME NEW t \in AppThreads, AppNext(t) PROVE OnlyMadeSessions'
  <2>0. t \in Threads
    BY DEF Threads
  <2>1. CASE GetSession(t)
    BY <1>0, <2>0, <2>1 DEF GetSession, GoOn, TypeOK, MutexesAreHeld, HoldsItsMutexes, WithManager, Getting, OnlyMadeSessions
  <2>2. CASE GetExistingSession(t)
    BY <1>0, <2>0, <2>2 DEF GetExistingSession, Take, TypeOK, MutexesAreHeld, HoldsItsMutexes, WithManager, Getting, OnlyMadeSessions
  <2>3. CASE HasExistingSessions(t)
    BY <1>0, <2>0, <2>3 DEF HasExistingSessions, Take, GoOn, TypeOK, MutexesAreHeld, HoldsItsMutexes, WithManager, Getting, OnlyMadeSessions
  <2>4. CASE LogOut(t)
    BY <1>0, <2>0, <2>4, ZenonT(60) DEF LogOut, GoOn, Alive, TypeOK, MutexesAreHeld, HoldsItsMutexes, WithManager, Getting, OnlyMadeSessions
  <2>5. CASE LogIn(t)
    BY <1>0, <2>0, <2>5 DEF LogIn, GoOn, Alive, TypeOK, MutexesAreHeld, HoldsItsMutexes, WithManager, Getting, OnlyMadeSessions
  <2>6. CASE Invalidate(t)
    BY <1>0, <2>0, <2>6 DEF Invalidate, TypeOK, MutexesAreHeld, HoldsItsMutexes, WithManager, Getting, OnlyMadeSessions
  <2>7. ASSUME NEW s \in Sessions, DropReference(t, s) PROVE OnlyMadeSessions'
    <3>1. known' <= made' /\ waiting' <= made' /\ \A z \in Sessions : z > made' => session'[z] = "inactive"
      BY <1>0, <2>0, <2>7 DEF DropReference, GoOn, Release, TypeOK, OnlyMadeSessions, MutexesAreHeld, HoldsItsMutexes, WithManager
    <3>2. ASSUME NEW u \in Threads PROVE on'[u] <= made' /\ (at'[u] = "idle" => on'[u] = None)
      <4>1. CASE u = t
        <5>1. CASE refs[s] = 1
          <6>1. s = registered
            BY <1>0, <2>7, <5>1 DEF ReferencedIsRegistered
          <6>2. QED BY <1>0, <2>0, <2>7, <4>1, <5>1, <6>1 DEF DropReference, GoOn, TypeOK
        <5>2. CASE refs[s] # 1
          BY <1>0, <2>0, <2>7, <4>1, <5>2 DEF DropReference, GoOn, TypeOK, OnlyMadeSessions
        <5>3. QED BY <5>1, <5>2
      <4>2. CASE u # t
        BY <1>0, <2>0, <2>7, <4>2 DEF DropReference, GoOn, Release, TypeOK, OnlyMadeSessions
      <4>3. QED BY <4>1, <4>2
    <3>3. QED BY <3>1, <3>2 DEF OnlyMadeSessions
  <2> QED BY <1>1, <2>1, <2>2, <2>3, <2>4, <2>5, <2>6, <2>7 DEF AppNext
<1>2. ASSUME NEW t \in Threads, Continue(t) PROVE OnlyMadeSessions'
  <2>0. t \in Threads
    OBVIOUS
  <2>1. CASE FindSession(t)
    <3>1. known' <= made' /\ waiting' <= made' /\ \A z \in Sessions : z > made' => session'[z] = "inactive"
      BY <1>0, <2>0, <2>1, SMTT(30) DEF FindSession, GoOn, Take, TypeOK, OnlyMadeSessions, MutexesAreHeld, HoldsItsMutexes, WithManager
    <3>2. ASSUME NEW u \in Threads PROVE on'[u] <= made' /\ (at'[u] = "idle" => on'[u] = None)
      <4>1. CASE u = t
        BY <1>0, <2>0, <2>1, <4>1 DEF FindSession, GoOn, Take, TypeOK, OnlyMadeSessions, MutexesAreHeld, HoldsItsMutexes
      <4>2. CASE u # t
        BY <1>0, <2>0, <2>1, <4>2 DEF FindSession, GoOn, Take, TypeOK, OnlyMadeSessions
      <4>3. QED BY <4>1, <4>2
    <3>3. QED BY <3>1, <3>2 DEF OnlyMadeSessions
  <2>2. CASE RegisterSession(t)
    BY <1>0, <2>0, <2>2, ZenonT(60) DEF RegisterSession, GoOn, TypeOK, MutexesAreHeld, HoldsItsMutexes, WithManager, Getting, OnlyMadeSessions
  <2>3. CASE ReviveRegistered(t)
    BY <1>0, <2>0, <2>3 DEF ReviveRegistered, GoOn, Revive, TypeOK, MutexesAreHeld, HoldsItsMutexes, WithManager, Getting, OnlyMadeSessions
  <2>4. CASE TakeReference(t)
    BY <1>0, <2>0, <2>4 DEF TakeReference, GoOn, Take, TypeOK, MutexesAreHeld, HoldsItsMutexes, WithManager, Getting, OnlyMadeSessions
  <2>5. CASE DidDropReference(t)
    <3>1. known' <= made' /\ waiting' <= made' /\ \A z \in Sessions : z > made' => session'[z] = "inactive"
      BY <1>0, <2>0, <2>5 DEF DidDropReference, GoOn, Closed, TypeOK, OnlyMadeSessions, MutexesAreHeld, HoldsItsMutexes, WithManager
    <3>2. ASSUME NEW u \in Threads PROVE on'[u] <= made' /\ (at'[u] = "idle" => on'[u] = None)
      <4>1. CASE u = t
        BY <1>0, <2>0, <2>5, <4>1 DEF DidDropReference, GoOn, Closed, TypeOK, OnlyMadeSessions, MutexesAreHeld, HoldsItsMutexes
      <4>2. CASE u # t
        BY <1>0, <2>0, <2>5, <4>2 DEF DidDropReference, GoOn, Closed, TypeOK, OnlyMadeSessions
      <4>3. QED BY <4>1, <4>2
    <3>3. QED BY <3>1, <3>2 DEF OnlyMadeSessions
  <2>6. CASE UnregisterSession(t)
    <3>1. known' <= made' /\ waiting' <= made' /\ \A z \in Sessions : z > made' => session'[z] = "inactive"
      BY <1>0, <2>0, <2>6 DEF UnregisterSession, GoOn, Return, Take, TypeOK, OnlyMadeSessions, MutexesAreHeld, HoldsItsMutexes, WithManager
    <3>2. ASSUME NEW u \in Threads PROVE on'[u] <= made' /\ (at'[u] = "idle" => on'[u] = None)
      <4>1. CASE u = t
        BY <1>0, <2>0, <2>6, <4>1 DEF UnregisterSession, GoOn, Return, Take, TypeOK, OnlyMadeSessions, MutexesAreHeld, HoldsItsMutexes
      <4>2. CASE u # t
        BY <1>0, <2>0, <2>6, <4>2 DEF UnregisterSession, GoOn, Return, Take, TypeOK, OnlyMadeSessions
      <4>3. QED BY <4>1, <4>2
    <3>3. QED BY <3>1, <3>2 DEF OnlyMadeSessions
  <2>7. CASE ReleaseReference(t)
    <3>1. known' <= made' /\ waiting' <= made' /\ \A z \in Sessions : z > made' => session'[z] = "inactive"
      BY <1>0, <2>0, <2>7 DEF ReleaseReference, GoOn, Return, Release, TypeOK, OnlyMadeSessions, MutexesAreHeld, HoldsItsMutexes, WithManager
    <3>2. ASSUME NEW u \in Threads PROVE on'[u] <= made' /\ (at'[u] = "idle" => on'[u] = None)
      <4>1. CASE u = t
        BY <1>0, <2>0, <2>7, <4>1 DEF ReleaseReference, GoOn, Return, Release, TypeOK, OnlyMadeSessions, MutexesAreHeld, HoldsItsMutexes
      <4>2. CASE u # t
        BY <1>0, <2>0, <2>7, <4>2 DEF ReleaseReference, GoOn, Return, Release, TypeOK, OnlyMadeSessions
      <4>3. QED BY <4>1, <4>2
    <3>3. QED BY <3>1, <3>2 DEF OnlyMadeSessions
  <2>8. CASE CloseInside(t)
    <3>1. known' <= made' /\ waiting' <= made' /\ \A z \in Sessions : z > made' => session'[z] = "inactive"
      BY <1>0, <2>0, <2>8 DEF CloseInside, GoOn, Return, Closed, TypeOK, OnlyMadeSessions, MutexesAreHeld, HoldsItsMutexes, WithManager
    <3>2. ASSUME NEW u \in Threads PROVE on'[u] <= made' /\ (at'[u] = "idle" => on'[u] = None)
      <4>1. CASE u = t
        BY <1>0, <2>0, <2>8, <4>1 DEF CloseInside, GoOn, Return, Closed, TypeOK, OnlyMadeSessions, MutexesAreHeld, HoldsItsMutexes
      <4>2. CASE u # t
        BY <1>0, <2>0, <2>8, <4>2 DEF CloseInside, GoOn, Return, Closed, TypeOK, OnlyMadeSessions
      <4>3. QED BY <4>1, <4>2
    <3>3. QED BY <3>1, <3>2 DEF OnlyMadeSessions
  <2>9. CASE LoggedOut(t)
    BY <1>0, <2>0, <2>9 DEF LoggedOut, GoOn, TypeOK, MutexesAreHeld, HoldsItsMutexes, WithManager, Getting, OnlyMadeSessions
  <2>10. CASE ReviveLater(t)
    BY <1>0, <2>0, <2>10 DEF ReviveLater, GoOn, Revive, TypeOK, MutexesAreHeld, HoldsItsMutexes, WithManager, Getting, OnlyMadeSessions
  <2> QED BY <1>2, <2>1, <2>2, <2>3, <2>4, <2>5, <2>6, <2>7, <2>8, <2>9, <2>10 DEF Continue
<1>3. ASSUME NEW s \in Sessions, CarryOutClose(s) PROVE OnlyMadeSessions'
  BY <1>0, <1>3 DEF CarryOutClose, TypeOK, MutexesAreHeld, HoldsItsMutexes, WithManager, Getting, OnlyMadeSessions
<1>4. ASSUME NEW s \in Sessions, EndSession(s) PROVE OnlyMadeSessions'
  <2>0. Loop \in Threads
    BY DEF Threads
  <2>1. QED BY <1>0, <1>4, <2>0 DEF EndSession, GoOn, Alive, TypeOK, MutexesAreHeld, HoldsItsMutexes, WithManager, Getting, OnlyMadeSessions
<1>5. CASE UNCHANGED vars
  BY <1>0, <1>5 DEF vars, TypeOK, MutexesAreHeld, HoldsItsMutexes, WithManager, Getting, OnlyMadeSessions
<1>6. QED BY <1>1, <1>2, <1>3, <1>4, <1>5 DEF Next

\* Every step keeps the user's sessions in line with the user's state.
LEMMA UserStep == Inv /\ [Next]_vars => UserIsConsistent'
<1> SUFFICES ASSUME Inv, [Next]_vars PROVE UserIsConsistent'
  OBVIOUS
<1>0. TypeOK /\ ReferencedIsRegistered /\ MutexesAreHeld /\ OnlyMadeSessions /\ UserIsConsistent /\ RegisteredIsKept /\ RevivedIsKept /\ RunningIsKnown
  BY DEF Inv
<1>n. Nobody \notin Threads
  BY RegistryAssumption DEF Threads
<1> USE <1>n, RegistryAssumption DEF sessionVars, userVars, threadVars, Idle, Doing, None, Sessions
<1>1. ASSUME NEW t \in AppThreads, AppNext(t) PROVE UserIsConsistent'
  <2>0. t \in Threads
    BY DEF Threads
  <2>1. CASE GetSession(t)
    BY <1>0, <2>0, <2>1 DEF GetSession, GoOn, TypeOK, MutexesAreHeld, HoldsItsMutexes, WithManager, Getting, UserIsConsistent
  <2>2. CASE GetExistingSession(t)
    BY <1>0, <2>0, <2>2 DEF GetExistingSession, Take, TypeOK, MutexesAreHeld, HoldsItsMutexes, WithManager, Getting, UserIsConsistent
  <2>3. CASE HasExistingSessions(t)
    BY <1>0, <2>0, <2>3 DEF HasExistingSessions, Take, GoOn, TypeOK, MutexesAreHeld, HoldsItsMutexes, WithManager, Getting, UserIsConsistent
  <2>4. CASE LogOut(t)
    BY <1>0, <2>0, <2>4 DEF LogOut, GoOn, Alive, TypeOK, MutexesAreHeld, HoldsItsMutexes, WithManager, Getting, UserIsConsistent
  <2>5. CASE LogIn(t)
    BY <1>0, <2>0, <2>5 DEF LogIn, GoOn, Alive, TypeOK, MutexesAreHeld, HoldsItsMutexes, WithManager, Getting, UserIsConsistent
  <2>6. CASE Invalidate(t)
    BY <1>0, <2>0, <2>6 DEF Invalidate, TypeOK, MutexesAreHeld, HoldsItsMutexes, WithManager, Getting, UserIsConsistent
  <2>7. ASSUME NEW s \in Sessions, DropReference(t, s) PROVE UserIsConsistent'
    BY <1>0, <2>0, <2>7 DEF DropReference, GoOn, Release, TypeOK, MutexesAreHeld, HoldsItsMutexes, WithManager, Getting, UserIsConsistent
  <2> QED BY <1>1, <2>1, <2>2, <2>3, <2>4, <2>5, <2>6, <2>7 DEF AppNext
<1>2. ASSUME NEW t \in Threads, Continue(t) PROVE UserIsConsistent'
  <2>0. t \in Threads
    OBVIOUS
  <2>1. CASE FindSession(t)
    BY <1>0, <2>0, <2>1 DEF FindSession, GoOn, Take, TypeOK, MutexesAreHeld, HoldsItsMutexes, WithManager, Getting, UserIsConsistent
  <2>2. CASE RegisterSession(t)
    BY <1>0, <2>0, <2>2 DEF RegisterSession, GoOn, TypeOK, MutexesAreHeld, HoldsItsMutexes, WithManager, Getting, UserIsConsistent
  <2>3. CASE ReviveRegistered(t)
    BY <1>0, <2>0, <2>3 DEF ReviveRegistered, GoOn, Revive, TypeOK, MutexesAreHeld, HoldsItsMutexes, WithManager, Getting, UserIsConsistent
  <2>4. CASE TakeReference(t)
    BY <1>0, <2>0, <2>4 DEF TakeReference, GoOn, Take, TypeOK, MutexesAreHeld, HoldsItsMutexes, WithManager, Getting, UserIsConsistent
  <2>5. CASE DidDropReference(t)
    BY <1>0, <2>0, <2>5 DEF DidDropReference, GoOn, Closed, TypeOK, MutexesAreHeld, HoldsItsMutexes, WithManager, Getting, UserIsConsistent
  <2>6. CASE UnregisterSession(t)
    BY <1>0, <2>0, <2>6 DEF UnregisterSession, GoOn, Return, Take, TypeOK, MutexesAreHeld, HoldsItsMutexes, WithManager, Getting, UserIsConsistent
  <2>7. CASE ReleaseReference(t)
    BY <1>0, <2>0, <2>7 DEF ReleaseReference, GoOn, Return, Release, TypeOK, MutexesAreHeld, HoldsItsMutexes, WithManager, Getting, UserIsConsistent
  <2>8. CASE CloseInside(t)
    BY <1>0, <2>0, <2>8 DEF CloseInside, GoOn, Return, Closed, TypeOK, MutexesAreHeld, HoldsItsMutexes, WithManager, Getting, UserIsConsistent
  <2>9. CASE LoggedOut(t)
    BY <1>0, <2>0, <2>9 DEF LoggedOut, GoOn, TypeOK, MutexesAreHeld, HoldsItsMutexes, WithManager, Getting, UserIsConsistent
  <2>10. CASE ReviveLater(t)
    BY <1>0, <2>0, <2>10 DEF ReviveLater, GoOn, Revive, TypeOK, MutexesAreHeld, HoldsItsMutexes, WithManager, Getting, UserIsConsistent
  <2> QED BY <1>2, <2>1, <2>2, <2>3, <2>4, <2>5, <2>6, <2>7, <2>8, <2>9, <2>10 DEF Continue
<1>3. ASSUME NEW s \in Sessions, CarryOutClose(s) PROVE UserIsConsistent'
  BY <1>0, <1>3 DEF CarryOutClose, TypeOK, MutexesAreHeld, HoldsItsMutexes, WithManager, Getting, UserIsConsistent
<1>4. ASSUME NEW s \in Sessions, EndSession(s) PROVE UserIsConsistent'
  <2>0. Loop \in Threads
    BY DEF Threads
  <2>1. QED BY <1>0, <1>4, <2>0 DEF EndSession, GoOn, Alive, TypeOK, MutexesAreHeld, HoldsItsMutexes, WithManager, Getting, UserIsConsistent
<1>5. CASE UNCHANGED vars
  BY <1>0, <1>5 DEF vars, TypeOK, MutexesAreHeld, HoldsItsMutexes, WithManager, Getting, UserIsConsistent
<1>6. QED BY <1>1, <1>2, <1>3, <1>4, <1>5 DEF Next

\* Every step leaves the registered session with its user.
LEMMA KeptStep == Inv /\ [Next]_vars => RegisteredIsKept'
<1> SUFFICES ASSUME Inv, [Next]_vars PROVE RegisteredIsKept'
  OBVIOUS
<1>0. TypeOK /\ ReferencedIsRegistered /\ MutexesAreHeld /\ OnlyMadeSessions /\ UserIsConsistent /\ RegisteredIsKept /\ RevivedIsKept /\ RunningIsKnown
  BY DEF Inv
<1>n. Nobody \notin Threads
  BY RegistryAssumption DEF Threads
<1> USE <1>n, RegistryAssumption DEF sessionVars, userVars, threadVars, Idle, Doing, None, Sessions
<1>1. ASSUME NEW t \in AppThreads, AppNext(t) PROVE RegisteredIsKept'
  <2>0. t \in Threads
    BY DEF Threads
  <2>1. CASE GetSession(t)
    BY <1>0, <2>0, <2>1 DEF GetSession, GoOn, TypeOK, MutexesAreHeld, HoldsItsMutexes, WithManager, Getting, UserIsConsistent, Kept, RegisteredIsKept
  <2>2. CASE GetExistingSession(t)
    BY <1>0, <2>0, <2>2 DEF GetExistingSession, Take, TypeOK, MutexesAreHeld, HoldsItsMutexes, WithManager, Getting, UserIsConsistent, Kept, RegisteredIsKept
  <2>3. CASE HasExistingSessions(t)
    BY <1>0, <2>0, <2>3 DEF HasExistingSessions, Take, GoOn, TypeOK, MutexesAreHeld, HoldsItsMutexes, WithManager, Getting, UserIsConsistent, Kept, RegisteredIsKept
  <2>4. CASE LogOut(t)
    BY <1>0, <2>0, <2>4 DEF LogOut, GoOn, Alive, TypeOK, MutexesAreHeld, HoldsItsMutexes, WithManager, Getting, UserIsConsistent, Kept, RegisteredIsKept
  <2>5. CASE LogIn(t)
    BY <1>0, <2>0, <2>5 DEF LogIn, GoOn, Alive, TypeOK, MutexesAreHeld, HoldsItsMutexes, WithManager, Getting, UserIsConsistent, Kept, RegisteredIsKept
  <2>6. CASE Invalidate(t)
    BY <1>0, <2>0, <2>6 DEF Invalidate, TypeOK, MutexesAreHeld, HoldsItsMutexes, WithManager, Getting, UserIsConsistent, Kept, RegisteredIsKept
  <2>7. ASSUME NEW s \in Sessions, DropReference(t, s) PROVE RegisteredIsKept'
    BY <1>0, <2>0, <2>7 DEF DropReference, GoOn, Release, TypeOK, MutexesAreHeld, HoldsItsMutexes, WithManager, Getting, UserIsConsistent, Kept, RegisteredIsKept
  <2> QED BY <1>1, <2>1, <2>2, <2>3, <2>4, <2>5, <2>6, <2>7 DEF AppNext
<1>2. ASSUME NEW t \in Threads, Continue(t) PROVE RegisteredIsKept'
  <2>0. t \in Threads
    OBVIOUS
  <2>1. CASE FindSession(t)
    BY <1>0, <2>0, <2>1 DEF FindSession, GoOn, Take, TypeOK, MutexesAreHeld, HoldsItsMutexes, WithManager, Getting, UserIsConsistent, Kept, RegisteredIsKept
  <2>2. CASE RegisterSession(t)
    BY <1>0, <2>0, <2>2 DEF RegisterSession, GoOn, TypeOK, MutexesAreHeld, HoldsItsMutexes, WithManager, Getting, UserIsConsistent, Kept, RegisteredIsKept
  <2>3. CASE ReviveRegistered(t)
    BY <1>0, <2>0, <2>3 DEF ReviveRegistered, GoOn, Revive, TypeOK, MutexesAreHeld, HoldsItsMutexes, WithManager, Getting, UserIsConsistent, Kept, RegisteredIsKept
  <2>4. CASE TakeReference(t)
    BY <1>0, <2>0, <2>4 DEF TakeReference, GoOn, Take, TypeOK, MutexesAreHeld, HoldsItsMutexes, WithManager, Getting, UserIsConsistent, Kept, RegisteredIsKept
  <2>5. CASE DidDropReference(t)
    BY <1>0, <2>0, <2>5 DEF DidDropReference, GoOn, Closed, TypeOK, MutexesAreHeld, HoldsItsMutexes, WithManager, Getting, UserIsConsistent, Kept, RegisteredIsKept
  <2>6. CASE UnregisterSession(t)
    BY <1>0, <2>0, <2>6 DEF UnregisterSession, GoOn, Return, Take, TypeOK, MutexesAreHeld, HoldsItsMutexes, WithManager, Getting, UserIsConsistent, Kept, RegisteredIsKept
  <2>7. CASE ReleaseReference(t)
    BY <1>0, <2>0, <2>7 DEF ReleaseReference, GoOn, Return, Release, TypeOK, MutexesAreHeld, HoldsItsMutexes, WithManager, Getting, UserIsConsistent, Kept, RegisteredIsKept
  <2>8. CASE CloseInside(t)
    BY <1>0, <2>0, <2>8 DEF CloseInside, GoOn, Return, Closed, TypeOK, MutexesAreHeld, HoldsItsMutexes, WithManager, Getting, UserIsConsistent, Kept, RegisteredIsKept
  <2>9. CASE LoggedOut(t)
    BY <1>0, <2>0, <2>9 DEF LoggedOut, GoOn, TypeOK, MutexesAreHeld, HoldsItsMutexes, WithManager, Getting, UserIsConsistent, Kept, RegisteredIsKept
  <2>10. CASE ReviveLater(t)
    BY <1>0, <2>0, <2>10 DEF ReviveLater, GoOn, Revive, TypeOK, MutexesAreHeld, HoldsItsMutexes, WithManager, Getting, UserIsConsistent, Kept, RegisteredIsKept
  <2> QED BY <1>2, <2>1, <2>2, <2>3, <2>4, <2>5, <2>6, <2>7, <2>8, <2>9, <2>10 DEF Continue
<1>3. ASSUME NEW s \in Sessions, CarryOutClose(s) PROVE RegisteredIsKept'
  BY <1>0, <1>3 DEF CarryOutClose, TypeOK, MutexesAreHeld, HoldsItsMutexes, WithManager, Getting, UserIsConsistent, Kept, RegisteredIsKept
<1>4. ASSUME NEW s \in Sessions, EndSession(s) PROVE RegisteredIsKept'
  <2>0. Loop \in Threads
    BY DEF Threads
  <2>1. QED BY <1>0, <1>4, <2>0 DEF EndSession, GoOn, Alive, TypeOK, MutexesAreHeld, HoldsItsMutexes, WithManager, Getting, UserIsConsistent, Kept, RegisteredIsKept
<1>5. CASE UNCHANGED vars
  BY <1>0, <1>5 DEF vars, TypeOK, MutexesAreHeld, HoldsItsMutexes, WithManager, Getting, UserIsConsistent, Kept, RegisteredIsKept
<1>6. QED BY <1>1, <1>2, <1>3, <1>4, <1>5 DEF Next

\* Every step leaves a session that is to be revived with its user.
LEMMA RevivedStep == Inv /\ [Next]_vars => RevivedIsKept'
<1> SUFFICES ASSUME Inv, [Next]_vars PROVE RevivedIsKept'
  OBVIOUS
<1>0. TypeOK /\ ReferencedIsRegistered /\ MutexesAreHeld /\ OnlyMadeSessions /\ UserIsConsistent /\ RegisteredIsKept /\ RevivedIsKept /\ RunningIsKnown
  BY DEF Inv
<1>n. Nobody \notin Threads
  BY RegistryAssumption DEF Threads
<1> USE <1>n, RegistryAssumption DEF sessionVars, userVars, threadVars, Idle, Doing, None, Sessions
<1>1. ASSUME NEW t \in AppThreads, AppNext(t) PROVE RevivedIsKept'
  <2>0. t \in Threads
    BY DEF Threads
  <2>1. CASE GetSession(t)
    BY <1>0, <2>0, <2>1 DEF GetSession, GoOn, TypeOK, MutexesAreHeld, HoldsItsMutexes, WithManager, Getting, UserIsConsistent, Kept, OnlyMadeSessions, RevivedIsKept
  <2>2. CASE GetExistingSession(t)
    BY <1>0, <2>0, <2>2 DEF GetExistingSession, Take, TypeOK, MutexesAreHeld, HoldsItsMutexes, WithManager, Getting, UserIsConsistent, Kept, OnlyMadeSessions, RevivedIsKept
  <2>3. CASE HasExistingSessions(t)
    BY <1>0, <2>0, <2>3 DEF HasExistingSessions, Take, GoOn, TypeOK, MutexesAreHeld, HoldsItsMutexes, WithManager, Getting, UserIsConsistent, Kept, OnlyMadeSessions, RevivedIsKept
  <2>4. CASE LogOut(t)
    BY <1>0, <2>0, <2>4, SMTT(30) DEF LogOut, GoOn, Alive, TypeOK, MutexesAreHeld, HoldsItsMutexes, WithManager, Getting, UserIsConsistent, Kept, OnlyMadeSessions, RevivedIsKept
  <2>5. CASE LogIn(t)
    BY <1>0, <2>0, <2>5 DEF LogIn, GoOn, Alive, TypeOK, MutexesAreHeld, HoldsItsMutexes, WithManager, Getting, UserIsConsistent, Kept, OnlyMadeSessions, RevivedIsKept
  <2>6. CASE Invalidate(t)
    BY <1>0, <2>0, <2>6 DEF Invalidate, TypeOK, MutexesAreHeld, HoldsItsMutexes, WithManager, Getting, UserIsConsistent, Kept, OnlyMadeSessions, RevivedIsKept
  <2>7. ASSUME NEW s \in Sessions, DropReference(t, s) PROVE RevivedIsKept'
    BY <1>0, <2>0, <2>7 DEF DropReference, GoOn, Release, TypeOK, MutexesAreHeld, HoldsItsMutexes, WithManager, Getting, UserIsConsistent, Kept, OnlyMadeSessions, RevivedIsKept
  <2> QED BY <1>1, <2>1, <2>2, <2>3, <2>4, <2>5, <2>6, <2>7 DEF AppNext
<1>2. ASSUME NEW t \in Threads, Continue(t) PROVE RevivedIsKept'
  <2>0. t \in Threads
    OBVIOUS
  <2>1. CASE FindSession(t)
    <3> SUFFICES ASSUME NEW u \in Threads,
                        at'[u] = "revive" \/ (at'[u] = "reviveLater" /\ on'[u] = registered')
                 PROVE  Kept(registered)'
      BY DEF RevivedIsKept
    <3>1. u # t /\ UNCHANGED <<known, waiting, userMutex>> /\ at'[u] = at[u] /\ on'[u] = on[u]
      BY <1>0, <2>0, <2>1 DEF FindSession, GoOn, TypeOK
    <3>2. at[u] # "revive" /\ on[u] <= made
      BY <1>0, <2>1 DEF FindSession, MutexesAreHeld, HoldsItsMutexes, WithManager, OnlyMadeSessions
    <3>3. registered' = registered /\ registered # None
      BY <1>0, <2>1, <3>1, <3>2 DEF FindSession, TypeOK
    <3>4. userMutex # Nobody => userMutex # t
      BY <1>0, <2>0, <2>1 DEF FindSession, MutexesAreHeld, HoldsItsMutexes
    <3>5. Kept(registered)
      BY <1>0, <3>1, <3>2, <3>3 DEF RevivedIsKept
    <3>6. QED BY <1>0, <2>0, <2>1, <3>1, <3>3, <3>4, <3>5 DEF FindSession, GoOn, Kept, TypeOK
  <2>2. CASE RegisterSession(t)
    BY <1>0, <2>0, <2>2, SMTT(30) DEF RegisterSession, GoOn, TypeOK, MutexesAreHeld, HoldsItsMutexes, WithManager, Getting, UserIsConsistent, Kept, OnlyMadeSessions, RevivedIsKept
  <2>3. CASE ReviveRegistered(t)
    BY <1>0, <2>0, <2>3 DEF ReviveRegistered, GoOn, Revive, TypeOK, MutexesAreHeld, HoldsItsMutexes, WithManager, Getting, UserIsConsistent, Kept, OnlyMadeSessions, RevivedIsKept
  <2>4. CASE TakeReference(t)
    BY <1>0, <2>0, <2>4 DEF TakeReference, GoOn, Take, TypeOK, MutexesAreHeld, HoldsItsMutexes, WithManager, Getting, UserIsConsistent, Kept, OnlyMadeSessions, RevivedIsKept
  <2>5. CASE DidDropReference(t)
    BY <1>0, <2>0, <2>5 DEF DidDropReference, GoOn, Closed, TypeOK, MutexesAreHeld, HoldsItsMutexes, WithManager, Getting, UserIsConsistent, Kept, OnlyMadeSessions, RevivedIsKept
  <2>6. CASE UnregisterSession(t)
    <3> SUFFICES ASSUME NEW u \in Threads,
                        at'[u] = "revive" \/ (at'[u] = "reviveLater" /\ on'[u] = registered')
                 PROVE  Kept(registered)'
      BY DEF RevivedIsKept
    <3>1. UNCHANGED <<known, waiting, userMutex>> /\ manager = Nobody
      BY <2>6 DEF UnregisterSession
    <3>0. at[t] = "unregister" /\ at \in [Threads -> Steps] /\ on \in [Threads -> Sessions \cup {None}]
      BY <1>0, <2>6 DEF UnregisterSession, TypeOK
    <3>a. \/ UNCHANGED <<at, on>>
          \/ GoOn(t, "loggedOut", on[t])
          \/ userMutex # t /\ GoOn(t, "idle", None)
          \/ GoOn(t, "release", on[t])
      BY <2>6 DEF UnregisterSession, Return
    <3>2. ASSUME NEW v \in Threads, v # t PROVE at'[v] = at[v] /\ on'[v] = on[v]
      <4>1. CASE UNCHANGED <<at, on>>
        BY <4>1
      <4>2. ASSUME NEW step, NEW s, GoOn(t, step, s) PROVE at'[v] = at[v] /\ on'[v] = on[v]
        BY <3>0, <3>2, <4>2 DEF GoOn
      <4>3. QED BY <3>a, <4>1, <4>2
    <3>3. u # t
      BY <2>0, <3>0, <3>a DEF GoOn
    <3>4. at[u] # "revive"
      BY <1>0, <3>1 DEF MutexesAreHeld, HoldsItsMutexes, WithManager
    <3>5. at[u] = "reviveLater" /\ on[u] = registered'
      BY <3>2, <3>3, <3>4
    <3>6. registered' = registered
      <4>1. registered' # None
        BY <1>0, <3>5 DEF OnlyMadeSessions, MutexesAreHeld, HoldsItsMutexes
      <4>2. QED BY <2>6, <4>1 DEF UnregisterSession
    <3>7. Kept(registered)
      BY <1>0, <3>5, <3>6 DEF RevivedIsKept
    <3>8. userMutex # Nobody => userMutex \in Threads
      BY <1>0 DEF TypeOK
    <3>9. userMutex # Nobody => on'[userMutex] = on[userMutex]
      BY <2>0, <3>0, <3>a, <3>2, <3>8 DEF GoOn
    <3>10. QED BY <3>1, <3>6, <3>7, <3>9 DEF Kept
  <2>7. CASE ReleaseReference(t)
    BY <1>0, <2>0, <2>7 DEF ReleaseReference, GoOn, Return, Release, TypeOK, MutexesAreHeld, HoldsItsMutexes, WithManager, Getting, UserIsConsistent, Kept, OnlyMadeSessions, RevivedIsKept
  <2>8. CASE CloseInside(t)
    BY <1>0, <2>0, <2>8 DEF CloseInside, GoOn, Return, Closed, TypeOK, MutexesAreHeld, HoldsItsMutexes, WithManager, Getting, UserIsConsistent, Kept, OnlyMadeSessions, RevivedIsKept
  <2>9. CASE LoggedOut(t)
    BY <1>0, <2>0, <2>9 DEF LoggedOut, GoOn, TypeOK, MutexesAreHeld, HoldsItsMutexes, WithManager, Getting, UserIsConsistent, Kept, OnlyMadeSessions, RevivedIsKept
  <2>10. CASE ReviveLater(t)
    BY <1>0, <2>0, <2>10 DEF ReviveLater, GoOn, Revive, TypeOK, MutexesAreHeld, HoldsItsMutexes, WithManager, Getting, UserIsConsistent, Kept, OnlyMadeSessions, RevivedIsKept
  <2> QED BY <1>2, <2>1, <2>2, <2>3, <2>4, <2>5, <2>6, <2>7, <2>8, <2>9, <2>10 DEF Continue
<1>3. ASSUME NEW s \in Sessions, CarryOutClose(s) PROVE RevivedIsKept'
  BY <1>0, <1>3 DEF CarryOutClose, TypeOK, MutexesAreHeld, HoldsItsMutexes, WithManager, Getting, UserIsConsistent, Kept, OnlyMadeSessions, RevivedIsKept
<1>4. ASSUME NEW s \in Sessions, EndSession(s) PROVE RevivedIsKept'
  <2>0. Loop \in Threads
    BY DEF Threads
  <2>1. QED BY <1>0, <1>4, <2>0 DEF EndSession, GoOn, Alive, TypeOK, MutexesAreHeld, HoldsItsMutexes, WithManager, Getting, UserIsConsistent, Kept, OnlyMadeSessions, RevivedIsKept
<1>5. CASE UNCHANGED vars
  BY <1>0, <1>5 DEF vars, TypeOK, MutexesAreHeld, HoldsItsMutexes, WithManager, Getting, UserIsConsistent, Kept, OnlyMadeSessions, RevivedIsKept
<1>6. QED BY <1>1, <1>2, <1>3, <1>4, <1>5 DEF Next

\* Every step that makes the registered session run finds it with a user who is not logged out.
LEMMA RunningStep == Inv /\ [Next]_vars => RunningIsKnown'
<1> SUFFICES ASSUME Inv, [Next]_vars PROVE RunningIsKnown'
  OBVIOUS
<1>0. TypeOK /\ ReferencedIsRegistered /\ MutexesAreHeld /\ OnlyMadeSessions /\ UserIsConsistent /\ RegisteredIsKept /\ RevivedIsKept /\ RunningIsKnown
  BY DEF Inv
<1>n. Nobody \notin Threads
  BY RegistryAssumption DEF Threads
<1> USE <1>n, RegistryAssumption DEF sessionVars, userVars, threadVars, Idle, Doing, None, Sessions
<1>1. ASSUME NEW t \in AppThreads, AppNext(t) PROVE RunningIsKnown'
  <2>0. t \in Threads
    BY DEF Threads
  <2>1. CASE GetSession(t)
    BY <1>0, <2>0, <2>1 DEF GetSession, GoOn, TypeOK, MutexesAreHeld, HoldsItsMutexes, WithManager, Getting, UserIsConsistent, Kept, OnlyMadeSessions, RevivedIsKept, RunningIsKnown
  <2>2. CASE GetExistingSession(t)
    BY <1>0, <2>0, <2>2 DEF GetExistingSession, Take, TypeOK, MutexesAreHeld, HoldsItsMutexes, WithManager, Getting, UserIsConsistent, Kept, OnlyMadeSessions, RevivedIsKept, RunningIsKnown
  <2>3. CASE HasExistingSessions(t)
    BY <1>0, <2>0, <2>3 DEF HasExistingSessions, Take, GoOn, TypeOK, MutexesAreHeld, HoldsItsMutexes, WithManager, Getting, UserIsConsistent, Kept, OnlyMadeSessions, RevivedIsKept, RunningIsKnown
  <2>4. CASE LogOut(t)
    BY <1>0, <2>0, <2>4, SMTT(30) DEF LogOut, GoOn, Alive, TypeOK, MutexesAreHeld, HoldsItsMutexes, WithManager, Getting, UserIsConsistent, Kept, OnlyMadeSessions, RevivedIsKept, RunningIsKnown
  <2>5. CASE LogIn(t)
    BY <1>0, <2>0, <2>5 DEF LogIn, GoOn, Alive, TypeOK, MutexesAreHeld, HoldsItsMutexes, WithManager, Getting, UserIsConsistent, Kept, OnlyMadeSessions, RevivedIsKept, RunningIsKnown
  <2>6. CASE Invalidate(t)
    BY <1>0, <2>0, <2>6 DEF Invalidate, TypeOK, MutexesAreHeld, HoldsItsMutexes, WithManager, Getting, UserIsConsistent, Kept, OnlyMadeSessions, RevivedIsKept, RunningIsKnown
  <2>7. ASSUME NEW s \in Sessions, DropReference(t, s) PROVE RunningIsKnown'
    BY <1>0, <2>0, <2>7 DEF DropReference, GoOn, Release, TypeOK, MutexesAreHeld, HoldsItsMutexes, WithManager, Getting, UserIsConsistent, Kept, OnlyMadeSessions, RevivedIsKept, RunningIsKnown
  <2> QED BY <1>1, <2>1, <2>2, <2>3, <2>4, <2>5, <2>6, <2>7 DEF AppNext
<1>2. ASSUME NEW t \in Threads, Continue(t) PROVE RunningIsKnown'
  <2>0. t \in Threads
    OBVIOUS
  <2>1. CASE FindSession(t)
    BY <1>0, <2>0, <2>1, SMTT(30) DEF FindSession, GoOn, Take, TypeOK, MutexesAreHeld, HoldsItsMutexes, WithManager, Getting, UserIsConsistent, Kept, OnlyMadeSessions, RevivedIsKept, RunningIsKnown
  <2>2. CASE RegisterSession(t)
    BY <1>0, <2>0, <2>2 DEF RegisterSession, GoOn, TypeOK, MutexesAreHeld, HoldsItsMutexes, WithManager, Getting, UserIsConsistent, Kept, OnlyMadeSessions, RevivedIsKept, RunningIsKnown
  <2>3. CASE ReviveRegistered(t)
    BY <1>0, <2>0, <2>3 DEF ReviveRegistered, GoOn, Revive, TypeOK, MutexesAreHeld, HoldsItsMutexes, WithManager, Getting, UserIsConsistent, Kept, OnlyMadeSessions, RevivedIsKept, RunningIsKnown
  <2>4. CASE TakeReference(t)
    BY <1>0, <2>0, <2>4 DEF TakeReference, GoOn, Take, TypeOK, MutexesAreHeld, HoldsItsMutexes, WithManager, Getting, UserIsConsistent, Kept, OnlyMadeSessions, RevivedIsKept, RunningIsKnown
  <2>5. CASE DidDropReference(t)
    BY <1>0, <2>0, <2>5 DEF DidDropReference, GoOn, Closed, TypeOK, MutexesAreHeld, HoldsItsMutexes, WithManager, Getting, UserIsConsistent, Kept, OnlyMadeSessions, RevivedIsKept, RunningIsKnown
  <2>6. CASE UnregisterSession(t)
    BY <1>0, <2>0, <2>6 DEF UnregisterSession, GoOn, Return, Take, TypeOK, MutexesAreHeld, HoldsItsMutexes, WithManager, Getting, UserIsConsistent, Kept, OnlyMadeSessions, RevivedIsKept, RunningIsKnown
  <2>7. CASE ReleaseReference(t)
    BY <1>0, <2>0, <2>7 DEF ReleaseReference, GoOn, Return, Release, TypeOK, MutexesAreHeld, HoldsItsMutexes, WithManager, Getting, UserIsConsistent, Kept, OnlyMadeSessions, RevivedIsKept, RunningIsKnown
  <2>8. CASE CloseInside(t)
    BY <1>0, <2>0, <2>8 DEF CloseInside, GoOn, Return, Closed, TypeOK, MutexesAreHeld, HoldsItsMutexes, WithManager, Getting, UserIsConsistent, Kept, OnlyMadeSessions, RevivedIsKept, RunningIsKnown
  <2>9. CASE LoggedOut(t)
    BY <1>0, <2>0, <2>9 DEF LoggedOut, GoOn, TypeOK, MutexesAreHeld, HoldsItsMutexes, WithManager, Getting, UserIsConsistent, Kept, OnlyMadeSessions, RevivedIsKept, RunningIsKnown
  <2>10. CASE ReviveLater(t)
    <3>1. CASE on[t] # registered
      BY <1>0, <2>0, <2>10, <3>1 DEF ReviveLater, Revive, TypeOK, RunningIsKnown
    <3>2. CASE on[t] = registered
      <4> SUFFICES ASSUME registered # None, user = "active"
                   PROVE  userMutex = Nobody /\ known = registered
        BY <2>0, <2>10 DEF ReviveLater, Revive, RunningIsKnown
      <4>1. Kept(registered)
        BY <1>0, <2>0, <2>10, <3>2 DEF ReviveLater, RevivedIsKept
      <4>2. QED BY <1>0, <4>1 DEF Kept, UserIsConsistent
    <3>3. QED BY <3>1, <3>2
  <2> QED BY <1>2, <2>1, <2>2, <2>3, <2>4, <2>5, <2>6, <2>7, <2>8, <2>9, <2>10 DEF Continue
<1>3. ASSUME NEW s \in Sessions, CarryOutClose(s) PROVE RunningIsKnown'
  BY <1>0, <1>3 DEF CarryOutClose, TypeOK, MutexesAreHeld, HoldsItsMutexes, WithManager, Getting, UserIsConsistent, Kept, OnlyMadeSessions, RevivedIsKept, RunningIsKnown
<1>4. ASSUME NEW s \in Sessions, EndSession(s) PROVE RunningIsKnown'
  <2>0. Loop \in Threads
    BY DEF Threads
  <2>1. QED BY <1>0, <1>4, <2>0 DEF EndSession, GoOn, Alive, TypeOK, MutexesAreHeld, HoldsItsMutexes, WithManager, Getting, UserIsConsistent, Kept, OnlyMadeSessions, RevivedIsKept, RunningIsKnown
<1>5. CASE UNCHANGED vars
  BY <1>0, <1>5 DEF vars, TypeOK, MutexesAreHeld, HoldsItsMutexes, WithManager, Getting, UserIsConsistent, Kept, OnlyMadeSessions, RevivedIsKept, RunningIsKnown
<1>6. QED BY <1>1, <1>2, <1>3, <1>4, <1>5 DEF Next

\* The parts of the invariant hold in every behaviour.
THEOREM Invariance == Spec => []Inv
<1>1. Inv /\ [Next]_vars => Inv'
  BY TypeStep, MutexStep, ReferenceStep, MadeStep, UserStep, KeptStep, RevivedStep, RunningStep DEF Inv
<1>2. QED BY <1>1, InitInv, PTL DEF Spec

\* Whoever refers to a session refers to the one that is registered
\* (unregister_session, get_session).
THEOREM ReferencedIsAlwaysRegistered == Spec => []ReferencedIsRegistered
<1>1. Inv => ReferencedIsRegistered
  BY DEF Inv
<1>2. QED BY <1>1, Invariance, PTL

\* The types, for every number of threads and sessions.
THEOREM TypesAreKept == Spec => []TypeOK
<1>1. Inv => TypeOK
  BY DEF Inv
<1>2. QED BY <1>1, Invariance, PTL

\* When all calls have ended, the registered session is known to its user, or
\* waits for his login (register_session, log_out, update_refresh_token).
THEOREM RegisteredIsAlwaysKnown == Spec => []RegisteredIsKnown
<1>1. Inv => RegisteredIsKnown
  <2> SUFFICES ASSUME Inv, Quiet, registered # None, ~invalidated
               PROVE  /\ user = "active" => known = registered
                      /\ user = "loggedOut" => waiting = registered
    BY DEF RegisteredIsKnown
  <2>1. userMutex = Nobody
    BY DEF Inv, Quiet, TypeOK, MutexesAreHeld, HoldsItsMutexes
  <2>2. Kept(registered)
    BY DEF Inv, Quiet, RegisteredIsKept
  <2>3. QED BY <2>1, <2>2 DEF Inv, Kept, UserIsConsistent
<1>2. QED BY <1>1, Invariance, PTL

\* When all calls have ended and the user is logged out, no session runs that
\* anybody could still reach (log_out, register_session, revive_if_needed).
THEOREM LoggedOutIsAlwaysQuiet == Spec => []LoggedOutIsQuiet
<1>1. Inv => LoggedOutIsQuiet
  <2> SUFFICES ASSUME Inv, Quiet, user = "loggedOut", ~late, NEW s \in Sessions, Alive(s)
               PROVE  session[s] = "inactive"
    BY DEF LoggedOutIsQuiet
  <2>1. \A t \in Threads : on[t] = None
    BY DEF Inv, Quiet, OnlyMadeSessions
  <2>2. s # None /\ s = registered
    BY <2>1 DEF Inv, Alive, ReferencedIsRegistered
  <2>3. QED BY <2>2 DEF Inv, RunningIsKnown
<1>2. QED BY <1>1, Invariance, PTL
=============================================================================
