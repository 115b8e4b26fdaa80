-------------------------- MODULE NotifiersProofs --------------------------
(***************************************************************************)
(* Collection notifications: the worker and the Realm stay in step, and no *)
(* change is told twice, lost or spared unasked, for any number of         *)
(* notifiers and commits.                                                  *)
(***************************************************************************)
EXTENDS Notifiers, TLAPS

\* What changed on the way from one version to another can be split at any
\* version between them.
LEMMA ChangesLemma ==
    \A a, b, c \in Version : a <= b /\ b <= c =>
        /\ Changes(a, c) = Changes(a, b) \cup Changes(b, c)
        /\ Changes(a, b) \cap Changes(b, c) = {}
<1> SUFFICES ASSUME NEW a \in Version, NEW b \in Version, NEW c \in Version, a <= b, b <= c
             PROVE  /\ Changes(a, c) = Changes(a, b) \cup Changes(b, c)
                    /\ Changes(a, b) \cap Changes(b, c) = {}
  OBVIOUS
<1>1. a \in Nat /\ b \in Nat /\ c \in Nat
  BY NotifiersAssumption DEF Version
<1>2. ASSUME NEW v \in Touching
      PROVE  /\ a < v /\ v <= c <=> (a < v /\ v <= b) \/ (b < v /\ v <= c)
             /\ ~ (v <= b /\ b < v)
  BY <1>1, <1>2, NotifiersAssumption
<1> QED BY <1>2 DEF Changes

LEMMA NothingBetween ==
    \A a, b, c \in Version :
        a <= b /\ b <= c /\ Changes(a, b) = {} => Changes(a, c) = Changes(b, c) /\ a <= c
<1> SUFFICES ASSUME NEW a \in Version, NEW b \in Version, NEW c \in Version, a <= b, b <= c
             PROVE  (Changes(a, b) = {} => Changes(a, c) = Changes(b, c)) /\ a <= c
  OBVIOUS
<1>1. a \in Nat /\ b \in Nat /\ c \in Nat
  BY NotifiersAssumption DEF Version
<1>2. Changes(a, c) = Changes(a, b) \cup Changes(b, c)
  BY ChangesLemma
<1> QED BY <1>1, <1>2

LEMMA NoChangesLemma == \A a, b \in Version : b <= a => Changes(a, b) = {}
<1> SUFFICES ASSUME NEW a \in Version, NEW b \in Version, b <= a PROVE Changes(a, b) = {}
  OBVIOUS
<1>1. a \in Nat /\ b \in Nat
  BY NotifiersAssumption DEF Version
<1>2. \A v \in Touching : ~ (a < v /\ v <= b)
  BY <1>1, NotifiersAssumption
<1> QED BY <1>2 DEF Changes

LEMMA SameVersion == \A a \in Version : Changes(a, a) = {}
<1> SUFFICES ASSUME NEW a \in Version PROVE Changes(a, a) = {}
  OBVIOUS
<1>1. a \in Nat
  BY NotifiersAssumption DEF Version
<1> QED BY <1>1, NoChangesLemma

LEMMA VersionType == Version \subseteq Nat /\ 0 \in Version /\ \A a, b : Changes(a, b) \subseteq Touching
BY NotifiersAssumption DEF Version, Changes

-----------------------------------------------------------------------------
(* The initial states.                                                     *)

LEMMA InitInv == Init => Inv
<1> SUFFICES ASSUME Init PROVE Inv
  OBVIOUS
<1> USE DEF Init
<1>1. TypeOK
  <2>1. 0 \in Version /\ 1 \in Version
    BY NotifiersAssumption DEF Version
  <2>2. {unannounced, woken, posted, reading, writing, sending, moved, swallowed} \subseteq BOOLEAN
    BY Zenon
  <2>3. {alive, hasRun, on, initial, skipNext, rested, late} \subseteq [Notifier -> BOOLEAN]
    BY Zenon
  <2>5. stage \in [Notifier -> {"none", "asked", "running", "ran"}] /\ tracked \subseteq Notifier
    OBVIOUS
  <2>4. /\ {version, rows} \subseteq [Notifier -> Version]
        /\ {changes, accumulated, toDeliver, settled, asked} \subseteq [Notifier -> SUBSET Touching]
        /\ status \in [Notifier -> {"none", "new", "listed", "gone"}]
    BY <2>1
  <2> QED BY <2>1, <2>2, <2>3, <2>4, <2>5 DEF TypeOK
<1>2. ListsAreExact /\ VersionsAgree
  BY DEF ListsAreExact, VersionsAgree, Running, Listed
<1>3. TransactionsFit /\ CallbacksFit
  BY DEF TransactionsFit, CallbacksFit
<1>4. StagesFit /\ RowsAreCurrent /\ NothingTwice
  BY DEF StagesFit, RowsAreCurrent, NothingTwice
<1>5. DueAgreesWithRead /\ TellsExactly
  BY DEF DueAgreesWithRead, TellsExactly
<1>6. InStep /\ SkipsAreAhead
  BY DEF InStep, SkipsAreAhead
<1> QED BY <1>1, <1>2, <1>3, <1>4, <1>5, <1>6 DEF Inv

-----------------------------------------------------------------------------
(* What the ways of delivering have in common.                             *)

\* The notifiers that have run are at one version.
AllAt(v) == HaveRun # {} /\ \A n \in HaveRun : version[n] = v

LEMMA HaveRunLemma ==
    ASSUME Inv
    PROVE  /\ HaveRun \subseteq Notifier
           /\ \A n \in Notifier : n \in HaveRun <=> alive[n] /\ hasRun[n]
           /\ \A n \in HaveRun : n \in Listed /\ version[n] <= latest
           /\ HaveRun = {} \/ \E v \in Version : AllAt(v)
<1>1. /\ HaveRun \subseteq Notifier
      /\ \A n \in Notifier : n \in HaveRun <=> alive[n] /\ hasRun[n]
  BY DEF HaveRun, Mine, Registered, Inv, ListsAreExact
<1>2. \A n \in HaveRun : n \in Listed /\ version[n] <= latest
  BY <1>1 DEF HaveRun, Mine, Registered, Listed, Inv, ListsAreExact, VersionsAgree
<1>3. ASSUME NEW n \in HaveRun PROVE \E v \in Version : AllAt(v)
  <2>1. version[n] \in Version
    BY <1>1 DEF Inv, TypeOK
  <2>2. \A m \in HaveRun : version[m] = version[n]
    BY <1>1, <1>2 DEF Inv, VersionsAgree
  <2> QED BY <2>1, <2>2 DEF AllAt
<1> QED BY <1>1, <1>2, <1>3

LEMMA AvailableStep ==
    ASSUME Inv, NEW inRead, NEW v, ProcessAvailableAsync(inRead, v)
    PROVE  \/ SendNothing
           \/ \E w \in Version :
                 /\ AllAt(w) /\ (inRead => w = v)
                 /\ SendTo(HaveRun, w)
<1> DEFINE P == {n \in HaveRun : inRead => version[n] = v}
<1>1. CASE P = {}
  BY <1>1 DEF ProcessAvailableAsync
<1>2. CASE P # {}
  <2>1. PICK n \in P : SendTo(P, version[n])
    BY <1>2 DEF ProcessAvailableAsync
  <2>2. PICK w \in Version : AllAt(w)
    BY <2>1, HaveRunLemma
  <2>3. version[n] = w /\ (inRead => w = v) /\ P = HaveRun
    BY <2>1, <2>2 DEF AllAt
  <2> QED BY <2>1, <2>2, <2>3
<1> QED BY <1>1, <1>2

LEMMA ReadyStep ==
    ASSUME Inv, AdvanceToReady
    PROVE  \/ HaveRun = {} /\ read' = latest /\ SendNothing
           \/ \E w \in Version :
                 /\ AllAt(w)
                 /\ \/ w < read /\ Package(HaveRun) /\ UNCHANGED <<read, sending, due, packed>>
                    \/ w >= read /\ SendTo(HaveRun, w) /\ read' = w
<1>1. CASE HaveRun = {}
  BY <1>1 DEF AdvanceToReady
<1>2. CASE HaveRun # {}
  <2>1. PICK w \in Version : AllAt(w)
    BY <1>2, HaveRunLemma
  <2>2. w \in Nat /\ read \in Nat
    BY VersionType DEF Inv, TypeOK
  <2> QED BY <1>2, <2>1, <2>2 DEF AdvanceToReady, AllAt
<1> QED BY <1>1, <1>2

LEMMA AdvanceStep ==
    ASSUME Inv, Advance
    PROVE  \/ HaveRun = {} /\ read' = latest /\ SendNothing
           \/ \E w \in Version :
                 /\ AllAt(w)
                 /\ \/ w < target /\ Package(HaveRun) /\ read' = latest /\ UNCHANGED <<sending, due, packed>>
                    \/ w >= target /\ SendTo(HaveRun, w) /\ read' = w
<1> DEFINE P == {n \in waitsFor : hasRun[n] /\ alive[n]}
<1>0. P = HaveRun
  BY DEF Inv, TransactionsFit, Advance, HaveRun, Mine
<1>1. CASE HaveRun = {}
  BY <1>0, <1>1 DEF Advance
<1>2. CASE HaveRun # {}
  <2>1. PICK w \in Version : AllAt(w)
    BY <1>2, HaveRunLemma
  <2>2. w \in Nat /\ target \in Nat
    BY VersionType DEF Inv, TypeOK
  <2>3. \E n \in HaveRun :
           IF version[n] < target
           THEN Package(HaveRun) /\ read' = latest /\ UNCHANGED <<sending, due, packed>>
           ELSE SendTo(HaveRun, version[n]) /\ read' = version[n]
    BY <1>0, <1>2 DEF Advance
  <2> QED BY <2>1, <2>2, <2>3 DEF AllAt
<1> QED BY <1>1, <1>2

LEMMA DeliveryStep ==
    ASSUME Inv, Notify \/ Advance \/ RefreshAnew
    PROVE  /\ ~sending /\ due = {}
           /\ UNCHANGED <<latest, unannounced, skip, notifier, worker, on, initial, skipNext, asked, rested, late>>
           /\ \/ SendNothing
              \/ \E w \in Version : AllAt(w) /\ SendTo(HaveRun, w)
              \/ Package(HaveRun) /\ UNCHANGED <<sending, due, packed>>
<1>1. ~sending /\ due = {}
  BY DEF Notify, Advance, RefreshAnew, Inv, TransactionsFit
<1>2. \/ SendNothing
      \/ \E w \in Version : AllAt(w) /\ SendTo(HaveRun, w)
      \/ Package(HaveRun) /\ UNCHANGED <<sending, due, packed>>
  <2>1. CASE Notify
    BY <2>1, ReadyStep, AvailableStep DEF Notify
  <2>2. CASE Advance
    BY <2>2, AdvanceStep
  <2>3. CASE RefreshAnew
    BY <2>3, AvailableStep DEF RefreshAnew
  <2> QED BY <2>1, <2>2, <2>3
<1>3. UNCHANGED <<latest, unannounced, skip, notifier, worker>>
  BY DEF Notify, Advance, RefreshAnew, file
<1>4. UNCHANGED <<on, initial, skipNext, asked, rested, late>>
  BY <1>2 DEF SendNothing, SendTo, Package, callback
<1> QED BY <1>1, <1>2, <1>3, <1>4

-----------------------------------------------------------------------------
(* Types.                                                                  *)

LEMMA WorkTypes == TypeOK /\ TransactionsFit /\ Work => TypeOK'
<1> SUFFICES ASSUME TypeOK, Work PROVE TypeOK'
  OBVIOUS
<1>0. 0 \in Version /\ \A a, b : Changes(a, b) \subseteq Touching
  BY VersionType
<1>c. \A s : s \in [Notifier -> {"none", "new", "listed", "gone"}]
        => CleanedUp(s) \in [Notifier -> {"none", "new", "listed", "gone"}]
  BY DEF CleanedUp
<1> USE <1>0 DEF TypeOK, file, signals, realm, delivery, notifier, callback, worker, history
<1>1. CASE RunAsyncNotifiers
  <2>1. SkipAfterCleanUp \in Version
    BY DEF SkipAfterCleanUp
  <2>2. CleanedUp(status) \in [Notifier -> {"none", "new", "listed", "gone"}]
    BY <1>c
  <2>3. CASE Mine = {}
    BY <1>1, <2>1, <2>2, <2>3 DEF RunAsyncNotifiers
  <2>4. CASE Mine # {}
    BY <1>1, <2>1, <2>2, <2>4, ZenonT(60) DEF RunAsyncNotifiers, Listed, Mine, Registered
  <2> QED BY <2>3, <2>4
<1>2. ASSUME NEW n \in Notifier, AddRequiredChangeInfo(n) \/ NeedToRun(n) PROVE TypeOK'
  <2>1. rested' \in [Notifier -> BOOLEAN]
    BY <1>2, ZenonT(30) DEF AddRequiredChangeInfo, NeedToRun
  <2>2. stage' \in [Notifier -> {"none", "asked", "running", "ran"}] /\ tracked' \subseteq Notifier
    BY <1>2 DEF AddRequiredChangeInfo, NeedToRun
  <2> QED BY <1>2, <2>1, <2>2 DEF AddRequiredChangeInfo, NeedToRun
<1>3. CASE HandOverSkipVersion
  BY <1>3 DEF HandOverSkipVersion, PrepareHandover, Accumulated
<1>4. ASSUME NEW n \in Notifier, CalculateChanges(n) PROVE TypeOK'
  BY <1>4 DEF CalculateChanges, Destination
<1>5. CASE HandOverLast
  BY <1>5, <1>c DEF HandOverLast, PrepareHandover, Accumulated, SkipAfterCleanUp
<1>6. CASE TellRealm
  BY <1>6 DEF TellRealm
<1> QED BY <1>1, <1>2, <1>3, <1>4, <1>5, <1>6 DEF Work, Run

LEMMA PackageTypes ==
    ASSUME TypeOK, NEW P \in SUBSET Notifier, NEW v \in Version,
           SendTo(P, v) \/ SendNothing \/ (Package(P) /\ UNCHANGED <<sending, due, packed>>)
    PROVE  /\ {on, initial, skipNext, rested, late}' \subseteq [Notifier -> BOOLEAN]
           /\ {accumulated, toDeliver, settled, asked}' \subseteq [Notifier -> SUBSET Touching]
           /\ due' \subseteq Notifier /\ packed' \in Version /\ sending' \in BOOLEAN
<1>1. CASE SendTo(P, v)
  BY <1>1 DEF TypeOK, SendTo, Package, ToCall
<1>2. CASE SendNothing
  BY <1>2 DEF TypeOK, SendNothing, callback
<1>3. CASE Package(P) /\ UNCHANGED <<sending, due, packed>>
  BY <1>3 DEF TypeOK, Package
<1> QED BY <1>1, <1>2, <1>3

LEMMA DeliverTypes == Inv /\ (Deliver \/ RefreshAnew) => TypeOK'
<1> SUFFICES ASSUME Inv, Deliver \/ RefreshAnew PROVE TypeOK'
  OBVIOUS
<1>t. TypeOK /\ 0 \in Version /\ Version \subseteq Nat /\ \A a, b : Changes(a, b) \subseteq Touching
  BY VersionType DEF Inv
<1>1. CASE Notify \/ Advance \/ RefreshAnew
  <2>1. /\ {on, initial, skipNext, rested, late}' \subseteq [Notifier -> BOOLEAN]
        /\ {accumulated, toDeliver, settled, asked}' \subseteq [Notifier -> SUBSET Touching]
        /\ due' \subseteq Notifier /\ packed' \in Version /\ sending' \in BOOLEAN
    <3>1. \E P \in SUBSET Notifier, v \in Version :
             SendTo(P, v) \/ SendNothing \/ (Package(P) /\ UNCHANGED <<sending, due, packed>>)
      BY <1>1, <1>t, DeliveryStep, HaveRunLemma
    <3> QED BY <1>t, <3>1, PackageTypes
  <2>2. /\ read' \in Version \ {0}
        /\ doing' \in {"nothing", "refresh", "begin", "commit"}
        /\ target' \in Version /\ waitsFor' \subseteq Notifier
    <3>1. CASE Notify
      BY <1>t, <3>1, ReadyStep DEF Notify, TypeOK
    <3>2. CASE Advance
      <4>1. target \in Nat /\ target # 0
        BY <1>t, <3>2 DEF Advance, Inv, TransactionsFit, TypeOK
      <4>2. read' \in Version \ {0}
        BY <1>t, <3>2, <4>1, AdvanceStep DEF TypeOK
      <4> QED BY <1>t, <3>2, <4>2 DEF Advance, TypeOK
    <3>3. CASE RefreshAnew
      BY <1>t, <3>3 DEF RefreshAnew, TypeOK
    <3> QED BY <1>1, <3>1, <3>2, <3>3
  <2>3. woken' = woken /\ UNCHANGED <<latest, unannounced, skip, notifier, worker>>
    BY <1>1, DeliveryStep DEF Notify, Advance, RefreshAnew, signals
  <2>4. posted' \in BOOLEAN /\ reading' \in BOOLEAN /\ writing' \in BOOLEAN
        /\ moved' \in BOOLEAN /\ swallowed' \in BOOLEAN
    BY <1>1, <1>t, Zenon DEF Notify, Advance, RefreshAnew, TypeOK, signals
  <2> QED BY <1>t, <2>1, <2>2, <2>3, <2>4 DEF TypeOK, notifier, worker
<1>2. CASE EndSending
  BY <1>t, <1>2 DEF EndSending, TypeOK, file, signals, realm, notifier, callback, worker, history
<1>3. ASSUME NEW n \in Notifier, Call(n) PROVE TypeOK'
  BY <1>t, <1>3 DEF Call, TypeOK, file, signals, realm, notifier, worker
<1> QED BY <1>1, <1>2, <1>3 DEF Deliver

LEMMA UseTypes ==
    TypeOK /\ TransactionsFit /\ (OtherCommit \/ NotifyOthers \/ (Use /\ ~RefreshAnew) \/ UNCHANGED vars)
        => TypeOK'
<1> SUFFICES ASSUME TypeOK, TransactionsFit,
                    OtherCommit \/ NotifyOthers \/ (Use /\ ~RefreshAnew) \/ UNCHANGED vars
             PROVE  TypeOK'
  OBVIOUS
<1>0. MaxVersion \in Nat /\ Version = 0 .. MaxVersion /\ Mine \subseteq Notifier
      /\ (writing => latest < MaxVersion) /\ (doing = "commit" => writing)
  BY NotifiersAssumption DEF Version, Mine, Registered, TransactionsFit
<1> USE DEF TypeOK, file, signals, realm, delivery, notifier, callback, worker, history
<1>1. CASE OtherCommit
  BY <1>0, <1>1 DEF OtherCommit
<1>2. CASE NotifyOthers
  BY <1>2 DEF NotifyOthers
<1>3. CASE Refresh \/ BeginTransaction
  BY <1>0, <1>3 DEF Refresh, BeginTransaction, WaitFor
<1>4. CASE BeginWhileSending \/ CancelTransaction \/ Invalidate \/ ReadGroup
  BY <1>4, ZenonT(60) DEF BeginWhileSending, CancelTransaction, Invalidate, ReadGroup
<1>5. ASSUME NEW S \in SUBSET Notifier, CommitWithoutNotifying(S) PROVE TypeOK'
  BY <1>5 DEF CommitWithoutNotifying
<1>6. CASE CommitWrite
  <2>1. moved' \in BOOLEAN
    BY <1>6, Zenon DEF CommitWrite
  <2>2. latest + 1 \in Version \ {0}
    BY <1>0, <1>6 DEF CommitWrite
  <2> QED BY <1>6, <2>1, <2>2 DEF CommitWrite
<1>7. ASSUME NEW n \in Notifier, RegisterNotifier(n) \/ AddCallback(n) \/ RemoveCallback(n) \/ Unregister(n)
      PROVE  TypeOK'
  <2>1. CASE RegisterNotifier(n)
    BY <2>1 DEF RegisterNotifier
  <2>2. CASE AddCallback(n)
    <3>1. late' \in [Notifier -> BOOLEAN]
      <4>1. MayMiss(n) \in BOOLEAN
        BY Zenon DEF MayMiss
      <4> QED BY <2>2, <4>1 DEF AddCallback
    <3>2. on' \in [Notifier -> BOOLEAN] /\ woken' \in BOOLEAN
      BY <2>2 DEF AddCallback
    <3> QED BY <2>2, <3>1, <3>2 DEF AddCallback
  <2>3. CASE RemoveCallback(n)
    BY <2>3 DEF RemoveCallback
  <2>4. CASE Unregister(n)
    BY <2>4 DEF Unregister
  <2> QED BY <1>7, <2>1, <2>2, <2>3, <2>4
<1>8. CASE UNCHANGED vars
  BY <1>8 DEF vars
<1> QED BY <1>1, <1>2, <1>3, <1>4, <1>5, <1>6, <1>7, <1>8 DEF Use

-----------------------------------------------------------------------------
(* The lists of the coordinator and the versions of the notifiers.         *)

\* What SkipAfterCleanUp keeps, it keeps for a notifier that is still there.
LEMMA CleanUpLemma ==
    ASSUME Inv
    PROVE  /\ SkipAfterCleanUp \in {0, skip}
           /\ SkipAfterCleanUp # 0 => Listed \ Dead # {}
           /\ \A n \in Notifier : CleanedUp(status)[n] = IF n \in Dead THEN "gone" ELSE status[n]
           /\ \A n \in Notifier : n \in Dead <=> ~alive[n] /\ status[n] \in {"new", "listed"}
BY DEF SkipAfterCleanUp, CleanedUp, Dead, Registered, Inv, VersionsAgree, Listed

\* What running a notifier leaves alone.
LEMMA RunStep ==
    ASSUME Inv, NEW m \in Notifier, Run(m)
    PROVE  /\ UNCHANGED <<file, signals, realm, delivery, callback, status, alive, version, hasRun,
                          pass, final, over, old, new, settled, asked, moved, late, swallowed>>
           /\ Running
           /\ \A n \in Notifier :
                 /\ rested[n] => rested'[n]
                 /\ ~hasRun[n] => changes'[n] = changes[n]
                 /\ n # m => UNCHANGED <<stage[n], rows[n], changes[n], rested[n]>>
                 /\ n # m => (n \in tracked' <=> n \in tracked)
<1>i. TypeOK
  BY DEF Inv
<1>1. CASE AddRequiredChangeInfo(m)
  BY <1>i, <1>1 DEF AddRequiredChangeInfo, Running, TypeOK, notifier, history
<1>2. CASE NeedToRun(m)
  <2>1. /\ UNCHANGED <<file, signals, realm, delivery, callback, status, alive, version, hasRun,
                       pass, final, over, old, new, settled, asked, moved, late, swallowed>>
        /\ Running /\ UNCHANGED <<rows, changes>>
    BY <1>2 DEF NeedToRun, Running, notifier
  <2>2. ASSUME NEW n \in Notifier
        PROVE  /\ rested[n] => rested'[n]
               /\ n # m => UNCHANGED <<stage[n], rested[n]>> /\ (n \in tracked' <=> n \in tracked)
    BY <1>i, <1>2, <2>2 DEF NeedToRun, TypeOK
  <2> QED BY <2>1, <2>2
<1>3. CASE CalculateChanges(m)
  <2>1. Running
    BY <1>3 DEF CalculateChanges, Inv, StagesFit
  <2> QED BY <1>i, <1>3, <2>1 DEF CalculateChanges, TypeOK, history
<1> QED BY <1>1, <1>2, <1>3 DEF Run

LEMMA ListsStep == Inv /\ [Next]_vars => ListsAreExact'
<1> SUFFICES ASSUME Inv, [Next]_vars PROVE ListsAreExact'
  OBVIOUS
<1>i. TypeOK /\ ListsAreExact
  BY DEF Inv
<1>q. ASSUME UNCHANGED <<status, alive, hasRun, pass, old, new, over>> PROVE ListsAreExact'
  BY <1>i, <1>q DEF ListsAreExact, Running, Listed
<1>1. CASE RunAsyncNotifiers
  <2>1. alive' = alive /\ hasRun' = hasRun /\ old = {} /\ new = {} /\ over = 0
    BY <1>1, <1>i DEF RunAsyncNotifiers, ListsAreExact, Running
  <2>2. CASE Mine = {}
    <3>1. status' = CleanedUp(status) /\ pass' = "tell" /\ UNCHANGED <<over, old, new>>
      BY <1>1, <2>2 DEF RunAsyncNotifiers
    <3> QED BY <1>i, <2>1, <3>1, CleanUpLemma DEF ListsAreExact, Running, TypeOK
  <2>3. CASE Mine # {}
    <3>1. /\ \A n \in Notifier : status'[n] = IF n \in Mine THEN "listed" ELSE CleanedUp(status)[n]
          /\ old' = Listed \ Dead /\ new' = {n \in Mine : status[n] = "new"} /\ pass' \in {"skip", "last"}
      BY <1>1, <2>3 DEF RunAsyncNotifiers
    <3>2. \A n \in Notifier : n \in Mine <=> alive[n]
      BY <1>i DEF Mine, Registered, ListsAreExact
    <3>3. Listed' = old' \cup new'
      BY <1>i, <3>1, <3>2, CleanUpLemma DEF Listed, Mine, Registered
    <3>4. ASSUME NEW n \in Notifier
          PROVE  /\ status'[n] = "listed" /\ n \notin new' => hasRun[n]
                 /\ n \in old' => hasRun[n]
                 /\ n \in new' \/ status'[n] \in {"none", "new"} => ~hasRun[n]
                 /\ alive[n] => status'[n] \in {"new", "listed"}
      BY <1>i, <2>1, <3>1, <3>2, CleanUpLemma DEF ListsAreExact, TypeOK, Listed
    <3> QED BY <2>1, <3>1, <3>3, <3>4 DEF ListsAreExact, Running
  <2> QED BY <2>2, <2>3
<1>2. ASSUME NEW m \in Notifier, Run(m) PROVE ListsAreExact'
  BY <1>q, <1>2, RunStep
<1>3. CASE HandOverSkipVersion
  <2>1. /\ UNCHANGED <<status, alive, old, new, over>> /\ pass = "skip" /\ pass' = "last"
        /\ \A n \in Notifier : hasRun'[n] <=> hasRun[n] \/ n \in old
    BY <1>i, <1>3 DEF HandOverSkipVersion, PrepareHandover, TypeOK
  <2>2. \A n \in Notifier : n \in old => status[n] = "listed" /\ n \notin new
    BY <1>i, <2>1 DEF ListsAreExact, Running, Listed
  <2> QED BY <1>i, <2>1, <2>2 DEF ListsAreExact, Running, Listed
<1>4. CASE HandOverLast
  <2>1. /\ status' = CleanedUp(status) /\ alive' = alive /\ pass' = "tell"
        /\ old' = {} /\ new' = {} /\ over' = 0
        /\ \A n \in Notifier : hasRun'[n] <=> hasRun[n] \/ n \in Listed
    BY <1>i, <1>4 DEF HandOverLast, PrepareHandover, ListsAreExact, Running, TypeOK
  <2> QED BY <1>i, <2>1, CleanUpLemma DEF ListsAreExact, Running, Listed, TypeOK
<1>5. CASE TellRealm
  BY <1>i, <1>5 DEF TellRealm, ListsAreExact, Running, notifier, Listed
<1>6. ASSUME NEW n \in Notifier, RegisterNotifier(n) PROVE ListsAreExact'
  BY <1>i, <1>6 DEF RegisterNotifier, ListsAreExact, Running, worker, Listed, TypeOK
<1>7. ASSUME NEW n \in Notifier, Unregister(n) PROVE ListsAreExact'
  BY <1>i, <1>7 DEF Unregister, ListsAreExact, Running, worker, Listed, TypeOK
<1>8. ASSUME NEW n \in Notifier, AddCallback(n) \/ RemoveCallback(n) \/ Call(n) PROVE ListsAreExact'
  BY <1>q, <1>8 DEF AddCallback, RemoveCallback, Call, notifier, worker
<1>9. CASE Notify \/ Advance \/ RefreshAnew \/ EndSending
  BY <1>q, <1>9 DEF Notify, Advance, RefreshAnew, EndSending, notifier, worker
<1>10. CASE \/ OtherCommit \/ NotifyOthers \/ Refresh \/ BeginTransaction \/ BeginWhileSending
            \/ CommitWrite \/ CancelTransaction \/ Invalidate \/ ReadGroup \/ UNCHANGED vars
            \/ \E S \in SUBSET Notifier : CommitWithoutNotifying(S)
  BY <1>q, <1>10 DEF OtherCommit, NotifyOthers, Refresh, BeginTransaction, BeginWhileSending, CommitWrite,
     CancelTransaction, Invalidate, ReadGroup, CommitWithoutNotifying, vars, notifier, worker
<1> QED BY <1>1, <1>2, <1>3, <1>4, <1>5, <1>6, <1>7, <1>8, <1>9, <1>10 DEF Next, Work, Deliver, Use

\* What a handover does to the versions of the notifiers that have run.
LEMMA HandOverVersions ==
    ASSUME Inv, HandOverSkipVersion \/ HandOverLast
    PROVE  \E v \in Version :
              /\ v <= latest
              /\ v = (IF pass = "skip" THEN over ELSE final)
              /\ \A n \in Notifier : hasRun'[n] /\ n \in Listed =>
                    version'[n] = v /\ (hasRun[n] => version[n] <= v)
<1>i. TypeOK /\ ListsAreExact /\ VersionsAgree /\ Version \subseteq Nat
  BY VersionType DEF Inv
<1>1. CASE HandOverSkipVersion
  <2>1. /\ pass = "skip"
        /\ \A n \in Notifier : /\ hasRun'[n] <=> hasRun[n] \/ n \in old
                              /\ version'[n] = IF n \in old THEN over ELSE version[n]
    BY <1>i, <1>1 DEF HandOverSkipVersion, PrepareHandover, TypeOK
  <2>2. over \in Version /\ over <= final /\ final <= latest /\ over <= latest
    BY <1>i, <2>1 DEF TypeOK, VersionsAgree, Running
  <2>3. ASSUME NEW n \in Notifier, hasRun'[n], n \in Listed PROVE n \in old /\ hasRun[n]
    BY <1>i, <2>1, <2>3 DEF ListsAreExact, Running
  <2> QED BY <1>i, <2>1, <2>2, <2>3 DEF VersionsAgree
<1>2. CASE HandOverLast
  <2>1. /\ pass = "last"
        /\ \A n \in Notifier : version'[n] = IF n \in Listed THEN final ELSE version[n]
    BY <1>i, <1>2 DEF HandOverLast, PrepareHandover, TypeOK, ListsAreExact, Running
  <2> QED BY <1>i, <2>1 DEF TypeOK, VersionsAgree, Running
<1> QED BY <1>1, <1>2

LEMMA VersionsStep == Inv /\ [Next]_vars => VersionsAgree'
<1> SUFFICES ASSUME Inv, [Next]_vars PROVE VersionsAgree'
  OBVIOUS
<1>i. TypeOK /\ ListsAreExact /\ VersionsAgree /\ Version \subseteq Nat /\ 0 \in Version
  BY VersionType DEF Inv
<1>q. ASSUME UNCHANGED <<status, hasRun, version, pass, final, over, old, skip>>, latest' = latest
      PROVE  VersionsAgree'
  BY <1>i, <1>q DEF VersionsAgree, Running, Listed
<1>1. CASE RunAsyncNotifiers
  <2>1. UNCHANGED <<latest, hasRun, version>> /\ pass = "idle"
    BY <1>1 DEF RunAsyncNotifiers
  <2>2. CASE Mine = {}
    <3>1. status' = CleanedUp(status) /\ pass' = "tell" /\ skip' = SkipAfterCleanUp
      BY <1>1, <2>2 DEF RunAsyncNotifiers
    <3>2. \A n \in Notifier : n \in Listed' <=> n \in Listed \ Dead
      BY <3>1, CleanUpLemma DEF Listed
    <3> QED BY <1>i, <2>1, <3>1, <3>2, CleanUpLemma DEF VersionsAgree, Running, TypeOK, Listed
  <2>3. CASE Mine # {}
    <3>1. /\ \A n \in Notifier : status'[n] = IF n \in Mine THEN "listed" ELSE CleanedUp(status)[n]
          /\ final' = latest /\ over' = SkipAfterCleanUp /\ skip' = 0 /\ old' = Listed \ Dead
          /\ pass' = IF SkipAfterCleanUp # 0 THEN "skip" ELSE "last"
      BY <1>1, <2>3 DEF RunAsyncNotifiers
    <3>2. \A n \in Notifier : n \in Listed' /\ hasRun[n] => n \in Listed
      BY <1>i, <3>1, CleanUpLemma DEF Listed, Mine, Registered, ListsAreExact
    <3>3. \A n \in Notifier : n \in Listed' <=> status'[n] = "listed"
      BY DEF Listed
    <3>4. pass' = "skip" => over' # 0 /\ over' <= final' /\ old' # {} /\ over' = skip
      BY <1>i, <3>1, CleanUpLemma DEF VersionsAgree
    <3>5. ASSUME NEW n \in Listed', hasRun'[n]
          PROVE  /\ version'[n] <= latest' /\ version'[n] <= final'
                 /\ pass' = "skip" => version'[n] <= over'
                 /\ n \in Listed /\ hasRun[n] /\ version'[n] = version[n]
      <4>1. n \in Listed /\ hasRun[n] /\ n \in Notifier
        BY <2>1, <3>2, <3>5 DEF Listed
      <4>2. version[n] <= latest /\ (skip # 0 => version[n] < skip) /\ version[n] \in Nat /\ skip \in Nat
        <5>1. version[n] <= latest /\ (skip # 0 => version[n] < skip)
          BY <4>1, <1>i DEF VersionsAgree
        <5>2. version[n] \in Nat /\ skip \in Nat
          BY <4>1, <1>i DEF TypeOK
        <5> QED BY <5>1, <5>2
      <4> QED BY <2>1, <3>1, <3>4, <4>1, <4>2
    <3>6. \A m, n \in Listed' : hasRun'[m] /\ hasRun'[n] => version'[m] = version'[n]
      BY <1>i, <3>5 DEF VersionsAgree
    <3> QED BY <1>i, <2>1, <3>1, <3>4, <3>5, <3>6 DEF VersionsAgree, Running, TypeOK
  <2> QED BY <2>2, <2>3
<1>2. ASSUME NEW m \in Notifier, Run(m) PROVE VersionsAgree'
  BY <1>q, <1>2, RunStep DEF file
<1>3. CASE HandOverSkipVersion
  <2>1. UNCHANGED <<status, latest, skip, final, over, old>> /\ pass = "skip" /\ pass' = "last"
    BY <1>3 DEF HandOverSkipVersion, file
  <2>2. over <= final /\ final <= latest /\ (skip # 0 => final < skip /\ Listed # {} /\ skip <= latest)
        /\ over \in Nat /\ final \in Nat /\ skip \in Nat
    BY <1>i, <2>1 DEF VersionsAgree, Running, TypeOK
  <2>3. /\ over <= latest
        /\ \A n \in Notifier : hasRun'[n] /\ n \in Listed => version'[n] = over
    BY <1>3, <2>1, HandOverVersions
  <2>4. Listed' = Listed /\ \A n \in Listed : hasRun'[n] => version'[n] = over
    BY <2>1, <2>3 DEF Listed
  <2>5. \A n \in Listed' : hasRun'[n] =>
           /\ version'[n] <= latest' /\ version'[n] <= final' /\ (skip' # 0 => version'[n] < skip')
    BY <2>1, <2>2, <2>3, <2>4
  <2>6. \A m, n \in Listed' : hasRun'[m] /\ hasRun'[n] => version'[m] = version'[n]
    BY <2>4
  <2> QED BY <2>1, <2>2, <2>4, <2>5, <2>6 DEF VersionsAgree, Running
<1>4. CASE HandOverLast
  <2>1. /\ status' = CleanedUp(status) /\ skip' = SkipAfterCleanUp /\ latest' = latest /\ final' = final
        /\ pass = "last" /\ pass' = "tell"
    BY <1>4 DEF HandOverLast
  <2>2. \A n \in Notifier : n \in Listed' <=> n \in Listed \ Dead
    BY <2>1, CleanUpLemma DEF Listed
  <2>3. PICK v \in Version :
           /\ v <= latest
           /\ \A n \in Notifier : hasRun'[n] /\ n \in Listed => version'[n] = v
           /\ skip # 0 => v < skip
    <3>1. skip # 0 => final < skip
      BY <1>i, <2>1 DEF VersionsAgree, Running
    <3> QED BY <1>4, <2>1, <3>1, HandOverVersions
  <2>4. \A n \in Listed' : hasRun'[n] => version'[n] = v
    BY <2>2, <2>3 DEF Listed
  <2>5. SkipAfterCleanUp # 0 => Listed' # {} /\ skip <= latest /\ SkipAfterCleanUp = skip
    BY <1>i, <2>2, CleanUpLemma DEF VersionsAgree, Listed
  <2> QED BY <1>i, <2>1, <2>3, <2>4, <2>5 DEF VersionsAgree, Running
<1>5. CASE TellRealm
  BY <1>i, <1>5 DEF TellRealm, VersionsAgree, Running, notifier, Listed, file
<1>6. ASSUME NEW n \in Notifier, RegisterNotifier(n) PROVE VersionsAgree'
  <2>1. /\ UNCHANGED <<latest, skip, pass, final, over, old, hasRun>>
        /\ Listed' = Listed /\ \A m \in Listed : version'[m] = version[m]
    BY <1>i, <1>6 DEF RegisterNotifier, Listed, TypeOK, file, worker
  <2> QED BY <1>i, <2>1 DEF VersionsAgree, Running
<1>7. ASSUME NEW n \in Notifier, Unregister(n) \/ AddCallback(n) \/ RemoveCallback(n) \/ Call(n)
      PROVE  VersionsAgree'
  BY <1>q, <1>7 DEF Unregister, AddCallback, RemoveCallback, Call, notifier, worker, file
<1>8. CASE Notify \/ Advance \/ RefreshAnew \/ EndSending
  BY <1>q, <1>8 DEF Notify, Advance, RefreshAnew, EndSending, notifier, worker, file
<1>9. CASE OtherCommit \/ CommitWrite
  <2>1. /\ UNCHANGED <<status, hasRun, version, pass, final, over, old>> /\ latest' = latest + 1
        /\ skip' = skip \/ (skip' = latest + 1 /\ Listed # {})
    BY <1>9 DEF OtherCommit, CommitWrite, notifier, worker
  <2>2. \A n \in Notifier : version[n] \in Nat
    BY <1>i DEF TypeOK
  <2>3. latest \in Nat /\ final \in Nat /\ over \in Nat /\ skip \in Nat
    BY <1>i DEF TypeOK
  <2> QED BY <1>i, <2>1, <2>2, <2>3 DEF VersionsAgree, Running, Listed
<1>10. CASE \/ NotifyOthers \/ Refresh \/ BeginTransaction \/ BeginWhileSending
            \/ CancelTransaction \/ Invalidate \/ ReadGroup \/ UNCHANGED vars
            \/ \E S \in SUBSET Notifier : CommitWithoutNotifying(S)
  BY <1>q, <1>10 DEF NotifyOthers, Refresh, BeginTransaction, BeginWhileSending,
     CancelTransaction, Invalidate, ReadGroup, CommitWithoutNotifying, vars, notifier, worker, file
<1> QED BY <1>1, <1>2, <1>3, <1>4, <1>5, <1>6, <1>7, <1>8, <1>9, <1>10 DEF Next, Work, Deliver, Use

-----------------------------------------------------------------------------
(* The transactions of the Realm and what it has been packaged for.        *)

LEMMA TransactionsStep == Inv /\ [Next]_vars => TransactionsFit'
<1> SUFFICES ASSUME Inv, [Next]_vars PROVE TransactionsFit'
  OBVIOUS
<1>i. TypeOK /\ ListsAreExact /\ TransactionsFit /\ Version \subseteq Nat /\ 0 \in Version
  BY VersionType DEF Inv
<1>n. latest \in Nat /\ read \in Nat /\ target \in Nat /\ MaxVersion \in Nat /\ latest # 0
  BY <1>i, NotifiersAssumption DEF TypeOK
<1>m. \A n \in Notifier : n \in Mine <=> alive[n]
  BY <1>i DEF Mine, Registered, ListsAreExact
<1>q. ASSUME UNCHANGED <<latest, read, reading, writing, doing, target, waitsFor, alive, moved>>,
             due' \subseteq due, sending' = sending
      PROVE  TransactionsFit'
  <2>1. Mine' = Mine
    <3>1. ListsAreExact'
      BY ListsStep
    <3> QED BY <1>i, <1>q, <3>1 DEF Mine, Registered, ListsAreExact
  <2> QED BY <1>i, <1>q, <2>1 DEF TransactionsFit
<1>1. CASE Work
  <2>1. ASSUME NEW n \in Notifier, Run(n) PROVE TransactionsFit'
    BY <1>q, <2>1, RunStep DEF file, realm, delivery
  <2>2. CASE RunAsyncNotifiers \/ HandOverSkipVersion \/ HandOverLast \/ TellRealm
    BY <1>q, <2>2 DEF RunAsyncNotifiers, HandOverSkipVersion, HandOverLast,
       TellRealm, PrepareHandover, realm, delivery, notifier, callback, history, file
  <2> QED BY <1>1, <2>1, <2>2 DEF Work
<1>2. CASE Notify
  <2>1. /\ UNCHANGED <<latest, reading, writing, doing, target, waitsFor, alive, status, moved>>
        /\ doing = "nothing"
    BY <1>2 DEF Notify, Free, file, notifier
  <2>2. read' <= latest /\ (writing => read' = read)
    <3>1. CASE read' = read
      BY <1>i, <3>1 DEF TransactionsFit
    <3>2. CASE ~writing /\ AdvanceToReady
      <4>1. CASE read' = latest
        BY <4>1, <3>2, <1>n
      <4>2. CASE \E w \in Version : AllAt(w) /\ read' = w
        BY <4>2, <3>2, HaveRunLemma DEF AllAt
      <4> QED BY <3>1, <3>2, <4>1, <4>2, ReadyStep
    <3> QED BY <1>2, <3>1, <3>2 DEF Notify
  <2>3. due' # {} => sending'
    BY <1>2, DeliveryStep DEF SendNothing, SendTo, callback
  <2> QED BY <1>i, <2>1, <2>2, <2>3 DEF TransactionsFit
<1>3. CASE Advance
  <2>1. /\ UNCHANGED <<latest, reading, alive, status>> /\ reading = TRUE /\ doing' = "nothing"
        /\ writing' = (doing = "begin") /\ moved' = FALSE
    BY <1>3, <1>i DEF Advance, file, notifier, TransactionsFit, TypeOK
  <2>2. read' <= latest /\ (writing' => read' = latest)
    <3>1. CASE read' = latest
      BY <1>n, <3>1
    <3>2. CASE \E w \in Version : AllAt(w) /\ w >= target /\ read' = w
      <4>1. PICK w \in Version : AllAt(w) /\ w >= target /\ read' = w
        BY <3>2
      <4>2. w <= latest /\ w \in Nat
        BY <4>1, <1>i, HaveRunLemma DEF AllAt
      <4>3. writing' => target = latest
        BY <1>i, <2>1 DEF TransactionsFit
      <4> QED BY <1>n, <4>1, <4>2, <4>3
    <3> QED BY <1>3, <3>1, <3>2, AdvanceStep
  <2>3. due' # {} => sending'
    BY <1>3, DeliveryStep DEF SendNothing, SendTo, callback
  <2> QED BY <1>i, <2>1, <2>2, <2>3 DEF TransactionsFit
<1>4. CASE RefreshAnew
  <2>1. due' # {} => sending'
    BY <1>4, DeliveryStep DEF SendNothing, SendTo, callback
  <2> QED BY <1>4, <1>i, <1>n, <2>1 DEF RefreshAnew, TransactionsFit, Free, file
<1>5. CASE EndSending
  BY <1>5, <1>i DEF EndSending, TransactionsFit, file, realm, history, notifier, Free
<1>6. ASSUME NEW n \in Notifier, Call(n) \/ AddCallback(n) \/ RemoveCallback(n) PROVE TransactionsFit'
  BY <1>6, <1>q DEF Call, AddCallback, RemoveCallback, file, realm, delivery, notifier
<1>7. ASSUME NEW n \in Notifier, RegisterNotifier(n) \/ Unregister(n) PROVE TransactionsFit'
  BY <1>7, <1>i DEF RegisterNotifier, Unregister, TransactionsFit, Free, file, realm, delivery, history
<1>8. CASE OtherCommit
  BY <1>8, <1>i, <1>n DEF OtherCommit, TransactionsFit, realm, delivery, notifier, history, Mine, Registered
<1>9. CASE Refresh
  BY <1>9, <1>i, <1>n DEF Refresh, WaitFor, TransactionsFit, file, realm, notifier, history, Mine, Registered
<1>10. CASE BeginTransaction
  BY <1>10, <1>i, <1>n DEF BeginTransaction, WaitFor, TransactionsFit, file, notifier, history, Mine, Registered
<1>11. CASE BeginWhileSending
  BY <1>11, <1>i, <1>n DEF BeginWhileSending, TransactionsFit, file, delivery, Free
<1>12. ASSUME NEW S \in SUBSET Notifier, CommitWithoutNotifying(S) PROVE TransactionsFit'
  BY <1>12, <1>i DEF CommitWithoutNotifying, TransactionsFit, file, realm
<1>13. CASE CommitWrite
  BY <1>13, <1>i, <1>n DEF CommitWrite, TransactionsFit
<1>14. CASE CancelTransaction \/ ReadGroup
  BY <1>14, <1>i, <1>n DEF CancelTransaction, ReadGroup, TransactionsFit, file, delivery, history, Free
<1>15. CASE Invalidate
  BY <1>15, <1>i, <1>n DEF Invalidate, TransactionsFit, file, delivery, Free
<1>16. CASE NotifyOthers \/ UNCHANGED vars
  BY <1>q, <1>16 DEF NotifyOthers, vars, file, realm, delivery, notifier, history
<1> QED BY <1>1, <1>2, <1>3, <1>4, <1>5, <1>6, <1>7, <1>8, <1>9, <1>10, <1>11, <1>12, <1>13, <1>14,
           <1>15, <1>16 DEF Next, Deliver, Use

LEMMA DueStep == Inv /\ [Next]_vars => DueAgreesWithRead'
<1> SUFFICES ASSUME Inv, [Next]_vars, (due # {} /\ reading /\ ~moved)' PROVE packed' = read'
  BY DEF DueAgreesWithRead
<1>i. TransactionsFit /\ DueAgreesWithRead
  BY DEF Inv
<1>q. ASSUME due # {}, UNCHANGED <<packed, read, reading, moved>> PROVE packed' = read'
  BY <1>i, <1>q DEF DueAgreesWithRead
<1>1. CASE Work \/ OtherCommit \/ NotifyOthers \/ UNCHANGED vars
  <2>1. ASSUME NEW n \in Notifier, Run(n) PROVE packed' = read'
    BY <1>q, <2>1, RunStep DEF realm, delivery
  <2>2. CASE \/ RunAsyncNotifiers \/ HandOverSkipVersion \/ HandOverLast \/ TellRealm
             \/ OtherCommit \/ NotifyOthers \/ UNCHANGED vars
    BY <1>q, <2>2 DEF RunAsyncNotifiers, HandOverSkipVersion, HandOverLast,
       TellRealm, PrepareHandover, realm, delivery, callback, history, OtherCommit, NotifyOthers, vars
  <2> QED BY <1>1, <2>1, <2>2 DEF Work
<1>2. CASE Notify
  <2>1. due = {} /\ reading' = reading /\ reading = TRUE
    BY <1>2, <1>i, DeliveryStep DEF Notify, TransactionsFit
  <2>2. CASE SendNothing
    BY <2>1, <2>2 DEF SendNothing
  <2>3. CASE read' = read /\ ProcessAvailableAsync(reading, read)
    BY <2>1, <2>2, <2>3, AvailableStep DEF SendTo
  <2>4. CASE AdvanceToReady
    BY <2>1, <2>2, <2>4, ReadyStep DEF SendTo
  <2> QED BY <1>2, <2>2, <2>3, <2>4 DEF Notify
<1>3. CASE Advance
  <2>1. due = {}
    BY <1>3, DeliveryStep
  <2> QED BY <1>3, <2>1, AdvanceStep DEF SendTo, SendNothing
<1>4. CASE RefreshAnew \/ BeginWhileSending \/ Invalidate \/ ReadGroup
  BY <1>i, <1>4 DEF RefreshAnew, BeginWhileSending, Invalidate, ReadGroup, TransactionsFit, history
<1>5. CASE EndSending \/ Refresh \/ BeginTransaction
  BY <1>5, <1>i DEF EndSending, Refresh, BeginTransaction, TransactionsFit
<1>6. ASSUME NEW n \in Notifier,
             Call(n) \/ AddCallback(n) \/ RemoveCallback(n) \/ RegisterNotifier(n) \/ Unregister(n)
      PROVE  packed' = read'
  BY <1>6, <1>q DEF Call, AddCallback, RemoveCallback, RegisterNotifier, Unregister, realm, delivery, history
<1>7. ASSUME NEW S \in SUBSET Notifier, CommitWithoutNotifying(S) PROVE packed' = read'
  BY <1>7, <1>q DEF CommitWithoutNotifying, realm
<1>8. CASE CommitWrite \/ CancelTransaction
  BY <1>8, <1>q DEF CommitWrite, CancelTransaction, delivery, history
<1> QED BY <1>1, <1>2, <1>3, <1>4, <1>5, <1>6, <1>7, <1>8 DEF Next, Deliver, Use

-----------------------------------------------------------------------------
(* The callbacks, and what the notifiers have found.                       *)

\* A handover, notifier by notifier.
LEMMA HandOverStep ==
    ASSUME Inv, HandOverSkipVersion \/ HandOverLast, NEW n \in Notifier
    PROVE  /\ UNCHANGED <<latest, read, reading, writing, doing, target, alive, rows, on, due, packed, moved>>
           /\ UNCHANGED <<toDeliver[n], initial[n], asked[n], rested[n], late[n]>>
           /\ hasRun[n] => hasRun'[n]
           /\ n \in (IF pass = "skip" THEN old ELSE old \cup new) =>
                 /\ hasRun'[n] /\ version'[n] = (IF pass = "skip" THEN over ELSE final)
                 /\ ~skipNext'[n] /\ changes'[n] = {}
                 /\ accumulated'[n] = IF on[n] THEN Accumulated(n) ELSE accumulated[n]
                 /\ settled'[n] = IF on[n] /\ skipNext[n] THEN settled[n] \cup changes[n] ELSE settled[n]
           /\ n \notin (IF pass = "skip" THEN old ELSE old \cup new) =>
                 /\ UNCHANGED <<hasRun[n], version[n], changes[n], accumulated[n], settled[n]>>
                 /\ skipNext'[n] = skipNext[n]
           /\ pass \in {"skip", "last"} /\ pass' = IF pass = "skip" THEN "last" ELSE "tell"
           /\ stage[n] = "ran" <=> n \in (IF pass = "skip" THEN old ELSE old \cup new)
           /\ stage'[n] # "ran" /\ (stage'[n] # "none" => stage'[n] = stage[n])
<1>i. TypeOK /\ StagesFit
  BY DEF Inv
<1>s. /\ pass \in {"skip", "last"} /\ pass' = IF pass = "skip" THEN "last" ELSE "tell"
      /\ stage[n] = "ran" <=> n \in (IF pass = "skip" THEN old ELSE old \cup new)
      /\ stage'[n] # "ran" /\ (stage'[n] # "none" => stage'[n] = stage[n])
  <2>1. CASE HandOverSkipVersion
    <3>1. /\ pass = "skip" /\ pass' = "last" /\ \A m \in old : stage[m] = "ran"
          /\ stage'[n] = IF n \in old THEN "none" ELSE stage[n]
      BY <2>1 DEF HandOverSkipVersion, PrepareHandover
    <3>2. n \notin old /\ stage[n] # "none" => stage[n] = "asked"
      BY <1>i, <3>1 DEF StagesFit
    <3> QED BY <3>1, <3>2
  <2>2. CASE HandOverLast
    <3>1. /\ pass = "last" /\ pass' = "tell" /\ \A m \in old \cup new : stage[m] = "ran"
          /\ stage'[n] = IF n \in old \cup new THEN "none" ELSE stage[n]
      BY <2>2 DEF HandOverLast, PrepareHandover
    <3>2. n \notin old \cup new => stage[n] = "none"
      BY <1>i DEF StagesFit
    <3> QED BY <3>1, <3>2
  <2> QED BY <2>1, <2>2
<1>1. CASE HandOverSkipVersion
  BY <1>1, <1>i, <1>s DEF HandOverSkipVersion, PrepareHandover, TypeOK, file, realm, delivery
<1>2. CASE HandOverLast
  <2>1. pass = "last" /\ pass' = "tell" /\ PrepareHandover(old \cup new, final)
        /\ UNCHANGED <<latest, read, reading, writing, doing, target, due, packed>>
    BY <1>2 DEF HandOverLast, realm, delivery
  <2>2. old \cup new \subseteq Notifier
    BY <1>i DEF TypeOK
  <2> QED BY <1>i, <1>s, <2>1, <2>2 DEF PrepareHandover, TypeOK
<1> QED BY <1>1, <1>2

\* A delivery, notifier by notifier.
LEMMA PackageStep ==
    ASSUME Inv, Notify \/ Advance \/ RefreshAnew, NEW n \in Notifier
    PROVE  /\ due = {}
           /\ UNCHANGED <<latest, skip, notifier, worker, on, initial, skipNext, asked, rested, late>>
           /\ \/ UNCHANGED <<accumulated[n], toDeliver[n], settled[n]>> /\ n \notin due'
              \/ /\ accumulated'[n] = {} /\ toDeliver'[n] = accumulated[n]
                 /\ settled'[n] = settled[n] \cup toDeliver[n]
                 /\ n \in HaveRun
                 /\ \/ n \notin due'
                    \/ packed' = version[n] /\ (initial[n] => accumulated[n] # {}) /\ on[n]
<1>i. TypeOK
  BY DEF Inv
<1>1. due = {} /\ UNCHANGED <<latest, skip, notifier, worker, on, initial, skipNext, asked, rested, late>>
  BY DeliveryStep
<1>2. CASE SendNothing
  BY <1>1, <1>2 DEF SendNothing, callback
<1>3. CASE Package(HaveRun) /\ UNCHANGED <<sending, due, packed>>
  BY <1>i, <1>1, <1>3 DEF Package, TypeOK
<1>4. ASSUME NEW w \in Version, AllAt(w), SendTo(HaveRun, w)
      PROVE  \/ UNCHANGED <<accumulated[n], toDeliver[n], settled[n]>> /\ n \notin due'
             \/ /\ accumulated'[n] = {} /\ toDeliver'[n] = accumulated[n]
                /\ settled'[n] = settled[n] \cup toDeliver[n]
                /\ n \in HaveRun
                /\ \/ n \notin due'
                   \/ packed' = version[n] /\ (initial[n] => accumulated[n] # {}) /\ on[n]
  BY <1>i, <1>4 DEF SendTo, Package, ToCall, AllAt, TypeOK
<1> QED BY <1>1, <1>2, <1>3, <1>4, DeliveryStep

LEMMA CallbacksStep == Inv /\ [Next]_vars => CallbacksFit'
<1> SUFFICES ASSUME Inv, [Next]_vars, NEW n \in Notifier
             PROVE  /\ status'[n] = "none" => ~on'[n]
                    /\ ~on'[n] => /\ accumulated'[n] = {} /\ toDeliver'[n] = {}
                                  /\ settled'[n] = {} /\ asked'[n] = {}
                                  /\ ~initial'[n] /\ ~skipNext'[n] /\ ~late'[n] /\ n \notin due'
                    /\ initial'[n] \/ n \in due' => hasRun'[n]
                    /\ ~hasRun'[n] => /\ changes'[n] = {} /\ accumulated'[n] = {}
                                      /\ toDeliver'[n] = {} /\ settled'[n] = {}
  BY DEF CallbacksFit
<1>s. status'[n] = "none" => ~on'[n]
  <2>1. ListsAreExact' /\ ListsAreExact /\ TypeOK /\ (status[n] = "none" => ~on[n])
    BY ListsStep DEF Inv, CallbacksFit
  <2>2. CASE RunAsyncNotifiers
    <3>1. on' = on /\ (status'[n] = "none" => status[n] = "none")
      BY <2>1, <2>2, CleanUpLemma DEF RunAsyncNotifiers, callback, TypeOK
    <3> QED BY <2>1, <3>1
  <2>3. CASE HandOverLast
    <3>1. on' = on /\ (status'[n] = "none" => status[n] = "none")
      BY <2>1, <2>3, CleanUpLemma DEF HandOverLast, PrepareHandover
    <3> QED BY <2>1, <3>1
  <2>4. ASSUME NEW m \in Notifier, AddCallback(m) PROVE status'[n] = "none" => ~on'[n]
    <3>1. status' = status /\ alive[m] /\ (n # m => on'[n] = on[n])
      BY <2>1, <2>4 DEF AddCallback, notifier, TypeOK
    <3> QED BY <2>1, <3>1 DEF ListsAreExact
  <2>5. ASSUME NEW m \in Notifier, RegisterNotifier(m) \/ RemoveCallback(m) PROVE status'[n] = "none" => ~on'[n]
    BY <2>1, <2>5 DEF RegisterNotifier, RemoveCallback, callback, notifier, TypeOK
  <2>6. CASE Notify \/ Advance \/ RefreshAnew
    BY <2>1, <2>6, DeliveryStep DEF notifier
  <2>7. CASE \/ HandOverSkipVersion \/ TellRealm
             \/ OtherCommit \/ NotifyOthers \/ EndSending \/ Refresh \/ BeginTransaction \/ BeginWhileSending
             \/ CommitWrite \/ CancelTransaction \/ Invalidate \/ ReadGroup \/ UNCHANGED vars
             \/ \E S \in SUBSET Notifier : CommitWithoutNotifying(S)
             \/ \E m \in Notifier : Unregister(m) \/ Call(m)
    <3>1. status' = status /\ on' = on
      BY <2>7 DEF HandOverSkipVersion, TellRealm, PrepareHandover,
         OtherCommit, NotifyOthers, EndSending, Refresh, BeginTransaction, BeginWhileSending,
         CommitWrite, CancelTransaction, Invalidate, ReadGroup, vars, CommitWithoutNotifying, Unregister, Call,
         callback, notifier
    <3> QED BY <2>1, <3>1
  <2>8. ASSUME NEW m \in Notifier, Run(m) PROVE status'[n] = "none" => ~on'[n]
    BY <2>1, <2>8, RunStep DEF callback
  <2> QED BY <2>2, <2>3, <2>4, <2>5, <2>6, <2>7, <2>8 DEF Next, Work, Deliver, Use
<1> DEFINE Goal == /\ ~on'[n] => /\ accumulated'[n] = {} /\ toDeliver'[n] = {}
                                 /\ settled'[n] = {} /\ asked'[n] = {}
                                 /\ ~initial'[n] /\ ~skipNext'[n] /\ ~late'[n] /\ n \notin due'
                   /\ initial'[n] \/ n \in due' => hasRun'[n]
                   /\ ~hasRun'[n] => /\ changes'[n] = {} /\ accumulated'[n] = {}
                                     /\ toDeliver'[n] = {} /\ settled'[n] = {}
<1>i. TypeOK
  BY DEF Inv
<1>c. /\ ~on[n] => /\ accumulated[n] = {} /\ toDeliver[n] = {} /\ settled[n] = {} /\ asked[n] = {}
                   /\ ~initial[n] /\ ~skipNext[n] /\ ~late[n] /\ n \notin due
      /\ initial[n] \/ n \in due => hasRun[n]
      /\ ~hasRun[n] => /\ changes[n] = {} /\ accumulated[n] = {} /\ toDeliver[n] = {} /\ settled[n] = {}
  BY DEF Inv, CallbacksFit
<1>q. ASSUME UNCHANGED <<on, accumulated, toDeliver, settled, asked, initial, skipNext, late, due, hasRun, changes>>
      PROVE  Goal
  BY <1>c, <1>q
<1>1. CASE RunAsyncNotifiers \/ TellRealm
  BY <1>s, <1>q, <1>1 DEF RunAsyncNotifiers, TellRealm, callback, delivery, history, notifier
<1>2. ASSUME NEW m \in Notifier, Run(m) PROVE Goal
  <2>1. /\ UNCHANGED <<on, accumulated, toDeliver, settled, asked, initial, skipNext, late, due, hasRun>>
        /\ ~hasRun[n] => changes'[n] = changes[n]
    BY <1>2, RunStep DEF callback, delivery
  <2> QED BY <1>c, <2>1
<1>3. CASE HandOverSkipVersion \/ HandOverLast
  BY <1>s, <1>3, <1>c, HandOverStep
<1>4. CASE Notify \/ Advance \/ RefreshAnew
  <2>1. n \in HaveRun => hasRun[n]
    BY HaveRunLemma
  <2> QED BY <1>s, <1>4, <1>c, <2>1, PackageStep DEF notifier
<1>5. ASSUME NEW m \in Notifier, Call(m) PROVE Goal
  <2>1. /\ UNCHANGED <<on, accumulated, asked, skipNext, late, hasRun, changes>> /\ m \in due
        /\ due' \subseteq due
    BY <1>5 DEF Call, notifier
  <2>2. n # m => UNCHANGED <<toDeliver[n], initial[n], settled[n]>>
    BY <1>5, <1>i DEF Call, TypeOK
  <2> QED BY <1>c, <2>1, <2>2
<1>6. ASSUME NEW m \in Notifier, AddCallback(m) PROVE Goal
  <2>1. /\ UNCHANGED <<accumulated, toDeliver, settled, asked, initial, skipNext, due, hasRun, changes>>
        /\ n # m => on'[n] = on[n] /\ late'[n] = late[n]
        /\ n = m => on'[n]
    BY <1>6, <1>i DEF AddCallback, TypeOK, notifier, delivery
  <2> QED BY <1>c, <2>1
<1>7. ASSUME NEW m \in Notifier, RemoveCallback(m) PROVE Goal
  <2>1. /\ UNCHANGED <<hasRun, changes>>
        /\ n # m => /\ UNCHANGED <<on[n], late[n], accumulated[n], toDeliver[n], settled[n], asked[n],
                                   initial[n], skipNext[n]>>
                    /\ n \in due' => n \in due
        /\ n = m => /\ accumulated'[n] = {} /\ toDeliver'[n] = {} /\ settled'[n] = {} /\ asked'[n] = {}
                    /\ ~initial'[n] /\ ~skipNext'[n] /\ ~late'[n] /\ n \notin due'
    BY <1>7, <1>i DEF RemoveCallback, TypeOK, notifier
  <2> QED BY <1>c, <2>1
<1>8. ASSUME NEW S \in SUBSET Notifier, CommitWithoutNotifying(S) PROVE Goal
  <2>1. UNCHANGED <<on, accumulated, toDeliver, settled, initial, late, due, hasRun, changes>>
    BY <1>8 DEF CommitWithoutNotifying, notifier
  <2>2. ~on[n] => skipNext'[n] = skipNext[n] /\ asked'[n] = asked[n]
    BY <1>8, <1>i DEF CommitWithoutNotifying, TypeOK
  <2> QED BY <1>c, <2>1, <2>2
<1>9. CASE \/ OtherCommit \/ NotifyOthers \/ EndSending \/ Refresh \/ BeginTransaction \/ BeginWhileSending
           \/ CommitWrite \/ CancelTransaction \/ Invalidate \/ ReadGroup \/ UNCHANGED vars
           \/ \E m \in Notifier : RegisterNotifier(m) \/ Unregister(m)
  BY <1>s, <1>q, <1>9 DEF OtherCommit, NotifyOthers, EndSending, Refresh, BeginTransaction, BeginWhileSending,
     CommitWrite, CancelTransaction, Invalidate, ReadGroup, vars, RegisterNotifier, Unregister,
     callback, delivery, history, notifier
<1> QED BY <1>s, <1>1, <1>2, <1>3, <1>4, <1>5, <1>6, <1>7, <1>8, <1>9 DEF Next, Work, Deliver, Use

LEMMA StagesStep == Inv /\ [Next]_vars => StagesFit'
<1> DEFINE Fits(n) ==
              /\ stage[n] # "none" => Running /\ n \in old \cup new
              /\ n \in new => stage[n] # "none" /\ (pass = "skip" => stage[n] = "asked")
              /\ n \in tracked => stage[n] \in {"asked", "running"}
              /\ stage[n] \in {"asked", "running"} /\ hasRun[n] /\ on[n] /\ ~late[n] => n \in tracked
<1> SUFFICES ASSUME Inv, [Next]_vars, NEW n \in Notifier PROVE Fits(n)'
  BY DEF StagesFit
<1>i. TypeOK /\ ListsAreExact
  BY DEF Inv
<1>t. Fits(n)
  BY DEF Inv, StagesFit
<1>q. ASSUME UNCHANGED <<stage, tracked, pass, old, new, hasRun>>,
             on'[n] /\ ~late'[n] => (on[n] /\ ~late[n]) \/ n \in tracked \/ ~hasRun[n]
      PROVE  Fits(n)'
  BY <1>t, <1>q DEF Running
<1>1. CASE RunAsyncNotifiers
  <2>1. stage[n] = "none" /\ n \notin tracked /\ tracked' = tracked /\ hasRun' = hasRun /\ new = {}
    BY <1>1, <1>t, <1>i DEF RunAsyncNotifiers, Running, ListsAreExact
  <2>2. CASE Mine = {}
    <3>1. UNCHANGED <<stage, old, new>>
      BY <1>1, <2>2 DEF RunAsyncNotifiers
    <3> QED BY <2>1, <3>1
  <2>3. CASE Mine # {}
    <3>1. stage'[n] = (IF n \in new' THEN "asked" ELSE "none") /\ pass' \in {"skip", "last"}
      BY <1>1, <2>3 DEF RunAsyncNotifiers
    <3>2. n \in new' => ~hasRun'[n]
      BY ListsStep DEF ListsAreExact
    <3> QED BY <2>1, <3>1, <3>2 DEF Running
  <2> QED BY <2>2, <2>3
<1>2. ASSUME NEW m \in Notifier, Run(m) PROVE Fits(n)'
  <2>1. /\ UNCHANGED <<on, late, hasRun, pass, old, new>> /\ Running /\ Running'
        /\ n # m => stage'[n] = stage[n] /\ (n \in tracked' <=> n \in tracked)
    BY <1>2, RunStep DEF callback, Running
  <2>2. CASE n # m
    BY <1>t, <2>1, <2>2
  <2>3. CASE n = m /\ AddRequiredChangeInfo(m)
    <3>1. /\ n \in old /\ stage[n] = "none" /\ stage'[n] = "asked"
          /\ n \in tracked' <=> n \in tracked \/ (hasRun[n] /\ on[n])
      BY <1>i, <2>3 DEF AddRequiredChangeInfo, TypeOK
    <3> QED BY <1>t, <2>1, <3>1
  <2>4. CASE n = m /\ NeedToRun(m)
    <3>1. /\ n \in Travelling /\ stage[n] = "asked"
          /\ \/ stage'[n] = "running" /\ tracked' = tracked
             \/ stage'[n] = "ran" /\ n \notin tracked'
      BY <1>i, <2>4 DEF NeedToRun, TypeOK
    <3>2. n \in new => pass # "skip"
      BY <1>i, <2>1, <3>1 DEF ListsAreExact, Travelling
    <3> QED BY <1>t, <2>1, <3>1, <3>2
  <2>5. CASE n = m /\ CalculateChanges(m)
    <3>1. stage[n] = "running" /\ stage'[n] = "ran" /\ n \notin tracked'
      BY <1>i, <2>5 DEF CalculateChanges, TypeOK
    <3> QED BY <1>t, <2>1, <3>1
  <2> QED BY <1>2, <2>2, <2>3, <2>4, <2>5 DEF Run
<1>3. CASE HandOverSkipVersion \/ HandOverLast
  <2>1. /\ tracked' = tracked
        /\ \/ pass = "skip" /\ pass' = "last" /\ UNCHANGED <<old, new>>
           \/ pass = "last" /\ pass' = "tell" /\ new' = {}
    BY <1>3 DEF HandOverSkipVersion, HandOverLast
  <2>2. /\ stage'[n] # "none" => stage'[n] = stage[n] /\ hasRun'[n] = hasRun[n]
        /\ UNCHANGED <<on[n], late[n]>>
        /\ stage[n] = "ran" <=> n \in (IF pass = "skip" THEN old ELSE old \cup new)
        /\ stage'[n] # "ran"
    BY <1>3, HandOverStep
  <2>3. stage'[n] = (IF n \in (IF pass = "skip" THEN old ELSE old \cup new) THEN "none" ELSE stage[n])
    BY <1>3, <2>1 DEF HandOverSkipVersion, HandOverLast, PrepareHandover
  <2>4. n \in old => n \notin new \/ pass # "skip"
    BY <1>i, <1>t, <2>2
  <2> QED BY <1>t, <2>1, <2>2, <2>3, <2>4 DEF Running
<1>4. CASE TellRealm
  BY <1>t, <1>4 DEF TellRealm, Running, notifier, callback, history
<1>5. CASE Notify \/ Advance \/ RefreshAnew
  <2>1. UNCHANGED <<notifier, worker, on, late>>
    BY <1>5, DeliveryStep
  <2> QED BY <1>q, <2>1 DEF notifier, worker
<1>6. ASSUME NEW m \in Notifier, AddCallback(m) PROVE Fits(n)'
  <2>1. /\ UNCHANGED <<stage, tracked, pass, old, new, hasRun>>
        /\ n # m => on'[n] = on[n] /\ late'[n] = late[n]
        /\ n = m => (late'[n] <=> MayMiss(n))
    BY <1>6, <1>i DEF AddCallback, notifier, worker, TypeOK
  <2>2. CASE n # m
    BY <1>q, <2>1, <2>2
  <2>3. CASE n = m
    BY <1>t, <2>1, <2>3 DEF MayMiss, Running
  <2> QED BY <2>2, <2>3
<1>7. ASSUME NEW m \in Notifier, RemoveCallback(m) PROVE Fits(n)'
  <2>1. on'[n] => on[n] /\ late'[n] = late[n]
    BY <1>7, <1>i DEF RemoveCallback, TypeOK
  <2> QED BY <1>7, <1>q, <2>1 DEF RemoveCallback, notifier, worker
<1>8. CASE \/ OtherCommit \/ NotifyOthers \/ EndSending \/ Refresh \/ BeginTransaction \/ BeginWhileSending
           \/ CommitWrite \/ CancelTransaction \/ Invalidate \/ ReadGroup \/ UNCHANGED vars
           \/ \E S \in SUBSET Notifier : CommitWithoutNotifying(S)
           \/ \E m \in Notifier : Call(m) \/ RegisterNotifier(m) \/ Unregister(m)
  <2>1. UNCHANGED <<stage, tracked, pass, old, new, hasRun, on, late>>
    BY <1>8 DEF OtherCommit, NotifyOthers, EndSending, Refresh, BeginTransaction, BeginWhileSending,
     CommitWrite, CancelTransaction, Invalidate, ReadGroup, vars, CommitWithoutNotifying, Call,
     RegisterNotifier, Unregister, callback, history, notifier, worker
  <2> QED BY <1>q, <2>1
<1> QED BY <1>1, <1>2, <1>3, <1>4, <1>5, <1>6, <1>7, <1>8 DEF Next, Work, Deliver, Use

LEMMA RowsStep == Inv /\ [Next]_vars => RowsAreCurrent'
<1> SUFFICES ASSUME Inv, [Next]_vars, NEW n \in Notifier, alive'[n], ~rested'[n]
             PROVE  /\ hasRun'[n] =>
                          /\ rows'[n] <= HasReached(n)'
                          /\ Changes(rows'[n], HasReached(n)') = {}
                          /\ changes'[n] \subseteq Changes(version'[n], HasReached(n)')
                          /\ on'[n] /\ ~late'[n] => changes'[n] = Changes(version'[n], HasReached(n)')
                    /\ stage'[n] = "ran" /\ n \in new' => rows'[n] = final'
  BY DEF RowsAreCurrent
<1> DEFINE Goal == /\ hasRun'[n] =>
                          /\ rows'[n] <= HasReached(n)'
                          /\ Changes(rows'[n], HasReached(n)') = {}
                          /\ changes'[n] \subseteq Changes(version'[n], HasReached(n)')
                          /\ on'[n] /\ ~late'[n] => changes'[n] = Changes(version'[n], HasReached(n)')
                   /\ stage'[n] = "ran" /\ n \in new' => rows'[n] = final'
           Now == /\ hasRun[n] =>
                        /\ rows[n] <= HasReached(n)
                        /\ Changes(rows[n], HasReached(n)) = {}
                        /\ changes[n] \subseteq Changes(version[n], HasReached(n))
                        /\ on[n] /\ ~late[n] => changes[n] = Changes(version[n], HasReached(n))
                  /\ stage[n] = "ran" /\ n \in new => rows[n] = final
<1>i. TypeOK /\ ListsAreExact /\ VersionsAgree /\ CallbacksFit /\ StagesFit
  BY DEF Inv
<1>v. /\ version[n] \in Version /\ rows[n] \in Version /\ over \in Version /\ final \in Version
      /\ Version \subseteq Nat
  BY <1>i, VersionType DEF TypeOK
<1>n. alive[n] /\ ~rested[n] => Now
  BY DEF Inv, RowsAreCurrent
<1>q. ASSUME UNCHANGED <<rows, changes, version, hasRun, pass, new, over, final, stage>>,
             alive[n], ~rested[n], on'[n] /\ ~late'[n] => on[n] /\ ~late[n]
      PROVE  Goal
  BY <1>n, <1>q DEF HasReached, Destination
<1>l. ASSUME hasRun[n], alive[n] PROVE n \in Listed /\ version[n] <= latest
  BY <1>i, <1>l DEF ListsAreExact, VersionsAgree, Listed
<1>1. CASE RunAsyncNotifiers
  <2>1. /\ UNCHANGED <<alive, rows, changes, version, hasRun, on, late, rested>>
        /\ stage[n] = "none" /\ stage'[n] # "ran"
    BY <1>1, <1>i DEF RunAsyncNotifiers, callback, history, StagesFit, Running
  <2> QED BY <1>n, <2>1 DEF HasReached
<1>2. ASSUME NEW m \in Notifier, Run(m) PROVE Goal
  <2>1. /\ UNCHANGED <<alive, version, hasRun, on, late, new, over, final, pass>> /\ Destination' = Destination
        /\ Running /\ ~rested[n]
        /\ n # m => UNCHANGED <<stage[n], rows[n], changes[n]>>
    BY <1>2, RunStep DEF callback, Destination
  <2>2. Now
    BY <2>1, <1>n
  <2>3. CASE n # m
    BY <2>1, <2>2, <2>3 DEF HasReached
  <2>4. Destination \in Version /\ (hasRun[n] => version[n] <= Destination)
    <3>1. CASE hasRun[n]
      BY <1>i, <1>l, <1>v, <2>1, <3>1 DEF VersionsAgree, Destination
    <3> QED BY <1>v, <3>1 DEF Destination
  <2>5. ASSUME stage[n] # "ran", hasRun[n]
        PROVE  /\ rows[n] <= version[n] /\ Changes(rows[n], version[n]) = {} /\ changes[n] = {}
               /\ Changes(rows[n], Destination) = Changes(version[n], Destination) /\ rows[n] <= Destination
    <3>1. HasReached(n) = version[n] /\ Changes(version[n], version[n]) = {}
      BY <1>v, <2>5, SameVersion DEF HasReached
    <3>2. rows[n] <= version[n] /\ Changes(rows[n], version[n]) = {} /\ changes[n] = {}
      BY <2>2, <2>5, <3>1
    <3> QED BY <1>v, <2>4, <2>5, <3>2, NothingBetween
  <2>6. CASE n = m /\ AddRequiredChangeInfo(m)
    <3>1. UNCHANGED <<rows, changes>> /\ stage[n] # "ran" /\ stage'[n] # "ran"
      BY <1>i, <2>6 DEF AddRequiredChangeInfo, TypeOK, notifier
    <3> QED BY <2>1, <2>2, <3>1 DEF HasReached
  <2>7. CASE n = m /\ NeedToRun(m)
    <3>1. /\ UNCHANGED <<rows, changes>> /\ stage[n] # "ran"
          /\ \/ stage'[n] # "ran"
             \/ /\ stage'[n] = "ran" /\ n \notin new
                /\ hasRun[n] => Changes(rows[n], Destination) = {}
      <4>1. UNCHANGED <<rows, changes>> /\ stage[n] = "asked"
        BY <2>7 DEF NeedToRun, notifier
      <4>2. PICK wanted \in BOOLEAN :
               /\ n \in new => wanted
               /\ IF NeedsToRun(n, wanted)
                  THEN stage' = [stage EXCEPT ![n] = "running"]
                  ELSE /\ stage' = [stage EXCEPT ![n] = "ran"]
                       /\ rested' = [rested EXCEPT ![n] = @ \/ (hasRun[n] /\ Changes(rows[n], Destination) # {})]
        BY <2>7 DEF NeedToRun
      <4>3. CASE NeedsToRun(n, wanted)
        BY <1>i, <4>1, <4>2, <4>3 DEF TypeOK
      <4>4. CASE ~NeedsToRun(n, wanted)
        <5>1. hasRun[n] => Changes(rows[n], Destination) = {}
          BY <1>i, <4>2, <4>4 DEF TypeOK
        <5>2. n \notin new
          BY <1>i, <2>1, <4>2, <4>4 DEF NeedsToRun, ListsAreExact
        <5> QED BY <1>i, <4>1, <4>2, <4>4, <5>1, <5>2 DEF TypeOK
      <4> QED BY <4>3, <4>4
    <3>2. CASE stage'[n] # "ran"
      BY <2>1, <2>2, <3>1, <3>2 DEF HasReached
    <3>3. CASE stage'[n] = "ran"
      <4>1. HasReached(n)' = Destination
        BY <2>1, <3>3 DEF HasReached
      <4> QED BY <2>1, <2>5, <3>1, <3>3, <4>1
    <3> QED BY <3>2, <3>3
  <2>8. CASE n = m /\ CalculateChanges(m)
    <3>1. /\ stage[n] = "running" /\ stage'[n] = "ran" /\ rows'[n] = Destination
          /\ \E found \in SUBSET Changes(rows[n], Destination) :
                /\ n \in tracked => found = Changes(rows[n], Destination)
                /\ changes'[n] = IF hasRun[n] /\ on[n] THEN found ELSE changes[n]
      BY <1>i, <2>8 DEF CalculateChanges, TypeOK
    <3>2. HasReached(n)' = Destination
      <4>1. stage'[n] = "ran" /\ Destination' = Destination
        BY <2>1, <3>1
      <4> QED BY <4>1 DEF HasReached
    <3>5. Changes(Destination, Destination) = {} /\ Destination <= Destination
      <4>1. Changes(Destination, Destination) = {}
        BY <2>4, SameVersion
      <4>2. Destination \in Nat
        BY <2>4, VersionType
      <4> QED BY <4>1, <4>2
    <3>3. hasRun[n] /\ on[n] /\ ~late[n] => n \in tracked
      BY <1>i, <3>1 DEF StagesFit
    <3>4. n \in new => Destination = final
      BY <1>i, <3>1 DEF StagesFit, Destination
    <3> QED BY <2>1, <2>5, <3>1, <3>2, <3>3, <3>4, <3>5
  <2> QED BY <1>2, <2>3, <2>6, <2>7, <2>8 DEF Run
<1>3. CASE HandOverSkipVersion \/ HandOverLast
  <2>1. /\ alive[n] /\ ~rested[n] /\ Now /\ rows'[n] = rows[n]
        /\ HasReached(n)' = version'[n] /\ stage'[n] # "ran"
    BY <1>3, <1>n, HandOverStep DEF HasReached
  <2>2. CASE n \in (IF pass = "skip" THEN old ELSE old \cup new)
    <3>1. version'[n] = Destination /\ changes'[n] = {} /\ stage[n] = "ran"
      BY <1>3, <2>2, HandOverStep DEF Destination
    <3>2. rows[n] <= version'[n] /\ Changes(rows[n], version'[n]) = {}
      <4>1. CASE n \in old
        BY <1>i, <2>1, <3>1, <4>1 DEF HasReached, ListsAreExact
      <4>2. CASE n \in new
        <5>1. Destination = final
          BY <1>i, <3>1, <4>2 DEF StagesFit, Destination
        <5> QED BY <1>v, <2>1, <3>1, <4>2, <5>1, SameVersion
      <4> QED BY <2>2, <4>1, <4>2
    <3>3. Changes(version'[n], version'[n]) = {}
      BY <1>v, <3>1, SameVersion DEF Destination
    <3> QED BY <2>1, <3>1, <3>2, <3>3
  <2>3. CASE n \notin (IF pass = "skip" THEN old ELSE old \cup new)
    <3>1. UNCHANGED <<hasRun[n], version[n], changes[n], on, late[n]>> /\ stage[n] # "ran"
      BY <1>3, <2>3, HandOverStep
    <3>2. HasReached(n) = version[n]
      BY <3>1 DEF HasReached
    <3> QED BY <2>1, <3>1, <3>2
  <2> QED BY <2>2, <2>3
<1>4. CASE TellRealm
  BY <1>n, <1>4, <1>i DEF TellRealm, notifier, callback, history, HasReached, StagesFit, Running
<1>5. CASE Notify \/ Advance \/ RefreshAnew
  <2>1. UNCHANGED <<notifier, worker, on, rested, late>>
    BY <1>5, DeliveryStep
  <2> QED BY <1>q, <2>1 DEF notifier, worker
<1>6. ASSUME NEW m \in Notifier, RegisterNotifier(m) PROVE Goal
  <2>1. UNCHANGED <<hasRun, rows, changes, on, late, rested, pass, old, new, over, final, stage>> /\ status[m] = "none"
    BY <1>6 DEF RegisterNotifier, callback, history, worker
  <2>2. n # m => alive[n] /\ version'[n] = version[n]
    BY <1>6, <1>i DEF RegisterNotifier, TypeOK
  <2>3. CASE n = m
    <3>1. ~hasRun[n] /\ n \notin new
      <4>1. ~hasRun[n] /\ n \notin Listed
        BY <1>i, <2>1, <2>3 DEF ListsAreExact, Listed
      <4> QED BY <1>i, <4>1 DEF ListsAreExact
    <3> QED BY <2>1, <3>1
  <2> QED BY <1>n, <2>1, <2>2, <2>3 DEF HasReached, Destination
<1>7. ASSUME NEW m \in Notifier, AddCallback(m) PROVE Goal
  <2>1. /\ UNCHANGED <<alive, rested, rows, changes, version, hasRun, pass, new, over, final, stage>>
    BY <1>7 DEF AddCallback, notifier, worker
  <2>2. CASE n # m
    BY <1>q, <1>7, <1>i, <2>1, <2>2 DEF AddCallback, TypeOK
  <2>3. CASE n = m
    <3>1. late'[n] <=> MayMiss(n)
      BY <1>7, <1>i, <2>3 DEF AddCallback, TypeOK
    <3>2. Now
      BY <1>n, <2>1
    <3>3. ~late'[n] /\ hasRun[n] => HasReached(n) = version[n]
      BY <3>1 DEF HasReached, MayMiss
    <3>4. Changes(version[n], version[n]) = {}
      BY <1>v, SameVersion
    <3>5. HasReached(n)' = HasReached(n)
      BY <2>1 DEF HasReached, Destination
    <3> QED BY <2>1, <3>2, <3>3, <3>4, <3>5
  <2> QED BY <2>2, <2>3
<1>8. ASSUME NEW m \in Notifier, RemoveCallback(m) PROVE Goal
  <2>1. UNCHANGED <<alive, rested, rows, changes, version, hasRun, pass, new, over, final, stage>>
    BY <1>8 DEF RemoveCallback, notifier, worker
  <2>2. on'[n] => on[n] /\ late'[n] = late[n]
    BY <1>8, <1>i DEF RemoveCallback, TypeOK
  <2> QED BY <1>q, <2>1, <2>2
<1>9. ASSUME NEW m \in Notifier, Unregister(m) PROVE Goal
  <2>1. UNCHANGED <<rested, rows, changes, version, hasRun, on, late, pass, new, over, final, stage>>
    BY <1>9 DEF Unregister, callback, worker, history
  <2>2. alive[n]
    BY <1>9, <1>i DEF Unregister, TypeOK
  <2> QED BY <1>q, <2>1, <2>2
<1>10. CASE \/ OtherCommit \/ NotifyOthers \/ EndSending \/ Refresh \/ BeginTransaction \/ BeginWhileSending
           \/ CommitWrite \/ CancelTransaction \/ Invalidate \/ ReadGroup \/ UNCHANGED vars
           \/ \E S \in SUBSET Notifier : CommitWithoutNotifying(S)
           \/ \E m \in Notifier : Call(m)
  <2>1. UNCHANGED <<alive, rested, rows, changes, version, hasRun, on, late, pass, new, over, final, stage>>
    BY <1>10 DEF OtherCommit, NotifyOthers, EndSending, Refresh, BeginTransaction, BeginWhileSending,
     CommitWrite, CancelTransaction, Invalidate, ReadGroup, vars, CommitWithoutNotifying, Call,
     callback, history, notifier, worker
  <2> QED BY <1>q, <2>1
<1> QED BY <1>1, <1>2, <1>3, <1>4, <1>5, <1>6, <1>7, <1>8, <1>9, <1>10 DEF Next, Work, Deliver, Use

\* What a handover does to a notifier that has run before.
LEMMA HandOverOld ==
    ASSUME Inv, HandOverSkipVersion \/ HandOverLast, NEW n \in Notifier, alive[n], hasRun[n]
    PROVE  /\ hasRun'[n] /\ ~skipNext'[n] /\ changes'[n] = {} /\ n \in Listed
           /\ version'[n] = HasReached(n)
           /\ version'[n] \in Version /\ version[n] <= version'[n] /\ version'[n] <= latest
           /\ accumulated'[n] = IF on[n] THEN Accumulated(n) ELSE accumulated[n]
           /\ settled'[n] = IF on[n] /\ skipNext[n] THEN settled[n] \cup changes[n] ELSE settled[n]
           /\ ~rested[n] => changes[n] \subseteq Changes(version[n], version'[n])
           /\ ~rested[n] /\ on[n] /\ ~late[n] => changes[n] = Changes(version[n], version'[n])
<1>i. TypeOK /\ ListsAreExact /\ RowsAreCurrent
  BY DEF Inv
<1>1. pass \in {"skip", "last"}
  BY HandOverStep
<1>2. n \in Listed /\ n \in old
  BY <1>i, <1>1 DEF ListsAreExact, Running, Listed
<1>3. /\ hasRun'[n] /\ ~skipNext'[n] /\ changes'[n] = {}
      /\ version'[n] = (IF pass = "skip" THEN over ELSE final)
      /\ accumulated'[n] = IF on[n] THEN Accumulated(n) ELSE accumulated[n]
      /\ settled'[n] = IF on[n] /\ skipNext[n] THEN settled[n] \cup changes[n] ELSE settled[n]
  BY <1>2, HandOverStep
<1>4. version'[n] = HasReached(n)
  BY <1>2, <1>3, HandOverStep DEF HasReached, Destination
<1>5. version'[n] \in Version /\ version[n] <= version'[n] /\ version'[n] <= latest
  BY <1>2, <1>3, HandOverVersions
<1>6. /\ ~rested[n] => changes[n] \subseteq Changes(version[n], version'[n])
      /\ ~rested[n] /\ on[n] /\ ~late[n] => changes[n] = Changes(version[n], version'[n])
  BY <1>i, <1>4 DEF RowsAreCurrent
<1> QED BY <1>2, <1>3, <1>4, <1>5, <1>6

-----------------------------------------------------------------------------
(* What a callback is told.                                                *)

\* What a callback has been told, will be told and may still be told, when
\* its notifier is at version v.
Known(s, t, a, v, first, called, p) ==
    /\ s \cup t \cup a \subseteq Changes(0, v)
    /\ called /\ ~first =>
          /\ p <= v
          /\ s \cup Changes(0, p) \cup a = Changes(0, v)
          /\ (s \cup Changes(0, p)) \cap a = {}
    /\ first =>
          /\ s \cup t \cup a = Changes(0, v)
          /\ s \cap t = {}
          /\ (s \cup t) \cap a = {}

\* The changes d between two versions reach the callback, or are spared it.
LEMMA KnownGrows ==
    ASSUME NEW s, NEW t, NEW a, NEW v \in Version, NEW w \in Version, NEW first, NEW called,
           NEW p \in Version, NEW s2, NEW a2, v <= w, Known(s, t, a, v, first, called, p),
           \/ s2 = s /\ a2 = a \cup Changes(v, w)
           \/ s2 = s \cup Changes(v, w) /\ a2 = a
    PROVE  Known(s2, t, a2, w, first, called, p)
<1>1. /\ Changes(0, w) = Changes(0, v) \cup Changes(v, w)
      /\ Changes(0, v) \cap Changes(v, w) = {}
  <2>1. 0 \in Version /\ 0 <= v
    BY VersionType
  <2> QED BY <2>1, ChangesLemma
<1>2. p <= v => p <= w
  BY VersionType
<1> QED BY <1>1, <1>2 DEF Known

\* What was to be told counts as told, what may be told is to be told.
LEMMA KnownPackaged ==
    ASSUME NEW s, NEW t, NEW a, NEW v \in Version, NEW first, NEW called, NEW p,
           Known(s, t, a, v, first, FALSE, p),
           NEW s2, NEW t2, NEW a2, s2 = s \cup t, t2 = a, a2 = {}
    PROVE  Known(s2, t2, a2, v, first, called, v)
<1>1. v <= v
  BY VersionType
<1> QED BY <1>1 DEF Known

LEMMA TellsStep == Inv /\ [Next]_vars => NothingTwice' /\ TellsExactly'
<1> DEFINE Told(n) == Known(settled[n], toDeliver[n], accumulated[n], version[n], initial[n],
                            n \in due, packed)
           Heard(n) == on[n] /\ alive[n] /\ hasRun[n] /\ ~rested[n] /\ ~late[n]
<1>0. Inv /\ [Next]_vars => \A n \in Notifier : initial'[n] => hasRun'[n]
  BY CallbacksStep DEF CallbacksFit
<1> SUFFICES ASSUME Inv, [Next]_vars, NEW n \in Notifier, Heard(n)' PROVE Told(n)'
  BY <1>0 DEF NothingTwice, TellsExactly, Exactly, Known
<1> HIDE DEF Told, Heard
<1>i. TypeOK /\ ListsAreExact /\ VersionsAgree /\ CallbacksFit
  BY DEF Inv
<1>t. Heard(n) => Told(n)
  BY DEF Inv, NothingTwice, TellsExactly, Exactly, Known, Told, Heard
<1>c. /\ ~on[n] => /\ accumulated[n] = {} /\ toDeliver[n] = {} /\ settled[n] = {}
                   /\ ~initial[n] /\ n \notin due
      /\ initial[n] \/ n \in due => hasRun[n]
      /\ ~hasRun[n] => changes[n] = {} /\ accumulated[n] = {} /\ toDeliver[n] = {} /\ settled[n] = {}
  BY <1>i DEF CallbacksFit
<1>e. ASSUME settled'[n] = {}, toDeliver'[n] = {}, accumulated'[n] = {}, ~initial'[n], n \notin due'
      PROVE  Told(n)'
  BY <1>e DEF Told, Known
<1>q. ASSUME UNCHANGED <<settled, toDeliver, accumulated, version, initial, due, packed>>,
             Heard(n)
      PROVE  Told(n)'
  BY <1>t, <1>q DEF Told
<1>1. CASE RunAsyncNotifiers \/ TellRealm
  BY <1>q, <1>1 DEF RunAsyncNotifiers, TellRealm, Heard, notifier, callback, delivery, history
<1>2. ASSUME NEW m \in Notifier, Run(m) PROVE Told(n)'
  <2>1. /\ UNCHANGED <<on, alive, hasRun, late, settled, toDeliver, accumulated, version, initial, due, packed>>
        /\ ~rested'[n] => ~rested[n]
    BY <1>2, RunStep DEF callback, delivery
  <2> QED BY <1>q, <2>1 DEF Heard
<1>3. CASE HandOverSkipVersion \/ HandOverLast
  <2>1. /\ UNCHANGED <<alive, on, due, packed, toDeliver[n], initial[n], rested[n], late[n]>>
        /\ pass \in {"skip", "last"}
    BY <1>3, HandOverStep
  <2>2. on[n] /\ alive[n] /\ ~rested[n] /\ ~late[n]
    BY <2>1 DEF Heard
  <2>3. CASE ~hasRun[n]
    <3>1. changes[n] = {} /\ accumulated[n] = {} /\ settled[n] = {} /\ toDeliver[n] = {}
          /\ ~initial[n] /\ n \notin due
      BY <1>c, <2>3
    <3>2. accumulated'[n] = {} /\ settled'[n] = {}
      BY <1>3, <3>1, HandOverStep DEF Accumulated
    <3> QED BY <1>e, <2>1, <3>1, <3>2
  <2>4. CASE hasRun[n]
    <3>1. Told(n)
      BY <1>t, <2>2, <2>4 DEF Heard
    <3>2. /\ version'[n] \in Version /\ version[n] <= version'[n]
          /\ accumulated'[n] = Accumulated(n)
          /\ settled'[n] = IF skipNext[n] THEN settled[n] \cup changes[n] ELSE settled[n]
          /\ changes[n] = Changes(version[n], version'[n])
      BY <1>3, <2>2, <2>4, HandOverOld
    <3>3. version[n] \in Version /\ packed \in Version
      BY <1>i DEF TypeOK
    <3>4. \/ settled'[n] = settled[n] /\ accumulated'[n] = accumulated[n] \cup Changes(version[n], version'[n])
          \/ settled'[n] = settled[n] \cup Changes(version[n], version'[n]) /\ accumulated'[n] = accumulated[n]
      BY <3>2 DEF Accumulated
    <3>5. Known(settled[n], toDeliver[n], accumulated[n], version[n], initial[n], n \in due, packed)
      BY <3>1 DEF Told
    <3>6. Known(settled'[n], toDeliver[n], accumulated'[n], version'[n], initial[n], n \in due, packed)
      BY <3>2, <3>3, <3>4, <3>5, KnownGrows
    <3> QED BY <2>1, <3>6 DEF Told
  <2> QED BY <2>3, <2>4
<1>4. CASE Notify \/ Advance \/ RefreshAnew
  <2>1. due = {} /\ UNCHANGED <<notifier, worker, on, initial, rested, late>>
    BY <1>4, PackageStep
  <2>2. Heard(n) /\ version' = version
    BY <2>1 DEF Heard, notifier
  <2>3. Known(settled[n], toDeliver[n], accumulated[n], version[n], initial[n], FALSE, packed)
    BY <1>t, <2>1, <2>2 DEF Told, Known
  <2>4. CASE UNCHANGED <<accumulated[n], toDeliver[n], settled[n]>> /\ n \notin due'
    BY <2>1, <2>2, <2>3, <2>4 DEF Told, Known
  <2>5. CASE /\ accumulated'[n] = {} /\ toDeliver'[n] = accumulated[n]
             /\ settled'[n] = settled[n] \cup toDeliver[n]
             /\ n \notin due' \/ packed' = version[n]
    <3>1. version[n] \in Version
      BY <1>i DEF TypeOK
    <3>2. Known(settled'[n], toDeliver'[n], accumulated'[n], version[n], initial[n], n \in due', version[n])
      <4>1. settled'[n] = settled[n] \cup toDeliver[n] /\ toDeliver'[n] = accumulated[n] /\ accumulated'[n] = {}
        BY <2>5
      <4> QED BY <2>3, <3>1, <4>1, KnownPackaged
    <3> QED BY <2>1, <2>2, <2>5, <3>2 DEF Told, Known
  <2> QED BY <1>4, <2>4, <2>5, PackageStep
<1>5. ASSUME NEW m \in Notifier, Call(m) PROVE Told(n)'
  <2>1. UNCHANGED <<on, accumulated, alive, hasRun, version, rested, late, packed>> /\ m \in due /\ due' = due \ {m}
    BY <1>5 DEF Call, notifier
  <2>2. Told(n)
    BY <1>t, <2>1 DEF Heard
  <2>3. CASE n # m
    <3>1. UNCHANGED <<toDeliver[n], initial[n], settled[n]>> /\ (n \in due' <=> n \in due)
      BY <1>5, <1>i, <2>1, <2>3 DEF Call, TypeOK
    <3> QED BY <2>1, <2>2, <3>1 DEF Told, Known
  <2>4. CASE n = m
    <3>1. /\ toDeliver'[n] = {} /\ initial'[n] /\ n \notin due' /\ n \in due
          /\ settled'[n] = settled[n] \cup (IF initial[n] THEN toDeliver[n] ELSE Changes(0, packed))
      BY <1>5, <1>i, <2>1, <2>4 DEF Call, TypeOK
    <3>2. CASE initial[n]
      BY <2>1, <2>2, <3>1, <3>2 DEF Told, Known
    <3>3. CASE ~initial[n]
      BY <2>1, <2>2, <3>1, <3>3 DEF Told, Known
    <3> QED BY <3>2, <3>3
  <2> QED BY <2>3, <2>4
<1>6. ASSUME NEW m \in Notifier, AddCallback(m) PROVE Told(n)'
  <2>1. UNCHANGED <<accumulated, toDeliver, settled, initial, due, packed, alive, hasRun, version, rested>>
    BY <1>6 DEF AddCallback, notifier, delivery
  <2>2. CASE n # m
    <3>1. on'[n] = on[n] /\ late'[n] = late[n]
      BY <1>6, <1>i, <2>2 DEF AddCallback, TypeOK
    <3> QED BY <1>q, <2>1, <3>1 DEF Heard
  <2>3. CASE n = m
    <3>1. ~on[n]
      BY <1>6, <2>3 DEF AddCallback
    <3> QED BY <1>c, <1>e, <2>1, <3>1
  <2> QED BY <2>2, <2>3
<1>7. ASSUME NEW m \in Notifier, RemoveCallback(m) PROVE Told(n)'
  <2>1. UNCHANGED <<alive, hasRun, version, rested, packed>> /\ due' = due \ {m}
    BY <1>7 DEF RemoveCallback, notifier
  <2>2. n # m
    BY <1>7, <1>i DEF RemoveCallback, TypeOK, Heard
  <2>3. UNCHANGED <<on[n], late[n], accumulated[n], toDeliver[n], settled[n], initial[n]>>
    BY <1>7, <1>i, <2>2 DEF RemoveCallback, TypeOK
  <2>4. Told(n)
    BY <1>t, <2>1, <2>3 DEF Heard
  <2> QED BY <2>1, <2>2, <2>3, <2>4 DEF Told, Known
<1>8. ASSUME NEW m \in Notifier, RegisterNotifier(m) PROVE Told(n)'
  <2>1. UNCHANGED <<hasRun, on, rested, late, accumulated, toDeliver, settled, initial, due, packed>>
    BY <1>8 DEF RegisterNotifier, callback, history, delivery
  <2>2. n # m
    BY <1>8, <1>i, <2>1 DEF RegisterNotifier, Heard, ListsAreExact
  <2>3. alive'[n] = alive[n] /\ version'[n] = version[n]
    BY <1>8, <1>i, <2>2 DEF RegisterNotifier, TypeOK
  <2>4. Told(n)
    BY <1>t, <2>1, <2>3 DEF Heard
  <2> QED BY <2>1, <2>3, <2>4 DEF Told
<1>9. ASSUME NEW m \in Notifier, Unregister(m) PROVE Told(n)'
  <2>1. UNCHANGED <<hasRun, version, on, rested, late, accumulated, toDeliver, settled, initial, due, packed>>
    BY <1>9 DEF Unregister, callback, history, delivery
  <2>2. alive[n]
    BY <1>9, <1>i DEF Unregister, TypeOK, Heard
  <2> QED BY <1>q, <2>1, <2>2 DEF Heard
<1>10. CASE \/ OtherCommit \/ NotifyOthers \/ EndSending \/ Refresh \/ BeginTransaction \/ BeginWhileSending
            \/ CommitWrite \/ CancelTransaction \/ Invalidate \/ ReadGroup \/ UNCHANGED vars
            \/ \E S \in SUBSET Notifier : CommitWithoutNotifying(S)
  <2>1. UNCHANGED <<alive, hasRun, version, on, rested, late, accumulated, toDeliver, settled, initial, due, packed>>
    BY <1>10 DEF OtherCommit, NotifyOthers, EndSending, Refresh, BeginTransaction, BeginWhileSending,
     CommitWrite, CancelTransaction, Invalidate, ReadGroup, vars, CommitWithoutNotifying,
     callback, history, notifier, delivery
  <2> QED BY <1>q, <2>1 DEF Heard
<1> QED BY <1>1, <1>2, <1>3, <1>4, <1>5, <1>6, <1>7, <1>8, <1>9, <1>10 DEF Next, Work, Deliver, Use

-----------------------------------------------------------------------------
(* The Realm and its notifiers move in step.                               *)

LEMMA InStepStep == Inv /\ [Next]_vars => InStep'
<1> DEFINE Now(n) ==
              /\ n \in due /\ alive[n] => version[n] >= packed
              /\ on[n] /\ initial[n] /\ alive[n] /\ ~moved =>
                    /\ version[n] + 1 >= read
                    /\ ~rested[n] /\ version[n] < read => accumulated[n] = {}
              /\ writing /\ ~moved /\ on[n] /\ alive[n] =>
                    /\ hasRun[n] /\ version[n] = read
                    /\ ~rested[n] => accumulated[n] = {}
              /\ initial[n] /\ alive[n] /\ ~rested[n] /\ toDeliver[n] # {} /\ n \notin due => moved
<1> SUFFICES ASSUME Inv, [Next]_vars, NEW n \in Notifier PROVE Now(n)'
  BY DEF InStep
<1>i. TypeOK /\ ListsAreExact /\ VersionsAgree /\ TransactionsFit /\ CallbacksFit /\ DueAgreesWithRead
  BY DEF Inv
<1>t. Now(n)
  BY DEF Inv, InStep
<1>v. /\ version[n] \in Nat /\ read \in Nat /\ packed \in Nat /\ latest \in Nat /\ target \in Nat
      /\ version[n] \in Version
  BY <1>i, VersionType DEF TypeOK
<1>c. /\ ~on[n] => ~initial[n] /\ n \notin due
      /\ initial[n] \/ n \in due => hasRun[n]
      /\ status[n] = "none" => ~on[n]
  BY <1>i DEF CallbacksFit
<1>q. ASSUME UNCHANGED <<due, packed, version[n], on[n], initial[n], moved, read, accumulated[n], toDeliver[n],
                         hasRun[n], writing>>,
             alive'[n] => alive[n], ~rested'[n] => ~rested[n]
      PROVE  Now(n)'
  BY <1>t, <1>q
<1> HIDE DEF Now
<1>1. CASE RunAsyncNotifiers \/ TellRealm
  BY <1>q, <1>1 DEF RunAsyncNotifiers, TellRealm, notifier, callback, delivery, history, realm
<1>2. ASSUME NEW m \in Notifier, Run(m) PROVE Now(n)'
  BY <1>q, <1>2, RunStep DEF callback, delivery, realm
<1>3. CASE HandOverSkipVersion \/ HandOverLast
  <2>1. /\ UNCHANGED <<read, writing, alive, on, due, packed, moved, toDeliver[n], initial[n], rested[n]>>
        /\ hasRun[n] => hasRun'[n]
    BY <1>3, HandOverStep
  <2>2. CASE ~hasRun[n] \/ ~alive[n]
    BY <1>c, <1>t, <2>1, <2>2 DEF Now
  <2>3. CASE hasRun[n] /\ alive[n]
    <3>1. /\ version'[n] \in Version /\ version[n] <= version'[n] /\ version'[n] <= latest
          /\ ~rested[n] => changes[n] \subseteq Changes(version[n], version'[n])
          /\ accumulated'[n] = IF on[n] THEN Accumulated(n) ELSE accumulated[n]
      BY <1>3, <2>3, HandOverOld
    <3>2. version'[n] \in Nat
      BY <3>1, VersionType
    <3>3. ~rested[n] /\ version'[n] = version[n] /\ accumulated[n] = {} => accumulated'[n] = {}
      <4>1. Changes(version[n], version[n]) = {}
        BY <1>v, SameVersion
      <4> QED BY <3>1, <4>1 DEF Accumulated
    <3>4. writing /\ ~moved /\ on[n] => version[n] = latest /\ read = latest
      BY <1>i, <1>t, <2>3 DEF TransactionsFit, Now
    <3>5. n \in due => version'[n] >= packed
      BY <1>t, <1>v, <2>3, <3>1, <3>2 DEF Now
    <3>6. on[n] /\ initial[n] /\ ~moved =>
             /\ version'[n] + 1 >= read
             /\ ~rested[n] /\ version'[n] < read => version'[n] = version[n] /\ accumulated[n] = {}
      BY <1>t, <1>v, <2>3, <3>1, <3>2 DEF Now
    <3>7. writing /\ ~moved /\ on[n] =>
             version'[n] = version[n] /\ version[n] = read /\ (~rested[n] => accumulated[n] = {})
      BY <1>t, <1>v, <2>3, <3>1, <3>2, <3>4 DEF Now
    <3> QED BY <1>t, <2>1, <2>3, <3>3, <3>5, <3>6, <3>7 DEF Now
  <2> QED BY <2>2, <2>3
<1>4. CASE Notify \/ Advance \/ RefreshAnew
  <2>1. /\ due = {} /\ UNCHANGED <<latest, notifier, on, initial, rested>>
        /\ \/ UNCHANGED <<accumulated[n], toDeliver[n]>> /\ n \notin due'
           \/ /\ accumulated'[n] = {} /\ toDeliver'[n] = accumulated[n] /\ n \in HaveRun
              /\ n \notin due' \/ packed' = version[n]
    BY <1>4, PackageStep
  <2>2. alive' = alive /\ hasRun' = hasRun /\ version' = version /\ accumulated'[n] \in {accumulated[n], {}}
        /\ (n \in due' => packed' = version[n])
    BY <2>1 DEF notifier
  <2>3. n \in HaveRun <=> alive[n] /\ hasRun[n]
    BY HaveRunLemma
  <2>4. CASE RefreshAnew
    <3>1. moved' = moved /\ moved
      BY <1>i, <2>1, <2>4, DeliveryStep DEF RefreshAnew, TransactionsFit, SendNothing, SendTo
    <3> QED BY <1>v, <2>2, <3>1 DEF Now
  <2>5. CASE Notify
    <3>1. moved' = moved /\ writing' = writing
      BY <2>5 DEF Notify
    <3>2. CASE UNCHANGED <<accumulated[n], toDeliver[n], read>> /\ n \notin due'
      BY <1>t, <2>1, <2>2, <3>1, <3>2 DEF Now
    <3>3. CASE ~writing /\ read' = read /\ ProcessAvailableAsync(reading, read)
      <4>1. CASE SendNothing
        BY <2>1, <3>2, <3>3, <4>1 DEF SendNothing, callback
      <4>2. CASE \E w \in Version : SendTo(HaveRun, w)
        <5>1. n \in HaveRun /\ initial[n] /\ toDeliver'[n] # {} => n \in due'
          BY <1>i, <4>2 DEF SendTo, Package, ToCall, TypeOK, CallbacksFit
        <5>2. n \notin HaveRun => UNCHANGED <<accumulated[n], toDeliver[n]>>
          BY <2>1
        <5> QED BY <1>t, <1>v, <1>c, <2>1, <2>2, <2>3, <3>1, <3>3, <5>1, <5>2 DEF Now
      <4> QED BY <3>3, <4>1, <4>2, AvailableStep
    <3>4. CASE ~writing /\ AdvanceToReady
      <4>1. CASE HaveRun = {} /\ SendNothing
        BY <1>t, <1>c, <2>1, <2>2, <2>3, <3>1, <3>4, <4>1 DEF Now, SendNothing, callback
      <4>2. ASSUME NEW w \in Version, AllAt(w), w < read, Package(HaveRun), UNCHANGED <<read, due>>
            PROVE  Now(n)'
        <5>1. n \in HaveRun => version[n] < read /\ accumulated'[n] = {} /\ toDeliver'[n] = accumulated[n]
          BY <1>i, <4>2 DEF AllAt, Package, TypeOK
        <5>2. n \notin HaveRun => UNCHANGED <<accumulated[n], toDeliver[n]>>
          BY <2>1
        <5> QED BY <1>t, <1>v, <1>c, <2>1, <2>2, <2>3, <3>1, <3>4, <4>2, <5>1, <5>2 DEF Now
      <4>3. ASSUME NEW w \in Version, AllAt(w), SendTo(HaveRun, w), read' = w PROVE Now(n)'
        <5>1. n \in HaveRun => version[n] = read' /\ (initial[n] /\ toDeliver'[n] # {} => n \in due')
          BY <1>i, <4>3 DEF SendTo, Package, ToCall, TypeOK, CallbacksFit, AllAt
        <5> QED BY <1>v, <1>c, <2>1, <2>2, <2>3, <3>1, <3>4, <5>1 DEF Now
      <4> QED BY <3>4, <4>1, <4>2, <4>3, ReadyStep
    <3>5. CASE writing /\ SendNothing /\ read' = read
      BY <2>1, <3>2, <3>5 DEF SendNothing, callback
    <3> QED BY <2>5, <3>3, <3>4, <3>5 DEF Notify
  <2>6. CASE Advance
    <3>1. on[n] /\ alive[n] => hasRun[n] /\ version[n] >= target /\ n \in HaveRun
      <4>1. waitsFor = Mine /\ Reached(waitsFor, target)
        BY <1>i, <2>6 DEF Advance, TransactionsFit
      <4>2. alive[n] => n \in Mine
        BY <1>i DEF Mine, Registered, ListsAreExact
      <4> QED BY <2>3, <4>1, <4>2 DEF Reached
    <3>2. on[n] /\ alive[n] =>
             /\ version[n] = read' /\ accumulated'[n] = {}
             /\ initial[n] /\ toDeliver'[n] # {} => n \in due'
      <4>1. ASSUME on[n], alive[n], NEW w \in Version, AllAt(w), SendTo(HaveRun, w), read' = w
            PROVE  /\ version[n] = read' /\ accumulated'[n] = {}
                   /\ initial[n] /\ toDeliver'[n] # {} => n \in due'
        BY <1>i, <3>1, <4>1 DEF SendTo, Package, ToCall, TypeOK, AllAt
      <4>2. ASSUME on[n], alive[n], NEW w \in Version, AllAt(w), w < target PROVE FALSE
        BY <1>v, <3>1, <4>2 DEF AllAt
      <4> QED BY <2>6, <3>1, <4>1, <4>2, AdvanceStep
    <3> QED BY <1>v, <1>c, <2>1, <2>2, <3>1, <3>2 DEF Now
  <2> QED BY <1>4, <2>4, <2>5, <2>6
<1>5. ASSUME NEW m \in Notifier, Call(m) PROVE Now(n)'
  <2>1. /\ UNCHANGED <<read, reading, writing, on, accumulated, alive, hasRun, version, rested, packed, moved>>
        /\ m \in due /\ due' = due \ {m}
    BY <1>5 DEF Call, notifier, realm
  <2>2. CASE n # m
    <3>1. UNCHANGED <<toDeliver[n], initial[n]>> /\ (n \in due' <=> n \in due)
      BY <1>5, <1>i, <2>1, <2>2 DEF Call, TypeOK
    <3> QED BY <1>t, <2>1, <3>1 DEF Now
  <2>3. CASE n = m
    <3>1. toDeliver'[n] = {} /\ n \notin due'
      BY <1>5, <1>i, <2>1, <2>3 DEF Call, TypeOK
    <3>2. ~moved => packed = read
      BY <1>i, <2>1 DEF DueAgreesWithRead, TransactionsFit
    <3> QED BY <1>t, <1>v, <2>1, <2>3, <3>1, <3>2 DEF Now
  <2> QED BY <2>2, <2>3
<1>6. ASSUME NEW m \in Notifier, AddCallback(m) PROVE Now(n)'
  <2>1. /\ UNCHANGED <<due, packed, version, initial, moved, read, accumulated, toDeliver, alive, rested,
                       hasRun, writing>>
        /\ ~writing
    BY <1>6 DEF AddCallback, notifier, delivery, realm
  <2>2. n # m => on'[n] = on[n]
    BY <1>6, <1>i DEF AddCallback, TypeOK
  <2>3. n = m => ~on[n]
    BY <1>6 DEF AddCallback
  <2> QED BY <1>t, <1>c, <2>1, <2>2, <2>3 DEF Now
<1>7. ASSUME NEW m \in Notifier, RemoveCallback(m) PROVE Now(n)'
  <2>1. UNCHANGED <<packed, version, moved, read, alive, rested, hasRun, writing>> /\ due' = due \ {m}
    BY <1>7 DEF RemoveCallback, notifier, realm
  <2>2. n # m => UNCHANGED <<on[n], initial[n], accumulated[n], toDeliver[n]>>
    BY <1>7, <1>i DEF RemoveCallback, TypeOK
  <2>3. n = m => ~on'[n] /\ ~initial'[n]
    BY <1>7, <1>i DEF RemoveCallback, TypeOK
  <2> QED BY <1>t, <2>1, <2>2, <2>3 DEF Now
<1>8. ASSUME NEW m \in Notifier, RegisterNotifier(m) PROVE Now(n)'
  <2>1. UNCHANGED <<due, packed, on, initial, moved, read, accumulated, toDeliver, rested, hasRun, writing>>
    BY <1>8 DEF RegisterNotifier, callback, history, delivery, realm
  <2>2. CASE n # m
    <3>1. alive'[n] = alive[n] /\ version'[n] = version[n]
      BY <1>8, <1>i, <2>2 DEF RegisterNotifier, TypeOK
    <3> QED BY <1>q, <2>1, <3>1
  <2>3. CASE n = m
    <3>1. ~on[n]
      BY <1>8, <1>c, <2>3 DEF RegisterNotifier
    <3> QED BY <1>c, <2>1, <3>1 DEF Now
  <2> QED BY <2>2, <2>3
<1>9. ASSUME NEW m \in Notifier, Unregister(m) PROVE Now(n)'
  <2>1. alive'[n] => alive[n]
    BY <1>9, <1>i DEF Unregister, TypeOK
  <2> QED BY <1>9, <1>q, <2>1 DEF Unregister, callback, history, delivery, realm
<1>10. ASSUME NEW S \in SUBSET Notifier, CommitWithoutNotifying(S) PROVE Now(n)'
  BY <1>q, <1>10 DEF CommitWithoutNotifying, notifier, realm
<1>11. CASE CommitWrite
  <2>1. /\ UNCHANGED <<due, packed, version, on, initial, accumulated, toDeliver, alive, hasRun, rested>>
        /\ writing' = FALSE /\ read' = latest + 1 /\ (moved' <=> moved \/ due # {})
    BY <1>11, <1>i DEF CommitWrite, notifier, callback, TypeOK
  <2>2. writing /\ read = latest
    BY <1>11, <1>i DEF CommitWrite, TransactionsFit
  <2> QED BY <1>t, <1>v, <2>1, <2>2 DEF Now
<1>12. CASE CancelTransaction
  BY <1>t, <1>12 DEF CancelTransaction, Now, notifier, callback, delivery, history
<1>13. CASE BeginWhileSending \/ Invalidate
  BY <1>t, <1>13 DEF BeginWhileSending, Invalidate, Now, notifier, callback, delivery
<1>14. CASE ReadGroup \/ BeginTransaction
  <2>1. /\ UNCHANGED <<due, packed, version, on, initial, accumulated, toDeliver, alive, hasRun, rested,
                       writing, moved>>
        /\ read' = read \/ moved
    BY <1>14, <1>i DEF ReadGroup, BeginTransaction, TransactionsFit, notifier, callback, delivery, history
  <2> QED BY <1>t, <2>1 DEF Now
<1>15. CASE OtherCommit \/ NotifyOthers \/ EndSending \/ Refresh \/ UNCHANGED vars
  BY <1>q, <1>15 DEF OtherCommit, NotifyOthers, EndSending, Refresh, vars, realm, notifier, callback, delivery,
     history
<1> QED BY <1>1, <1>2, <1>3, <1>4, <1>5, <1>6, <1>7, <1>8, <1>9, <1>10, <1>11, <1>12, <1>13, <1>14, <1>15
        DEF Next, Work, Deliver, Use

LEMMA SkipsStep == Inv /\ [Next]_vars => SkipsAreAhead'
<1> DEFINE Now(n) ==
              skipNext[n] /\ alive[n] =>
                 /\ doing # "commit" /\ hasRun[n] => version[n] < latest
                 /\ doing \in {"refresh", "begin"} /\ hasRun[n] => version[n] < target
                 /\ ~moved => hasRun[n]
                 /\ ~moved /\ ~rested[n] /\ doing # "commit" =>
                       /\ pass \in {"idle", "tell"} => skip # 0
                       /\ Changes(version[n], Skipped(n)) \subseteq asked[n]
                 /\ ~moved /\ doing = "commit" => {latest + 1} \cap Touching \subseteq asked[n]
<1> SUFFICES ASSUME Inv, [Next]_vars, NEW n \in Notifier PROVE Now(n)'
  BY DEF SkipsAreAhead
<1>i. TypeOK /\ ListsAreExact /\ VersionsAgree /\ TransactionsFit /\ CallbacksFit
  BY DEF Inv
<1>t. Now(n)
  BY DEF Inv, SkipsAreAhead
<1>v. /\ version[n] \in Nat /\ read \in Nat /\ latest \in Nat /\ target \in Nat
      /\ version[n] \in Version
  BY <1>i, VersionType DEF TypeOK
<1>c. /\ ~on[n] => ~skipNext[n]
      /\ status[n] = "none" => ~on[n]
  BY <1>i DEF CallbacksFit
<1>w. writing /\ ~moved /\ on[n] /\ alive[n] => hasRun[n] /\ version[n] = read /\ read = latest
  BY DEF Inv, InStep, TransactionsFit
<1>l. alive[n] /\ hasRun[n] => n \in Listed /\ version[n] <= latest
  BY <1>i DEF ListsAreExact, VersionsAgree, Listed
<1>q. ASSUME UNCHANGED <<version[n], hasRun[n], latest, doing, target, pass, skip, over, final, asked[n]>>,
             skipNext'[n] => skipNext[n], alive'[n] => alive[n], ~moved' => ~moved, ~rested'[n] => ~rested[n]
      PROVE  Now(n)'
  BY <1>t, <1>q DEF Skipped
<1> HIDE DEF Now
<1>1. CASE RunAsyncNotifiers
  <2>1. /\ UNCHANGED <<latest, doing, target, alive, version, hasRun, skipNext, asked, rested, moved>>
        /\ pass = "idle"
    BY <1>1 DEF RunAsyncNotifiers, callback, delivery, history
  <2>2. CASE ~alive[n] \/ ~skipNext[n] \/ moved \/ rested[n] \/ doing = "commit"
    BY <1>t, <2>1, <2>2 DEF Now
  <2>3. CASE alive[n] /\ skipNext[n] /\ ~moved /\ ~rested[n] /\ doing # "commit"
    <3>1. hasRun[n] /\ skip # 0 /\ Changes(version[n], skip) \subseteq asked[n]
      BY <1>t, <2>1, <2>3 DEF Now, Skipped
    <3>2. n \in Listed /\ n \notin Dead /\ n \in Mine
      BY <1>i, <1>l, <2>3, <3>1 DEF Dead, Mine, Registered, Listed
    <3>3. SkipAfterCleanUp = skip
      BY <3>2 DEF SkipAfterCleanUp
    <3>4. pass' = "skip" /\ over' = skip
      BY <1>1, <3>1, <3>2, <3>3 DEF RunAsyncNotifiers
    <3>5. Skipped(n)' = skip
      BY <3>4 DEF Skipped
    <3> QED BY <1>t, <2>1, <2>3, <3>1, <3>4, <3>5 DEF Now
  <2> QED BY <2>2, <2>3
<1>2. ASSUME NEW m \in Notifier, Run(m) PROVE Now(n)'
  <2>1. /\ UNCHANGED <<latest, doing, target, alive, version, hasRun, skipNext, asked, moved, skip, pass, over, final>>
        /\ ~rested'[n] => ~rested[n]
    BY <1>2, RunStep DEF callback, delivery, file
  <2>2. Skipped(n)' = Skipped(n)
    BY <2>1 DEF Skipped
  <2> QED BY <1>t, <2>1, <2>2 DEF Now
<1>3. CASE HandOverSkipVersion \/ HandOverLast
  <2>1. CASE hasRun[n] /\ alive[n]
    BY <1>3, <2>1, HandOverOld DEF Now
  <2>2. CASE ~hasRun[n] /\ alive[n]
    <3>1. skipNext[n] => moved
      BY <1>t, <2>2 DEF Now
    <3>2. skipNext'[n] => skipNext[n] /\ hasRun'[n] = hasRun[n]
      BY <1>3, HandOverStep
    <3>3. moved' = moved
      BY <1>3, HandOverStep
    <3> QED BY <2>2, <3>1, <3>2, <3>3 DEF Now
  <2>3. CASE ~alive[n]
    BY <1>3, <2>3, HandOverStep DEF Now
  <2> QED BY <2>1, <2>2, <2>3
<1>4. CASE TellRealm
  <2>1. /\ UNCHANGED <<latest, doing, target, alive, version, hasRun, skipNext, asked, moved, rested, skip, over, final>>
        /\ pass = "tell" /\ pass' = "idle"
    BY <1>4 DEF TellRealm, notifier, callback, delivery, history, file
  <2>2. Skipped(n)' = Skipped(n)
    BY <2>1 DEF Skipped
  <2> QED BY <1>t, <2>1, <2>2 DEF Now
<1>5. CASE Notify \/ RefreshAnew
  <2>1. UNCHANGED <<latest, skip, notifier, worker, asked, rested, skipNext>>
    BY <1>5, PackageStep
  <2>2. UNCHANGED <<doing, target, moved>>
    BY <1>5, <1>i, DeliveryStep DEF Notify, RefreshAnew, SendNothing, SendTo
  <2> QED BY <1>q, <2>1, <2>2 DEF notifier, worker
<1>6. CASE Advance
  <2>1. UNCHANGED <<notifier, skipNext>>
    BY <1>6, PackageStep
  <2>2. doing \in {"refresh", "begin"} /\ waitsFor = Mine /\ Reached(waitsFor, target)
    BY <1>6, <1>i DEF Advance, TransactionsFit
  <2>3. alive[n] => n \in Mine
    BY <1>i DEF Mine, Registered, ListsAreExact
  <2>4. ~ (skipNext[n] /\ alive[n])
    BY <1>t, <1>c, <1>v, <2>2, <2>3 DEF Now, Reached
  <2> QED BY <2>1, <2>4 DEF Now, notifier
<1>7. ASSUME NEW m \in Notifier, Call(m) \/ AddCallback(m) PROVE Now(n)'
  BY <1>q, <1>7 DEF Call, AddCallback, notifier, worker, file, delivery
<1>8. ASSUME NEW m \in Notifier, RemoveCallback(m) PROVE Now(n)'
  <2>1. skipNext'[n] => skipNext[n] /\ asked'[n] = asked[n]
    BY <1>8, <1>i DEF RemoveCallback, TypeOK
  <2>2. UNCHANGED <<version, hasRun, latest, doing, target, pass, skip, over, final, alive, moved, rested>>
    BY <1>8 DEF RemoveCallback, notifier, worker, file
  <2> QED BY <1>q, <2>1, <2>2 DEF Now
<1>9. ASSUME NEW m \in Notifier, RegisterNotifier(m) PROVE Now(n)'
  <2>1. UNCHANGED <<hasRun, latest, doing, target, pass, skip, over, final, skipNext, asked, moved, rested>>
    BY <1>9 DEF RegisterNotifier, callback, history, delivery, worker, file
  <2>2. n # m => alive'[n] = alive[n] /\ version'[n] = version[n]
    BY <1>9, <1>i DEF RegisterNotifier, TypeOK
  <2>3. n = m => ~skipNext[n]
    BY <1>9, <1>c DEF RegisterNotifier
  <2> QED BY <1>q, <2>1, <2>2, <2>3 DEF Now
<1>10. ASSUME NEW m \in Notifier, Unregister(m) PROVE Now(n)'
  <2>1. alive'[n] => alive[n]
    BY <1>10, <1>i DEF Unregister, TypeOK
  <2> QED BY <1>10, <1>q, <2>1 DEF Unregister, callback, history, delivery, worker, file
<1>11. ASSUME NEW S \in SUBSET Notifier, CommitWithoutNotifying(S) PROVE Now(n)'
  <2>1. /\ UNCHANGED <<alive, hasRun, version, latest, moved>> /\ doing' = "commit" /\ doing = "nothing" /\ writing
    BY <1>11 DEF CommitWithoutNotifying, notifier, file, Free
  <2>2. n \in S => on[n] /\ alive[n] /\ {latest + 1} \cap Touching \subseteq asked'[n]
    BY <1>11, <1>i DEF CommitWithoutNotifying, TypeOK
  <2>3. n \notin S => skipNext'[n] = skipNext[n] /\ asked'[n] = asked[n]
    BY <1>11, <1>i DEF CommitWithoutNotifying, TypeOK
  <2>4. ~moved => ~ (skipNext[n] /\ alive[n])
    BY <1>t, <1>c, <1>v, <1>w, <2>1 DEF Now
  <2> QED BY <1>t, <1>w, <2>1, <2>2, <2>3, <2>4 DEF Now
<1>12. CASE CommitWrite
  <2>1. /\ UNCHANGED <<alive, hasRun, version, pass, over, final, skipNext, asked, rested, target>>
        /\ doing = "commit" /\ doing' = "nothing" /\ latest' = latest + 1
        /\ skip' = (IF Listed \cap Mine # {} THEN latest + 1 ELSE skip)
        /\ ~moved' => ~moved
    BY <1>12 DEF CommitWrite, notifier, callback, worker
  <2>2. CASE ~ (skipNext[n] /\ alive[n])
    BY <2>1, <2>2 DEF Now
  <2>3. CASE skipNext[n] /\ alive[n] /\ moved
    <3>1. moved'
      BY <1>12, <2>3 DEF CommitWrite
    <3> QED BY <1>v, <1>l, <2>1, <2>3, <3>1 DEF Now
  <2>4. CASE skipNext[n] /\ alive[n] /\ ~moved
    <3>1. /\ hasRun[n] /\ version[n] = latest /\ {latest + 1} \cap Touching \subseteq asked[n]
      BY <1>t, <1>c, <1>w, <1>i, <2>1, <2>4 DEF Now, TransactionsFit
    <3>2. n \in Listed \cap Mine
      BY <1>i, <1>l, <2>4, <3>1 DEF Mine, Registered, ListsAreExact
    <3>3. skip' = latest + 1
      BY <2>1, <3>2
    <3>4. Changes(version[n], Skipped(n)') \subseteq asked[n]
      <4>1. CASE pass \in {"skip", "last"}
        <5>1. Skipped(n)' \in Version /\ Skipped(n)' <= latest
          BY <1>i, <2>1, <4>1, VersionType DEF Skipped, VersionsAgree, Running, TypeOK
        <5> QED BY <1>v, <3>1, <5>1, NoChangesLemma
      <4>2. CASE pass \in {"idle", "tell"}
        <5>1. Skipped(n)' = latest + 1
          BY <2>1, <3>3, <4>2 DEF Skipped
        <5>2. Changes(latest, latest + 1) \subseteq {latest + 1} \cap Touching
          BY <1>v, NotifiersAssumption DEF Changes
        <5> QED BY <3>1, <5>1, <5>2
      <4> QED BY <1>i, <4>1, <4>2 DEF TypeOK
    <3> QED BY <1>v, <2>1, <3>1, <3>3, <3>4 DEF Now
  <2> QED BY <2>2, <2>3, <2>4
<1>13. CASE OtherCommit
  <2>1. /\ UNCHANGED <<alive, hasRun, version, pass, over, final, skipNext, asked, rested, target, doing, skip, moved>>
        /\ latest' = latest + 1 /\ ~writing
    BY <1>13 DEF OtherCommit, notifier, callback, worker, delivery, history
  <2>2. doing # "commit"
    BY <1>i, <2>1 DEF TransactionsFit
  <2>3. Skipped(n)' = Skipped(n)
    BY <2>1 DEF Skipped
  <2> QED BY <1>t, <1>v, <2>1, <2>2, <2>3 DEF Now
<1>14. CASE Refresh \/ BeginTransaction
  <2>1. /\ UNCHANGED <<alive, hasRun, version, pass, over, final, skipNext, asked, rested, latest, skip, moved>>
        /\ target' = latest /\ doing = "nothing" /\ doing' \in {"refresh", "begin"}
    BY <1>14 DEF Refresh, BeginTransaction, WaitFor, Free, notifier, callback, worker, file, history
  <2>2. Skipped(n)' = Skipped(n)
    BY <2>1 DEF Skipped
  <2> QED BY <1>t, <2>1, <2>2 DEF Now
<1>15. CASE BeginWhileSending \/ Invalidate
  <2>1. /\ UNCHANGED <<alive, hasRun, version, skipNext, latest, doing, target>> /\ moved'
    BY <1>15 DEF BeginWhileSending, Invalidate, notifier, callback, delivery, file
  <2> QED BY <1>t, <2>1 DEF Now
<1>16. CASE NotifyOthers \/ EndSending \/ CancelTransaction \/ ReadGroup \/ UNCHANGED vars
  BY <1>q, <1>16 DEF NotifyOthers, EndSending, CancelTransaction, ReadGroup, vars, notifier, callback, delivery,
     history, worker, file
<1> QED BY <1>1, <1>2, <1>3, <1>4, <1>5, <1>6, <1>7, <1>8, <1>9, <1>10, <1>11, <1>12, <1>13, <1>14, <1>15, <1>16
        DEF Next, Work, Deliver, Use

-----------------------------------------------------------------------------
LEMMA NextInv == Inv /\ [Next]_vars => Inv'
<1> SUFFICES ASSUME Inv, [Next]_vars PROVE Inv'
  OBVIOUS
<1>1. TypeOK'
  <2>1. CASE Work
    BY <2>1, WorkTypes DEF Inv
  <2>2. CASE Deliver \/ RefreshAnew
    BY <2>2, DeliverTypes
  <2>3. CASE OtherCommit \/ NotifyOthers \/ (Use /\ ~RefreshAnew) \/ UNCHANGED vars
    BY <2>3, UseTypes DEF Inv
  <2> QED BY <2>1, <2>2, <2>3 DEF Next
<1> QED BY <1>1, ListsStep, VersionsStep, TransactionsStep, CallbacksStep, StagesStep, RowsStep, TellsStep, DueStep,
           InStepStep, SkipsStep DEF Inv

\* The invariant holds in every state of run_async_notifiers, the package that
\* is delivered and the Realm's transactions together.
THEOREM NotifiersInv == Spec => []Inv
<1>1. QED BY InitInv, NextInv, PTL DEF Spec

\* Every variable keeps its type.
THEOREM NotifiersType == Spec => []TypeOK
<1>1. Inv => TypeOK
  BY DEF Inv
<1>2. QED BY <1>1, NotifiersInv, PTL

\* The stop that run_async_notifiers makes for a commit to be skipped is ahead
\* of all its notifiers, which are at one version (the assertions of its lines
\* 821 and 822).
THEOREM SkipsAhead == Spec => []SkipIsAhead
<1>1. Inv => SkipIsAhead
  <2> SUFFICES ASSUME Inv PROVE SkipIsAhead
    OBVIOUS
  <2>1. \A n \in Mine : hasRun[n] => n \in Listed
    BY DEF Inv, ListsAreExact, Mine, Registered, Listed
  <2> QED BY <2>1 DEF Inv, VersionsAgree, SkipIsAhead, Running
<1>2. QED BY <1>1, NotifiersInv, PTL

\* A callback is called for the version the Realm is at, unless a transaction
\* was begun or ended behind the notifiers' back.
THEOREM CallsAgreeWithRead == Spec => []DueAgreesWithRead
<1>1. Inv => DueAgreesWithRead
  BY DEF Inv
<1>2. QED BY <1>1, NotifiersInv, PTL

\* After its first call a callback is told every change once, or is spared it:
\* no interleaving of handovers, packages and deliveries loses or repeats one.
\* It may lose some of one run if it was added after do_add_required_change_info
\* had read that there was none, and before the handover; the rows of a notifier
\* that skipped a run are left out, too.
THEOREM EveryChangeIsTold == Spec => []TellsExactly
<1>1. Inv => TellsExactly
  BY DEF Inv
<1>2. QED BY <1>1, NotifiersInv, PTL

\* A package is thrown away undelivered only after the Realm's version was
\* changed outside of advance_to_ready's control (its lines 903 to 905).
THEOREM OnlyMovedIsDiscarded == Spec => DiscardsOnlyWhenMoved
<1> DEFINE D(n) == on'[n] /\ initial[n] /\ toDeliver[n] # {} /\ toDeliver'[n] # toDeliver[n]
                      => moved \/ rested[n] \/ n \in due
<1>1. Inv /\ [Next]_vars => [\A n \in Notifier : D(n)]_vars
  <2> SUFFICES ASSUME Inv, Next, NEW n \in Notifier,
                      on'[n], initial[n], toDeliver[n] # {}, toDeliver'[n] # toDeliver[n],
                      ~moved, ~rested[n], n \notin due
               PROVE  FALSE
    OBVIOUS
  <2>i. TypeOK
    BY DEF Inv
  <2>1. ~alive[n]
    BY DEF Inv, InStep
  <2>2. CASE HandOverSkipVersion \/ HandOverLast
    BY <2>2, HandOverStep
  <2>3. CASE Notify \/ Advance \/ RefreshAnew
    <3>1. n \notin HaveRun
      BY <2>1, HaveRunLemma
    <3> QED BY <2>3, <3>1, PackageStep
  <2>4. ASSUME NEW m \in Notifier, Call(m) \/ RemoveCallback(m) PROVE FALSE
    BY <2>4, <2>i DEF Call, RemoveCallback, TypeOK
  <2>5. CASE \/ RunAsyncNotifiers \/ TellRealm \/ OtherCommit \/ NotifyOthers
             \/ EndSending \/ Refresh \/ BeginTransaction \/ BeginWhileSending \/ CommitWrite
             \/ CancelTransaction \/ Invalidate \/ ReadGroup
             \/ \E S \in SUBSET Notifier : CommitWithoutNotifying(S)
             \/ \E m \in Notifier : RegisterNotifier(m) \/ AddCallback(m) \/ Unregister(m)
    BY <2>5 DEF RunAsyncNotifiers, TellRealm, OtherCommit, NotifyOthers, EndSending,
       Refresh, BeginTransaction, BeginWhileSending, CommitWrite, CancelTransaction, Invalidate, ReadGroup,
       CommitWithoutNotifying, RegisterNotifier, AddCallback, Unregister, callback
  <2>6. ASSUME NEW m \in Notifier, Run(m) PROVE FALSE
    BY <2>6, RunStep DEF callback
  <2> QED BY <2>2, <2>3, <2>4, <2>5, <2>6 DEF Next, Work, Deliver, Use
<1>2. QED BY <1>1, NotifiersInv, PTL DEF Spec, DiscardsOnlyWhenMoved

\* The handover that takes a callback's skip mark away spares it the commit it
\* asked not to be told of, and nothing else, unless a transaction was begun or
\* ended behind the notifiers' back.
THEOREM OnlyTheAskedIsSpared == Spec => SparesOnlyTheAsked
<1> DEFINE S(n) == skipNext[n] /\ ~skipNext'[n] /\ on'[n] /\ alive[n] /\ ~moved /\ ~rested[n]
                      => changes[n] \subseteq asked[n]
<1>1. Inv /\ [Next]_vars => [\A n \in Notifier : S(n)]_vars
  <2> SUFFICES ASSUME Inv, Next, NEW n \in Notifier,
                      skipNext[n], ~skipNext'[n], on'[n], alive[n], ~moved, ~rested[n]
               PROVE  changes[n] \subseteq asked[n]
    OBVIOUS
  <2>i. TypeOK
    BY DEF Inv
  <2>1. CASE HandOverSkipVersion \/ HandOverLast
    <3>1. hasRun[n] /\ on[n]
      BY DEF Inv, SkipsAreAhead, CallbacksFit
    <3>2. changes[n] \subseteq Changes(version[n], version'[n]) /\ version'[n] = HasReached(n)
          /\ version'[n] \in Version /\ version'[n] <= latest
      BY <2>1, <3>1, HandOverOld
    <3>3. CASE doing = "commit"
      <4>1. version[n] = latest /\ version[n] \in Version
        BY <2>i, <3>1, <3>3 DEF Inv, InStep, TransactionsFit, TypeOK
      <4> QED BY <3>2, <4>1, NoChangesLemma
    <3>4. CASE doing # "commit"
      <4>1. Changes(version[n], Skipped(n)) \subseteq asked[n]
        BY <3>4 DEF Inv, SkipsAreAhead
      <4>2. pass \in {"skip", "last"}
        BY <2>1, HandOverStep
      <4>3. n \in old
        BY <3>1, <4>2 DEF Inv, ListsAreExact, Running, Listed
      <4>4. Skipped(n) = HasReached(n)
        <5>1. stage[n] = "ran"
          BY <2>1, <4>3, HandOverStep
        <5> QED BY <4>2, <5>1 DEF Skipped, HasReached, Destination
      <4> QED BY <3>2, <4>1, <4>4
    <3> QED BY <3>3, <3>4
  <2>2. CASE Notify \/ Advance \/ RefreshAnew
    BY <2>2, PackageStep
  <2>3. ASSUME NEW m \in Notifier, RemoveCallback(m) PROVE FALSE
    BY <2>3, <2>i DEF RemoveCallback, TypeOK
  <2>4. ASSUME NEW R \in SUBSET Notifier, CommitWithoutNotifying(R) PROVE FALSE
    BY <2>4, <2>i DEF CommitWithoutNotifying, TypeOK
  <2>5. CASE \/ RunAsyncNotifiers \/ TellRealm \/ OtherCommit \/ NotifyOthers
             \/ EndSending \/ Refresh \/ BeginTransaction \/ BeginWhileSending \/ CommitWrite
             \/ CancelTransaction \/ Invalidate \/ ReadGroup
             \/ \E m \in Notifier : Call(m) \/ RegisterNotifier(m) \/ AddCallback(m) \/ Unregister(m)
    BY <2>5 DEF RunAsyncNotifiers, TellRealm, OtherCommit, NotifyOthers, EndSending,
       Refresh, BeginTransaction, BeginWhileSending, CommitWrite, CancelTransaction, Invalidate, ReadGroup,
       Call, RegisterNotifier, AddCallback, Unregister, callback
  <2>6. ASSUME NEW m \in Notifier, Run(m) PROVE FALSE
    BY <2>6, RunStep DEF callback
  <2> QED BY <2>1, <2>2, <2>3, <2>4, <2>5, <2>6 DEF Next, Work, Deliver, Use
<1>2. QED BY <1>1, NotifiersInv, PTL DEF Spec, SparesOnlyTheAsked
=============================================================================
