---------------------- MODULE CollectionNotifierProofs ----------------------
(***************************************************************************)
(* What impl/collection_notifier.cpp has: the callbacks of a notifier, and *)
(* the checker that follows links from its rows.                           *)
(*                                                                         *)
(* Whatever callbacks are added and removed under way, the count of a      *)
(* delivery is short by those that were added and removed in it, and it    *)
(* keeps the promise of Delivery, for any number of callbacks.             *)
(*                                                                         *)
(* Whatever it was asked before, a checker finds a row modified if and     *)
(* only if a modified one is within its reach, for any schema, any objects *)
(* with any links between them, and a path of any size.  Left out are rows *)
(* of a table that has no other related table and links to itself: for     *)
(* them the code does not follow the links (LinksOnlyToItself).            *)
(***************************************************************************)
EXTENDS CallbackList, DeepChanges, FiniteSetTheorems, SequenceTheorems, WellFoundedInduction, TLAPS

\* The sequence without the element at one position.
LEMMA RemoveAtLemma ==
    ASSUME NEW S, NEW s \in Seq(S), NEW i \in 1 .. Len(s)
    PROVE  /\ RemoveAt(s, i) \in Seq(S)
           /\ Len(RemoveAt(s, i)) = Len(s) - 1
           /\ \A j \in 1 .. Len(s) - 1 : RemoveAt(s, i)[j] = IF j < i THEN s[j] ELSE s[j + 1]
<1> DEFINE front == SubSeq(s, 1, i - 1)
           back == SubSeq(s, i + 1, Len(s))
<1>1. Len(s) \in Nat /\ i \in Nat
  OBVIOUS
<1>2. /\ front \in Seq(S) /\ Len(front) = i - 1
      /\ \A j \in 1 .. i - 1 : front[j] = s[j]
  BY <1>1
<1>3. /\ back \in Seq(S) /\ Len(back) = Len(s) - i
      /\ \A j \in 1 .. Len(s) - i : back[j] = s[j + i]
  BY <1>1
<1>4. RemoveAt(s, i) = front \o back
  BY DEF RemoveAt
<1> HIDE DEF front, back
<1>5. front \o back \in Seq(S) /\ Len(front \o back) = Len(s) - 1
  <2>1. front \o back \in Seq(S) /\ Len(front \o back) = Len(front) + Len(back)
    BY <1>2, <1>3, ConcatProperties
  <2> QED BY <2>1, <1>1, <1>2, <1>3
<1>6. ASSUME NEW j \in 1 .. Len(s) - 1
      PROVE  (front \o back)[j] = IF j < i THEN s[j] ELSE s[j + 1]
  <2>1. CASE j < i
    BY <2>1, <1>1, <1>2, <1>3
  <2>2. CASE ~ (j < i)
    <3>1. j - (i - 1) \in 1 .. Len(s) - i
      BY <2>2, <1>1
    <3>2. (front \o back)[j] = back[j - (i - 1)]
      BY <2>2, <1>1, <1>2, <1>3
    <3>3. back[j - (i - 1)] = s[j - (i - 1) + i]
      BY <3>1, <1>3
    <3> QED BY <2>2, <3>2, <3>3, <1>1
  <2> QED BY <2>1, <2>2
<1> QED BY <1>4, <1>5, <1>6

\* A registered callback has one position.
LEMMA PositionLemma ==
    ASSUME NEW t, t \in Present
    PROVE  Position(t) \in 1 .. Len(callbacks) /\ callbacks[Position(t)] = t
<1>1. PICK i \in 1 .. Len(callbacks) : callbacks[i] = t
  BY DEF Present
<1> QED BY <1>1 DEF Position

\* How many of a sequence are below a bound, when they come first.
LEMMA FirstOnes ==
    ASSUME NEW s, NEW bound, Len(s) \in Nat, NEW k \in 0 .. Len(s),
           \A i \in 1 .. Len(s) : s[i] < bound <=> i <= k
    PROVE  Cardinality({i \in 1 .. Len(s) : s[i] < bound}) = k
<1>1. {i \in 1 .. Len(s) : s[i] < bound} = 1 .. k
  OBVIOUS
<1>2. Cardinality(1 .. k) = k
  BY FS_Interval
<1> QED BY <1>1, <1>2

\* What the invariant says in numbers: how far a delivery goes, and what it
\* means to be lost.
LEMMA Facts ==
    ASSUME Inv
    PROVE  /\ callbacks \in Seq(Token) /\ Len(callbacks) \in Nat
           /\ MaxTokens \in Nat /\ Huge \in Nat /\ Huge > 2 * MaxTokens
           /\ index \in 0 .. MaxTokens /\ count \in 0 .. Huge /\ nextToken \in 0 .. MaxTokens
           /\ firstNew \in 0 .. MaxTokens /\ undone \in 0 .. MaxTokens
           /\ Packaged \in 0 .. Len(callbacks) /\ firstNew <= nextToken
           /\ Len(callbacks) + undone <= nextToken
           /\ stage # "quiet" /\ ~Lost =>
                 stage # "outside" /\ count = Packaged - undone /\ count <= Len(callbacks)
           /\ stage # "quiet" => index <= Len(callbacks)
           /\ Lost => count = Huge + 1 + Packaged - undone /\ count > Len(callbacks)
<1>1. /\ callbacks \in Seq(Token) /\ Len(callbacks) \in Nat
      /\ MaxTokens \in Nat /\ Huge \in Nat /\ Huge > 2 * MaxTokens
      /\ index \in 0 .. MaxTokens /\ count \in 0 .. Huge /\ nextToken \in 0 .. MaxTokens
      /\ firstNew \in 0 .. MaxTokens /\ undone \in 0 .. MaxTokens
      /\ firstNew <= nextToken /\ Len(callbacks) + undone <= nextToken
  BY TokensAssumption, HugeAssumption DEF Inv, TypeOK, TokensAreNew
<1>2. Packaged \in 0 .. Len(callbacks)
  <2>1. IsFiniteSet(1 .. Len(callbacks)) /\ Cardinality(1 .. Len(callbacks)) = Len(callbacks)
    <3>1. \A n \in Nat : IsFiniteSet(1 .. n) /\ Cardinality(1 .. n) = n
      BY FS_Interval
    <3> QED BY <3>1, <1>1
  <2>2. {i \in 1 .. Len(callbacks) : callbacks[i] < firstNew} \in SUBSET (1 .. Len(callbacks))
    OBVIOUS
  <2>3. /\ IsFiniteSet({i \in 1 .. Len(callbacks) : callbacks[i] < firstNew})
        /\ Packaged <= Len(callbacks)
    BY <2>1, <2>2, FS_Subset DEF Packaged
  <2>4. Packaged \in Nat
    BY <2>3, FS_CardinalityType DEF Packaged
  <2> QED BY <1>1, <2>3, <2>4
<1>3. stage # "quiet" =>
        /\ count = IF undone <= Packaged THEN Packaged - undone ELSE Huge + 1 + Packaged - undone
        /\ index <= IF undone <= Packaged THEN Packaged ELSE Len(callbacks)
        /\ stage = "outside" => undone > Packaged
  BY DEF Inv, ShortByTheUndone
<1> QED BY <1>1, <1>2, <1>3 DEF Lost

\* Erasing a callback takes it, and only it, from the vector, and the count is
\* one less, whether it was one of those that are counted or not.
LEMMA ErasedLemma ==
    ASSUME Inv, NEW t \in Token, t \in Present, Erased(t), Undo(t), firstNew' = firstNew,
           NEW at, at = Position(t)
    PROVE  /\ callbacks' \in Seq(Token) /\ Len(callbacks') = Len(callbacks) - 1
           /\ Present' = Present \ {t}
           /\ at \in 1 .. Len(callbacks) /\ callbacks[at] = t
           /\ \A j \in 1 .. Len(callbacks') :
                 callbacks'[j] = IF j < at THEN callbacks[j] ELSE callbacks[j + 1]
           /\ index' \in 0 .. MaxTokens /\ count' \in 0 .. Huge /\ count' = OneLess(count)
           /\ index' = (IF index # 0 /\ index >= at THEN index - 1 ELSE index)
           /\ undone' = (IF stage # "quiet" /\ at > Packaged THEN undone + 1 ELSE undone)
           /\ Packaged' = (IF at <= Packaged THEN Packaged - 1 ELSE Packaged)
           /\ PackagedFirst'
<1>1. at \in 1 .. Len(callbacks) /\ callbacks[at] = t
  BY PositionLemma
<1>2. /\ index' = (IF index # 0 /\ index >= at THEN index - 1 ELSE index)
      /\ count' = OneLess(count)
      /\ callbacks' = RemoveAt(callbacks, at)
  BY DEF Erased
<1>3. /\ callbacks' \in Seq(Token) /\ Len(callbacks') = Len(callbacks) - 1
      /\ \A j \in 1 .. Len(callbacks) - 1 :
            callbacks'[j] = IF j < at THEN callbacks[j] ELSE callbacks[j + 1]
  BY <1>1, <1>2, Facts, RemoveAtLemma
<1>4. index' \in 0 .. MaxTokens /\ count' \in 0 .. Huge
  <2>1. index' \in 0 .. MaxTokens
    BY <1>1, <1>2, Facts
  <2>2. count \in 0 .. Huge /\ Huge \in Nat
    BY Facts
  <2> QED BY <1>2, <2>1, <2>2 DEF OneLess
<1>5. Present' = Present \ {t}
  <2>1. ASSUME NEW j \in 1 .. Len(callbacks') PROVE callbacks'[j] \in Present \ {t}
    <3>1. PICK k \in 1 .. Len(callbacks) : k # at /\ callbacks'[j] = callbacks[k]
      <4>1. CASE j < at
        <5>1. j \in 1 .. Len(callbacks) /\ j # at /\ callbacks'[j] = callbacks[j]
          BY <4>1, <1>1, <1>3, Facts
        <5> QED BY <5>1
      <4>2. CASE ~ (j < at)
        <5>1. j + 1 \in 1 .. Len(callbacks) /\ j + 1 # at /\ callbacks'[j] = callbacks[j + 1]
          BY <4>2, <1>1, <1>3, Facts
        <5> QED BY <5>1
      <4> QED BY <4>1, <4>2
    <3> QED BY <3>1, <1>1 DEF Inv, TokensAreNew, Present
  <2>2. ASSUME NEW k \in 1 .. Len(callbacks), callbacks[k] # t PROVE callbacks[k] \in Present'
    <3>1. CASE k < at
      <4>1. k \in 1 .. Len(callbacks') /\ callbacks'[k] = callbacks[k]
        BY <3>1, <1>1, <1>3, Facts
      <4> QED BY <4>1 DEF Present
    <3>2. CASE k > at
      <4>1. k - 1 \in 1 .. Len(callbacks') /\ ~ (k - 1 < at) /\ (k - 1) + 1 = k
        BY <3>2, <1>1, <1>3, Facts
      <4>2. callbacks'[k - 1] = callbacks[k]
        BY <4>1, <1>3
      <4> QED BY <4>1, <4>2 DEF Present
    <3> QED BY <3>1, <3>2, <2>2, <1>1, Facts
  <2> QED BY <2>1, <2>2 DEF Present
<1>6. t >= firstNew <=> at > Packaged
  <2>1. callbacks[at] < firstNew <=> at <= Packaged
    BY <1>1 DEF Inv, PackagedFirst
  <2> QED BY <2>1, <1>1, Facts DEF Token
<1>7. undone' = (IF stage # "quiet" /\ at > Packaged THEN undone + 1 ELSE undone)
  BY <1>6 DEF Undo
<1> DEFINE left == IF at <= Packaged THEN Packaged - 1 ELSE Packaged
<1>8. left \in 0 .. Len(callbacks')
  BY <1>1, <1>3, Facts
<1>9. \A i \in 1 .. Len(callbacks') : callbacks'[i] < firstNew' <=> i <= left
  <2> SUFFICES ASSUME NEW i \in 1 .. Len(callbacks') PROVE callbacks'[i] < firstNew <=> i <= left
    OBVIOUS
  <2>1. \A k \in 1 .. Len(callbacks) : callbacks[k] < firstNew <=> k <= Packaged
    BY DEF Inv, PackagedFirst
  <2>2. CASE i < at
    <3>1. i \in 1 .. Len(callbacks) /\ callbacks'[i] = callbacks[i]
      BY <2>2, <1>1, <1>3, Facts
    <3> QED BY <3>1, <2>1, <2>2, <1>1, Facts
  <2>3. CASE ~ (i < at)
    <3>1. i + 1 \in 1 .. Len(callbacks) /\ callbacks'[i] = callbacks[i + 1]
      BY <2>3, <1>1, <1>3, Facts
    <3>2. callbacks'[i] < firstNew <=> i + 1 <= Packaged
      BY <3>1, <2>1
    <3> QED BY <3>2, <2>3, <1>1, Facts
  <2> QED BY <2>2, <2>3
<1> HIDE DEF left
<1>10. Packaged' = left
  <2>1. Len(callbacks') \in Nat
    BY <1>3
  <2> QED BY <2>1, <1>8, <1>9, FirstOnes DEF Packaged
<1>11. PackagedFirst'
  BY <1>9, <1>10 DEF PackagedFirst
<1> QED BY <1>1, <1>2, <1>3, <1>4, <1>5, <1>7, <1>10, <1>11 DEF left

\* On to the next position the round is for: those before it are passed over
\* rightly, and its own callback is the one that is left out from there on.
LEMMA GoOnLemma ==
    ASSUME Inv, stage # "quiet", ~Lost, NEW i \in Nat, NEW S,
           NEW j \in Wanted(i, S), \A k \in Wanted(i, S) : j <= k
    PROVE  /\ j \in 1 .. Len(callbacks) /\ j <= count
           /\ callbacks[j] \in From(i) /\ callbacks[j] \in S
           /\ {t \in From(j) : t \in S} = {t \in From(i) : t \in S} \ {callbacks[j]}
<1>1. count \in Nat /\ Len(callbacks) \in Nat /\ count <= Len(callbacks)
  BY Facts
<1>2. \A a, b \in 1 .. Len(callbacks) : callbacks[a] = callbacks[b] => a = b
  BY DEF Inv, TokensAreNew
<1>3. j \in i + 1 .. count /\ j \in 1 .. Len(callbacks) /\ callbacks[j] \in S
  BY <1>1 DEF Wanted
<1>4. ASSUME NEW k \in i + 1 .. count, callbacks[k] \in S, k # j
      PROVE  k \in j + 1 .. count
  <2>1. k \in Wanted(i, S)
    BY <1>4 DEF Wanted
  <2> QED BY <2>1, <1>1, <1>3, <1>4
<1>5. ASSUME NEW k \in j + 1 .. count
      PROVE  k \in i + 1 .. count /\ callbacks[k] # callbacks[j]
  <2>1. k \in i + 1 .. count /\ k \in 1 .. Len(callbacks) /\ k # j
    BY <1>1, <1>3
  <2> QED BY <2>1, <1>2, <1>3
<1> QED BY <1>1, <1>3, <1>4, <1>5 DEF From

\* With no position left there is nobody left to call.
LEMMA NoneLeft ==
    ASSUME Inv, stage # "quiet", ~Lost, NEW i \in Nat, NEW S, Wanted(i, S) = {}
    PROVE  {t \in From(i) : t \in S} = {}
BY Facts DEF Wanted, From

\* With a count that has wrapped around there is always one left.
LEMMA NeverDone ==
    ASSUME Inv, Lost, NEW S PROVE Wanted(index, S) # {}
<1>1. Len(callbacks) + 1 \in index + 1 .. count /\ ~ (Len(callbacks) + 1 <= Len(callbacks))
  BY Facts DEF Lost
<1> QED BY <1>1 DEF Wanted

LEMMA InitInv == Init => Inv
<1> SUFFICES ASSUME Init PROVE Inv
  OBVIOUS
<1>1. callbacks = <<>> /\ Len(callbacks) = 0 /\ callbacks \in Seq(Token)
  BY DEF Init
<1>2. TypeOK
  <2>1. {have, failed, running, posted} \subseteq BOOLEAN
    BY DEF Init
  <2>2. /\ nextToken \in 0 .. MaxTokens /\ index \in 0 .. MaxTokens /\ count \in 0 .. Huge
        /\ accumulated \subseteq Token /\ toDeliver \subseteq Token /\ delivered \subseteq Token
        /\ stage \in Stage /\ called \in Token \cup {NoToken} /\ woke \subseteq Token
        /\ firstNew \in 0 .. MaxTokens /\ undone \in 0 .. MaxTokens
    BY TokensAssumption, HugeAssumption DEF Init, Stage
  <2> QED BY <1>1, <2>1, <2>2 DEF TypeOK
<1>3. ShortByTheUndone /\ HaveIsExact /\ AtIndex /\ NoneForOthers
  BY DEF Init, ShortByTheUndone, HaveIsExact, AtIndex, NoneForOthers
<1>4. TokensAreNew /\ PackagedFirst
  BY <1>1 DEF Init, TokensAreNew, PackagedFirst, NoToken
<1> QED BY <1>2, <1>3, <1>4 DEF Inv

\* What AddCallback leaves of the vector.
LEMMA AddLemma ==
    ASSUME Inv, AddCallback
    PROVE  /\ callbacks' \in Seq(Token) /\ Len(callbacks') = Len(callbacks) + 1
           /\ \A j \in 1 .. Len(callbacks) : callbacks'[j] = callbacks[j]
           /\ callbacks'[Len(callbacks) + 1] = nextToken
           /\ nextToken \in Token /\ nextToken \notin Present
           /\ Present' = Present \cup {nextToken}
           /\ Len(callbacks) \in Nat
           /\ Packaged' = Packaged /\ PackagedFirst'
<1>1. nextToken \in Token /\ callbacks \in Seq(Token) /\ Len(callbacks) \in Nat
  BY TokensAssumption DEF Inv, TypeOK, AddCallback, Token
<1>2. /\ callbacks' \in Seq(Token) /\ Len(callbacks') = Len(callbacks) + 1
      /\ \A j \in 1 .. Len(callbacks) : callbacks'[j] = callbacks[j]
      /\ callbacks'[Len(callbacks) + 1] = nextToken
  BY <1>1 DEF AddCallback
<1>3. nextToken \notin Present
  BY <1>1, TokensAssumption DEF Inv, TokensAreNew, Present, Token
<1>4. \A j \in 1 .. Len(callbacks') : j \in 1 .. Len(callbacks) \/ j = Len(callbacks) + 1
  BY <1>1, <1>2
<1>5. Present' = Present \cup {nextToken}
  <2>1. \A j \in 1 .. Len(callbacks) : j \in 1 .. Len(callbacks')
    BY <1>1, <1>2
  <2>2. Len(callbacks) + 1 \in 1 .. Len(callbacks')
    BY <1>1, <1>2
  <2> QED BY <1>2, <1>4, <2>1, <2>2 DEF Present
<1>6. firstNew' = firstNew /\ ~ (nextToken < firstNew)
  BY <1>1, Facts DEF AddCallback, Token
<1>7. \A i \in 1 .. Len(callbacks') : callbacks'[i] < firstNew' <=> i <= Packaged
  <2>1. \A i \in 1 .. Len(callbacks) : callbacks[i] < firstNew <=> i <= Packaged
    BY DEF Inv, PackagedFirst
  <2>2. ~ (Len(callbacks) + 1 <= Packaged)
    BY Facts
  <2> QED BY <1>2, <1>4, <1>6, <2>1, <2>2
<1>8. Packaged' = Packaged
  <2>1. Len(callbacks') \in Nat /\ Packaged \in 0 .. Len(callbacks')
    BY <1>1, <1>2, Facts
  <2> QED BY <2>1, <1>7, FirstOnes DEF Packaged
<1>9. PackagedFirst'
  BY <1>7, <1>8 DEF PackagedFirst
<1> QED BY <1>1, <1>2, <1>3, <1>5, <1>8, <1>9

LEMMA AddInv == ASSUME Inv, AddCallback PROVE Inv'
<1>0. /\ callbacks' \in Seq(Token) /\ Len(callbacks') = Len(callbacks) + 1
      /\ \A j \in 1 .. Len(callbacks) : callbacks'[j] = callbacks[j]
      /\ callbacks'[Len(callbacks) + 1] = nextToken
      /\ nextToken \in Token /\ Present' = Present \cup {nextToken}
      /\ Packaged' = Packaged /\ PackagedFirst'
  BY AddLemma
<1>a. /\ nextToken < MaxTokens /\ stage # "outside" /\ nextToken' = nextToken + 1
      /\ UNCHANGED <<index, count, failed, accumulated, toDeliver, delivered, stage, running, called,
                     firstNew, undone>>
      /\ IF index = 0
         THEN posted' = TRUE /\ have' = TRUE /\ woke' = woke \cup {nextToken}
         ELSE UNCHANGED <<posted, have, woke>>
  BY DEF AddCallback
<1>1. TypeOK'
  <2>1. {have', failed', running', posted'} \subseteq BOOLEAN /\ woke' \subseteq Token
    BY <1>0, <1>a DEF Inv, TypeOK
  <2>2. nextToken' \in 0 .. MaxTokens
    BY <1>a, Facts
  <2> QED BY <1>0, <1>a, <2>1, <2>2 DEF Inv, TypeOK
<1>2. ShortByTheUndone'
  <2>1. stage # "quiet" => index <= Len(callbacks')
    BY <1>0, Facts
  <2> QED BY <1>0, <1>a, <2>1 DEF Inv, ShortByTheUndone
<1>3. HaveIsExact'
  <2>1. callbacks' # <<>>
    BY <1>0, Facts
  <2>2. index # 0 => callbacks # <<>>
    BY Facts DEF Inv, AtIndex
  <2> QED BY <1>a, <2>1, <2>2 DEF Inv, HaveIsExact
<1>b. \A j \in 1 .. Len(callbacks') : j \in 1 .. Len(callbacks) \/ j = Len(callbacks) + 1
  BY <1>0, Facts
<1>c. \A j \in 1 .. Len(callbacks) : callbacks[j] < nextToken /\ callbacks[j] \in Nat
  BY Facts DEF Inv, TokensAreNew, Token
<1>4. TokensAreNew'
  <2>1. \A j \in 1 .. Len(callbacks') : callbacks'[j] < nextToken'
    <3>1. \A j \in 1 .. Len(callbacks) : callbacks'[j] < nextToken + 1
      <4>1. nextToken \in Nat
        BY Facts
      <4>2. \A k \in Nat : k < nextToken => k < nextToken + 1
        BY <4>1
      <4> QED BY <4>2, <1>0, <1>c
    <3> QED BY <3>1, <1>0, <1>a, <1>b, Facts
  <2>2. \A i, j \in 1 .. Len(callbacks') : callbacks'[i] = callbacks'[j] => i = j
    <3>1. \A i, j \in 1 .. Len(callbacks) : callbacks[i] = callbacks[j] => i = j
      BY DEF Inv, TokensAreNew
    <3>2. \A j \in 1 .. Len(callbacks) : callbacks'[j] # nextToken
      BY <1>0, <1>c, Facts
    <3> QED BY <3>1, <3>2, <1>0, <1>b
  <2>3. called' < nextToken'
    BY <1>a, TokensAssumption DEF Inv, TypeOK, TokensAreNew, Token, NoToken
  <2>4. Len(callbacks') + undone' <= nextToken' /\ firstNew' <= nextToken'
    BY <1>0, <1>a, Facts
  <2> QED BY <2>1, <2>2, <2>3, <2>4 DEF TokensAreNew
<1>5. AtIndex'
  <2>1. called # nextToken
    BY TokensAssumption DEF Inv, TypeOK, TokensAreNew, Token, NoToken
  <2> QED BY <1>0, <1>a, <1>b, <2>1 DEF Inv, AtIndex
<1>6. NoneForOthers'
  BY <1>0, <1>a DEF Inv, NoneForOthers
<1> QED BY <1>0, <1>1, <1>2, <1>3, <1>4, <1>5, <1>6 DEF Inv

\* Erasing keeps the invariant, for RemoveCallback and for RemoveAfterError.
LEMMA ErasedInv ==
    ASSUME Inv, NEW t \in Token, t \in Present, Erased(t), Undo(t),
           running' = running \/ (running' = FALSE /\ t = called),
           stage # "outside",
           UNCHANGED <<nextToken, failed, delivered, stage, called, posted, woke, firstNew>>
    PROVE  Inv'
<1> DEFINE at == Position(t)
<1>1. /\ callbacks' \in Seq(Token) /\ Len(callbacks') = Len(callbacks) - 1
      /\ Present' = Present \ {t}
      /\ at \in 1 .. Len(callbacks) /\ callbacks[at] = t
      /\ \A j \in 1 .. Len(callbacks') :
            callbacks'[j] = IF j < at THEN callbacks[j] ELSE callbacks[j + 1]
      /\ index' \in 0 .. MaxTokens /\ count' \in 0 .. Huge /\ count' = OneLess(count)
      /\ index' = (IF index # 0 /\ index >= at THEN index - 1 ELSE index)
      /\ undone' = (IF stage # "quiet" /\ at > Packaged THEN undone + 1 ELSE undone)
      /\ Packaged' = (IF at <= Packaged THEN Packaged - 1 ELSE Packaged)
      /\ PackagedFirst'
  BY ErasedLemma
<1>2. /\ have' = (callbacks' # <<>>) /\ accumulated' = accumulated \ {t}
      /\ toDeliver' = toDeliver \ {t}
  BY DEF Erased
<1> HIDE DEF at
<1>3. undone' \in 0 .. MaxTokens /\ Len(callbacks') + undone' <= nextToken'
  <2>1. /\ Len(callbacks) \in Nat /\ undone \in Nat /\ MaxTokens \in Nat /\ nextToken \in Nat
        /\ nextToken <= MaxTokens /\ Len(callbacks) + undone <= nextToken /\ Len(callbacks) >= 1
    BY <1>1, Facts
  <2>2. undone' \in {undone, undone + 1} /\ Len(callbacks') = Len(callbacks) - 1 /\ nextToken' = nextToken
    BY <1>1
  <2> QED BY <2>1, <2>2
<1>4. \A j \in 1 .. Len(callbacks') :
         \E k \in 1 .. Len(callbacks) : callbacks'[j] = callbacks[k] /\ k = IF j < at THEN j ELSE j + 1
  <2> SUFFICES ASSUME NEW j \in 1 .. Len(callbacks')
               PROVE  \E k \in 1 .. Len(callbacks) :
                         callbacks'[j] = callbacks[k] /\ k = IF j < at THEN j ELSE j + 1
    OBVIOUS
  <2>1. j \in Nat /\ at \in Nat /\ j <= Len(callbacks) - 1
    BY <1>1, Facts
  <2>2. CASE j < at
    <3>1. j \in 1 .. Len(callbacks)
      BY <1>1, Facts, <2>1, <2>2
    <3>2. callbacks'[j] = callbacks[j]
      BY <1>1, <2>2
    <3> QED BY <2>2, <3>1, <3>2
  <2>3. CASE ~(j < at)
    <3>1. j + 1 \in 1 .. Len(callbacks)
      BY <1>1, Facts, <2>1, <2>3
    <3>2. callbacks'[j] = callbacks[j + 1]
      BY <1>1, <2>3
    <3> QED BY <2>3, <3>1, <3>2
  <2> QED BY <2>2, <2>3
<1>5. TypeOK'
  <2>1. {have', failed', running', posted'} \subseteq BOOLEAN
    BY <1>2 DEF Inv, TypeOK
  <2> QED BY <1>1, <1>2, <1>3, <2>1 DEF Inv, TypeOK
<1>6. ShortByTheUndone'
  <2> SUFFICES ASSUME stage # "quiet"
               PROVE  /\ count' = IF undone' <= Packaged' THEN Packaged' - undone'
                                  ELSE Huge + 1 + Packaged' - undone'
                      /\ index' <= IF undone' <= Packaged' THEN Packaged' ELSE Len(callbacks')
    BY DEF ShortByTheUndone
  <2>1. /\ count = IF undone <= Packaged THEN Packaged - undone ELSE Huge + 1 + Packaged - undone
        /\ index <= IF undone <= Packaged THEN Packaged ELSE Len(callbacks)
    BY DEF Inv, ShortByTheUndone
  <2>2. /\ Packaged \in Nat /\ undone \in Nat /\ Huge \in Nat /\ Len(callbacks) \in Nat /\ index \in Nat
        /\ Packaged <= Len(callbacks) /\ Huge > 2 * MaxTokens /\ MaxTokens \in Nat /\ undone <= MaxTokens
    BY Facts
  <2>3. /\ at \in 1 .. Len(callbacks)
        /\ undone' = IF at > Packaged THEN undone + 1 ELSE undone
        /\ Packaged' = IF at <= Packaged THEN Packaged - 1 ELSE Packaged
        /\ index' = IF index # 0 /\ index >= at THEN index - 1 ELSE index
    BY <1>1
  <2>4. /\ OneLess(count) = IF undone' <= Packaged' THEN Packaged' - undone'
                            ELSE Huge + 1 + Packaged' - undone'
        /\ index' <= IF undone' <= Packaged' THEN Packaged' ELSE Len(callbacks) - 1
    <3>1. PICK p \in Int, u \in Nat : p = Packaged' /\ u = undone'
      BY <2>2, <2>3
    <3>2. /\ p = IF at <= Packaged THEN Packaged - 1 ELSE Packaged
          /\ u = IF at > Packaged THEN undone + 1 ELSE undone
      BY <2>3, <3>1
    <3>3. p - u = Packaged - undone - 1
      BY <2>2, <2>3, <3>2
    <3>4. OneLess(count) = IF u <= p THEN p - u ELSE Huge + 1 + p - u
      <4>1. count = 0 <=> undone = Packaged
        BY <2>1, <2>2
      <4> QED BY <2>1, <2>2, <3>3, <4>1 DEF OneLess
    <3>5. index' <= IF u <= p THEN p ELSE Len(callbacks) - 1
      <4>1. CASE undone <= Packaged
        BY <4>1, <2>1, <2>2, <2>3, <3>2
      <4>2. CASE ~ (undone <= Packaged)
        BY <4>2, <2>1, <2>2, <2>3, <3>2
      <4> QED BY <4>1, <4>2
    <3> QED BY <3>1, <3>4, <3>5
  <2>5. count' = OneLess(count) /\ Len(callbacks') = Len(callbacks) - 1
    BY <1>1
  <2> QED BY <2>4, <2>5
<1>7. TokensAreNew'
  <2>1. \A j \in 1 .. Len(callbacks') : callbacks'[j] < nextToken'
    BY <1>4 DEF Inv, TokensAreNew
  <2>2. ASSUME NEW i \in 1 .. Len(callbacks'), NEW j \in 1 .. Len(callbacks'), callbacks'[i] = callbacks'[j]
        PROVE  i = j
    <3>1. PICK k \in 1 .. Len(callbacks) : callbacks'[i] = callbacks[k] /\ k = IF i < at THEN i ELSE i + 1
      BY <1>4
    <3>2. PICK m \in 1 .. Len(callbacks) : callbacks'[j] = callbacks[m] /\ m = IF j < at THEN j ELSE j + 1
      BY <1>4
    <3>3. k = m
      BY <2>2, <3>1, <3>2 DEF Inv, TokensAreNew
    <3> QED BY <3>1, <3>2, <3>3, <1>1
  <2> QED BY <2>1, <2>2, <1>3 DEF Inv, TokensAreNew
<1>8. AtIndex'
  <2>1. index' # 0 => stage' \in {"before", "after", "error", "outside"}
    <3>1. index' # 0 => index # 0
      BY <1>1, Facts
    <3> QED BY <3>1 DEF Inv, AtIndex
  <2>2. ASSUME stage' = "error", running', NEW i \in 1 .. Len(callbacks'), callbacks'[i] = called'
        PROVE  i = index'
    <3>1. PICK k \in 1 .. Len(callbacks) : callbacks'[i] = callbacks[k] /\ k = IF i < at THEN i ELSE i + 1
      BY <1>4
    <3>2. running = TRUE
      BY <2>2 DEF Inv, TypeOK
    <3>3. k = index
      BY <2>2, <3>1, <3>2 DEF Inv, AtIndex
    <3>4. k # at
      BY <3>1, <1>1
    <3> QED BY <3>1, <3>3, <3>4, <1>1
  <2> QED BY <2>1, <2>2 DEF AtIndex
<1>9. NoneForOthers' /\ HaveIsExact'
  BY <1>1, <1>2 DEF Inv, NoneForOthers, HaveIsExact
<1> QED BY <1>1, <1>5, <1>6, <1>7, <1>8, <1>9 DEF Inv

LEMMA RemoveInv == ASSUME Inv, NEW t \in Token, RemoveCallback(t) PROVE Inv'
BY ErasedInv DEF RemoveCallback

\* The parts that a step which leaves the vector alone keeps.
LEMMA SameList ==
    ASSUME Inv, UNCHANGED <<callbacks, nextToken, have, accumulated, firstNew, undone>>,
           called' \in Present \cup {called}, toDeliver' \subseteq toDeliver
    PROVE  /\ TokensAreNew' /\ PackagedFirst' /\ HaveIsExact' /\ NoneForOthers'
           /\ Present' = Present /\ Packaged' = Packaged
<1>1. Packaged' = Packaged /\ Present' = Present
  BY DEF Packaged, Present
<1>2. called' < nextToken
  BY DEF Inv, TokensAreNew, Present
<1> QED BY <1>1, <1>2 DEF Inv, TokensAreNew, PackagedFirst, HaveIsExact, NoneForOthers

LEMMA GoOnInv ==
    ASSUME Inv, NEW S, stage \notin {"quiet", "outside"},
           NEW round \in {"before", "after", "error"}, NEW done \in {"between", "quiet"},
           GoOn(index, S, round, done), UNCHANGED <<state, count>>
    PROVE  Inv'
<1>0. UNCHANGED <<callbacks, nextToken, have, failed, accumulated, posted, woke, firstNew, undone, count>>
  BY DEF state
<1>1. CASE Wanted(index, S) = {} /\ index' = 0 /\ running' = FALSE /\ stage' = done
           /\ UNCHANGED <<called, toDeliver, delivered>>
  <2>1. TypeOK'
    <3>1. {have', failed', running', posted'} \subseteq BOOLEAN /\ stage' \in Stage
      BY <1>0, <1>1 DEF Inv, TypeOK, Stage
    <3>2. index' \in 0 .. MaxTokens
      BY <1>1, Facts
    <3> QED BY <3>1, <3>2, <1>0, <1>1 DEF Inv, TypeOK
  <2>2. ~Lost
    BY <1>1, NeverDone
  <2>3. /\ TokensAreNew' /\ PackagedFirst' /\ HaveIsExact' /\ NoneForOthers'
        /\ Packaged' = Packaged
    BY <1>0, <1>1, SameList
  <2>4. ShortByTheUndone'
    BY <1>0, <1>1, <2>2, <2>3, Facts DEF ShortByTheUndone, Inv, Lost
  <2>5. AtIndex'
    BY <1>1 DEF AtIndex
  <2> QED BY <2>1, <2>3, <2>4, <2>5 DEF Inv
<1>2. ASSUME NEW j \in Wanted(index, S), \A k \in Wanted(index, S) : j <= k,
             j <= Len(callbacks), CallAt(j, round)
      PROVE  Inv'
  <2>0. /\ index' = j /\ running' = TRUE /\ stage' = round /\ called' = callbacks[j]
        /\ toDeliver' \subseteq toDeliver /\ delivered' \subseteq delivered \cup {callbacks[j]}
    BY <1>2 DEF CallAt
  <2>1. j \in 1 .. Len(callbacks) /\ j <= count /\ callbacks[j] \in Token /\ j <= MaxTokens
    <3>1. j \in index + 1 .. count
      BY <1>2 DEF Wanted
    <3> QED BY <3>1, <1>2, Facts
  <2>2. TypeOK'
    <3>1. {have', failed', running', posted'} \subseteq BOOLEAN /\ stage' \in Stage
      BY <1>0, <2>0 DEF Inv, TypeOK, Stage
    <3> QED BY <3>1, <1>0, <2>0, <2>1 DEF Inv, TypeOK
  <2>3. /\ TokensAreNew' /\ PackagedFirst' /\ HaveIsExact' /\ NoneForOthers'
        /\ Packaged' = Packaged
    BY <1>0, <2>0, <2>1, SameList DEF Present
  <2>4. ShortByTheUndone'
    <3>1. undone <= Packaged => j <= Packaged
      BY <2>1, Facts DEF Lost
    <3> QED BY <3>1, <1>0, <2>0, <2>1, <2>3 DEF ShortByTheUndone, Inv
  <2>5. AtIndex'
    BY <1>0, <2>0, <2>1 DEF AtIndex, Inv, TokensAreNew
  <2> QED BY <2>2, <2>3, <2>4, <2>5 DEF Inv
<1>3. ASSUME NEW j \in Wanted(index, S), j > Len(callbacks),
             stage' = "outside", running' = FALSE, UNCHANGED <<index, called, toDeliver, delivered>>
      PROVE  Inv'
  <2>1. Lost
    BY <1>3, Facts DEF Wanted
  <2>2. TypeOK'
    <3>1. {have', failed', running', posted'} \subseteq BOOLEAN /\ stage' \in Stage
      BY <1>0, <1>3 DEF Inv, TypeOK, Stage
    <3> QED BY <3>1, <1>0, <1>3 DEF Inv, TypeOK
  <2>3. /\ TokensAreNew' /\ PackagedFirst' /\ HaveIsExact' /\ NoneForOthers'
        /\ Packaged' = Packaged
    BY <1>0, <1>3, SameList
  <2>4. ShortByTheUndone'
    BY <1>0, <1>3, <2>1, <2>3, Facts DEF ShortByTheUndone, Inv, Lost
  <2>5. AtIndex'
    BY <1>3 DEF AtIndex, Inv
  <2> QED BY <2>2, <2>3, <2>4, <2>5 DEF Inv
<1> QED BY <1>1, <1>2, <1>3 DEF GoOn

\* Setting the count anew counts every callback there is.
LEMMA CountedAnew ==
    ASSUME Inv, callbacks' = callbacks, nextToken' = nextToken, count' = Len(callbacks),
           firstNew' = nextToken, undone' = 0
    PROVE  Packaged' = Len(callbacks) /\ PackagedFirst'
<1>1. \A i \in 1 .. Len(callbacks') : callbacks'[i] < firstNew' <=> i <= Len(callbacks)
  BY Facts DEF Inv, TokensAreNew
<1>2. Len(callbacks') \in Nat /\ Len(callbacks) \in 0 .. Len(callbacks')
  BY Facts
<1>3. Packaged' = Len(callbacks)
  BY <1>1, <1>2, FirstOnes DEF Packaged
<1> QED BY <1>1, <1>3 DEF PackagedFirst

LEMMA PackageInv == ASSUME Inv, PackageForDelivery PROVE Inv'
<1>0. /\ index = 0 /\ stage = "quiet" /\ stage' = "packaged" /\ posted' = FALSE
      /\ toDeliver' = accumulated /\ accumulated' = {}
      /\ count' = Len(callbacks) /\ firstNew' = nextToken /\ undone' = 0
      /\ UNCHANGED <<callbacks, nextToken, index, have, failed, delivered, running, called, woke>>
  BY DEF PackageForDelivery, Inv, AtIndex
<1>1. Packaged' = Len(callbacks) /\ PackagedFirst'
  BY <1>0, CountedAnew
<1>2. TypeOK'
  <2>1. {have', failed', running', posted'} \subseteq BOOLEAN /\ stage' \in Stage
    BY <1>0 DEF Inv, TypeOK, Stage
  <2>2. count' \in 0 .. Huge /\ undone' \in 0 .. MaxTokens
    BY <1>0, Facts
  <2> QED BY <1>0, <2>1, <2>2 DEF Inv, TypeOK
<1>3. ShortByTheUndone'
  BY <1>0, <1>1, Facts DEF ShortByTheUndone
<1>4. TokensAreNew'
  BY <1>0, Facts DEF Inv, TokensAreNew
<1>5. AtIndex' /\ HaveIsExact' /\ NoneForOthers'
  BY <1>0 DEF Inv, AtIndex, HaveIsExact, NoneForOthers, Present
<1> QED BY <1>1, <1>2, <1>3, <1>4, <1>5 DEF Inv

\* What an error does first.
LEMMA DeliverErrorInv == ASSUME Inv, DeliverError PROVE Inv'
<1>0. /\ index = 0 /\ stage = "quiet" /\ posted' = FALSE
      /\ count' = Len(callbacks) /\ firstNew' = nextToken /\ undone' = 0
      /\ UNCHANGED <<callbacks, nextToken, have, failed, accumulated, toDeliver, delivered, woke>>
  BY DEF DeliverError, Inv, AtIndex
<1>1. Packaged' = Len(callbacks) /\ PackagedFirst'
  BY <1>0, CountedAnew
<1>2. count' \in 0 .. Huge /\ undone' \in 0 .. MaxTokens
  BY <1>0, Facts
<1>3. HaveIsExact' /\ NoneForOthers'
  BY <1>0 DEF Inv, HaveIsExact, NoneForOthers, Present
<1>4. CASE callbacks = <<>>
  <2>1. UNCHANGED <<index, running, stage, called>>
    BY <1>4 DEF DeliverError
  <2>2. {have', failed', running', posted'} \subseteq BOOLEAN
    BY <1>0, <2>1 DEF Inv, TypeOK
  <2>3. TypeOK'
    BY <1>0, <1>2, <2>1, <2>2 DEF Inv, TypeOK
  <2>4. ShortByTheUndone' /\ AtIndex'
    BY <1>0, <2>1 DEF ShortByTheUndone, AtIndex
  <2>5. TokensAreNew'
    BY <1>0, <2>1, Facts DEF Inv, TokensAreNew
  <2> QED BY <1>1, <1>3, <2>3, <2>4, <2>5 DEF Inv
<1>5. CASE callbacks # <<>>
  <2>0. 1 \in 1 .. Len(callbacks) /\ callbacks[1] \in Token
    BY <1>5, Facts
  <2>1. index' = 1 /\ running' = TRUE /\ stage' = "error" /\ called' = callbacks[1]
    BY <1>5 DEF DeliverError
  <2>2. {have', failed', running', posted'} \subseteq BOOLEAN /\ stage' \in Stage
    BY <1>0, <2>1 DEF Inv, TypeOK, Stage
  <2>a. index' \in 0 .. MaxTokens
    BY <2>0, <2>1, Facts
  <2>3. TypeOK'
    BY <1>0, <1>2, <2>0, <2>1, <2>2, <2>a DEF Inv, TypeOK
  <2>4. ShortByTheUndone'
    BY <1>0, <1>1, <2>0, <2>1, Facts DEF ShortByTheUndone
  <2>5. AtIndex'
    BY <1>0, <2>0, <2>1 DEF Inv, AtIndex, TokensAreNew
  <2>6. TokensAreNew'
    BY <1>0, <2>0, <2>1, Facts DEF Inv, TokensAreNew
  <2> QED BY <1>1, <1>3, <2>3, <2>4, <2>5, <2>6 DEF Inv
<1> QED BY <1>4, <1>5

\* Every step of the specification keeps the invariant.
LEMMA StepInv == ASSUME Inv, [Next]_vars PROVE Inv'
<1>1. CASE AddCallback
  BY <1>1, AddInv
<1>2. CASE AddChanges
  <2>1. TypeOK'
    <3>1. accumulated' \subseteq Token
      BY <1>2 DEF AddChanges, Inv, TypeOK, Present
    <3>2. {have', failed', running', posted'} \subseteq BOOLEAN
      BY <1>2 DEF AddChanges, Inv, TypeOK
    <3> QED BY <1>2, <3>1, <3>2 DEF AddChanges, Inv, TypeOK
  <2>2. ShortByTheUndone' /\ PackagedFirst'
    BY <1>2 DEF AddChanges, Inv, ShortByTheUndone, PackagedFirst, Packaged
  <2> QED BY <1>2, <2>1, <2>2
      DEF AddChanges, Inv, HaveIsExact, TokensAreNew, AtIndex, Present, NoneForOthers
<1>3. CASE AsyncError
  <2>1. {have', failed', running', posted'} \subseteq BOOLEAN
    BY <1>3 DEF AsyncError, Inv, TypeOK
  <2>2. ShortByTheUndone' /\ PackagedFirst'
    BY <1>3 DEF AsyncError, Inv, ShortByTheUndone, PackagedFirst, Packaged
  <2> QED BY <1>3, <2>1, <2>2
      DEF AsyncError, Inv, TypeOK, HaveIsExact, TokensAreNew, AtIndex, Present, NoneForOthers
<1>4. ASSUME NEW t \in Token, RemoveCallback(t) PROVE Inv'
  BY <1>4, RemoveInv
<1>5. CASE PackageForDelivery
  BY <1>5, PackageInv
<1>6. CASE BeforeAdvance
  BY <1>6, GoOnInv DEF BeforeAdvance
<1>7. CASE AlreadyThere \/ AssertionFails
  <2>0. /\ UNCHANGED <<callbacks, nextToken, have, failed, accumulated, posted, woke, firstNew, undone>>
        /\ UNCHANGED <<index, count, toDeliver, delivered, running, called>>
        /\ stage' \in {"between", "outside"} /\ stage \in {"packaged", "between"}
        /\ stage' = "outside" => count > Len(callbacks)
    BY <1>7 DEF AlreadyThere, AssertionFails, state
  <2>1. TypeOK'
    <3>1. {have', failed', running', posted'} \subseteq BOOLEAN /\ stage' \in Stage
      BY <2>0 DEF Inv, TypeOK, Stage
    <3> QED BY <2>0, <3>1 DEF Inv, TypeOK
  <2>2. /\ TokensAreNew' /\ PackagedFirst' /\ HaveIsExact' /\ NoneForOthers'
        /\ Packaged' = Packaged
    BY <2>0, SameList
  <2>3. stage' = "outside" => undone > Packaged
    BY <2>0, Facts DEF Lost
  <2>4. ShortByTheUndone' /\ AtIndex'
    BY <2>0, <2>2, <2>3 DEF Inv, ShortByTheUndone, AtIndex
  <2> QED BY <2>1, <2>2, <2>4 DEF Inv
<1>8. CASE AfterAdvance
  BY <1>8, GoOnInv DEF AfterAdvance
<1>9. CASE DeliverError
  BY <1>9, DeliverErrorInv
<1>10. CASE RemoveAfterError
  <2>1. CASE called \in Present
    <3>1. called \in Token
      BY <2>1 DEF Inv, TypeOK, Present
    <3> QED BY <1>10, <2>1, <3>1, ErasedInv DEF RemoveAfterError
  <2>2. CASE called \notin Present
    <3>0. /\ UNCHANGED <<callbacks, index, count, have, accumulated, toDeliver, undone>>
          /\ UNCHANGED <<nextToken, failed, delivered, stage, called, posted, woke, firstNew>>
          /\ running' = FALSE
      BY <1>10, <2>2 DEF RemoveAfterError
    <3>1. {have', failed', running', posted'} \subseteq BOOLEAN
      BY <3>0 DEF Inv, TypeOK
    <3>2. TypeOK'
      BY <3>0, <3>1 DEF Inv, TypeOK
    <3>3. /\ TokensAreNew' /\ PackagedFirst' /\ HaveIsExact' /\ NoneForOthers'
          /\ Packaged' = Packaged
      BY <3>0, SameList
    <3> QED BY <3>0, <3>2, <3>3 DEF Inv, ShortByTheUndone, AtIndex
  <2> QED BY <2>1, <2>2
<1>11. CASE NextError
  BY <1>11, GoOnInv DEF NextError
<1>12. CASE UNCHANGED vars
  BY <1>12 DEF vars, Inv, TypeOK, ShortByTheUndone, PackagedFirst, Packaged, HaveIsExact, TokensAreNew,
               AtIndex, Present, NoneForOthers
<1> QED BY <1>1, <1>2, <1>3, <1>4, <1>5, <1>6, <1>7, <1>8, <1>9, <1>10, <1>11, <1>12 DEF Next, Deliver

\* The count of a delivery, its index and the flag always fit the vector.
THEOREM Invariance == Spec => []Inv
<1>1. Init => Inv
  BY InitInv
<1>2. Inv /\ [Next]_vars => Inv'
  BY StepInv
<1> QED BY <1>1, <1>2, PTL DEF Spec

\* What a delivery falls short of, and when it goes beyond the vector.
THEOREM AlwaysShortByTheUndone == Spec => []ShortByTheUndone
<1>1. Inv => ShortByTheUndone
  BY DEF Inv
<1> QED BY <1>1, Invariance, PTL

\* The cached flag.
THEOREM HaveIsAlwaysExact == Spec => []HaveIsExact
<1>1. Inv => HaveIsExact
  BY DEF Inv
<1> QED BY <1>1, Invariance, PTL

\* The types.
THEOREM TypesAreKept == Spec => []TypeOK
<1>1. Inv => TypeOK
  BY DEF Inv
<1> QED BY <1>1, Invariance, PTL

-----------------------------------------------------------------------------
\* The refinement of Delivery, step by step.

\* Whoever a lost delivery still calls, nothing is promised of it.
LEMMA LostStays ==
    ASSUME Lost, Lost', UNCHANGED callbacks PROVE UNCHANGED D!vars
BY DEF D!vars, Present, Covered, ToBefore, ToAfter, Promised, Lost

LEMMA AddRefines == ASSUME Inv, AddCallback PROVE D!Add(nextToken)
<1>1. /\ Present' = Present \cup {nextToken} /\ nextToken \notin Present /\ Packaged' = Packaged
      /\ \A j \in 1 .. Len(callbacks) : callbacks'[j] = callbacks[j]
  BY AddLemma
<1>2. UNCHANGED <<index, count, toDeliver, delivered, stage, undone>>
  BY DEF AddCallback
<1>3. (Lost' <=> Lost) /\ \A t : Told(t)' <=> Told(t)
  BY <1>1, <1>2 DEF Lost, Told
<1>4. stage # "quiet" /\ ~Lost => From(index)' = From(index) /\ From(0)' = From(0)
  <2>1. ASSUME stage # "quiet", ~Lost, NEW i \in Nat PROVE \A j \in i + 1 .. count : callbacks'[j] = callbacks[j]
    BY <2>1, <1>1, Facts
  <2>2. index \in Nat /\ 0 \in Nat
    BY Facts
  <2> QED BY <2>1, <2>2, <1>2 DEF From
<1>5. ToBefore' = ToBefore /\ ToAfter' = ToAfter /\ Promised' = Promised /\ Covered' = Covered
  BY <1>2, <1>3, <1>4 DEF ToBefore, ToAfter, Promised, Covered
<1> QED BY <1>1, <1>5 DEF D!Add

\* What erasing takes from the positions after one of them, up to the count:
\* the callback itself, or the last of them when it is not among them.
LEMMA ErasedFrom ==
    ASSUME Inv, NEW t \in Token, t \in Present, Erased(t), Undo(t), firstNew' = firstNew,
           stage # "quiet", ~Lost, NEW at, at = Position(t), count # 0,
           NEW i, NEW i2, (i = 0 /\ i2 = 0) \/ (i = index /\ i2 = index')
    PROVE  {callbacks'[j] : j \in i2 + 1 .. count - 1}
              = From(i) \ {IF at <= count THEN t ELSE callbacks[count]}
<1>1. /\ Len(callbacks') = Len(callbacks) - 1
      /\ at \in 1 .. Len(callbacks) /\ callbacks[at] = t
      /\ \A j \in 1 .. Len(callbacks') :
            callbacks'[j] = IF j < at THEN callbacks[j] ELSE callbacks[j + 1]
      /\ index' = (IF index # 0 /\ index >= at THEN index - 1 ELSE index)
  BY ErasedLemma
<1>2. count \in Nat /\ count >= 1 /\ count <= Len(callbacks) /\ Len(callbacks) \in Nat /\ index \in Nat
  BY Facts
<1>3. \A a, b \in 1 .. Len(callbacks) : callbacks[a] = callbacks[b] => a = b
  BY DEF Inv, TokensAreNew
<1>4. i \in Nat /\ i2 \in Nat /\ i2 = IF i # 0 /\ i >= at THEN i - 1 ELSE i
  BY <1>1, <1>2
<1> DEFINE gone == IF at <= count THEN at ELSE count
<1>5. gone \in 1 .. count /\ callbacks[gone] = IF at <= count THEN t ELSE callbacks[count]
  BY <1>1, <1>2
<1>6. ASSUME NEW j \in i2 + 1 .. count - 1
      PROVE  callbacks'[j] \in From(i) \ {callbacks[gone]}
  <2>1. PICK k \in i + 1 .. count : k # gone /\ k \in 1 .. Len(callbacks) /\ callbacks'[j] = callbacks[k]
    <3>0. j \in 1 .. Len(callbacks')
      BY <1>1, <1>2, <1>4
    <3>1. CASE j < at
      <4>1. j \in i + 1 .. count /\ j # gone /\ j \in 1 .. Len(callbacks)
        BY <3>1, <1>1, <1>2, <1>4
      <4> QED BY <3>0, <3>1, <4>1, <1>1
    <3>2. CASE ~ (j < at)
      <4>1. j + 1 \in i + 1 .. count /\ j + 1 # gone /\ j + 1 \in 1 .. Len(callbacks)
        BY <3>2, <1>1, <1>2, <1>4
      <4> QED BY <3>0, <3>2, <4>1, <1>1
    <3> QED BY <3>1, <3>2
  <2>2. gone \in 1 .. Len(callbacks)
    BY <1>2, <1>5
  <2>3. callbacks[k] # callbacks[gone]
    BY <2>1, <2>2, <1>3
  <2> QED BY <2>1, <2>3 DEF From
<1>7. ASSUME NEW k \in i + 1 .. count, callbacks[k] # callbacks[gone]
      PROVE  callbacks[k] \in {callbacks'[j] : j \in i2 + 1 .. count - 1}
  <2>0. k # gone /\ k \in 1 .. Len(callbacks)
    BY <1>7, <1>2, <1>4
  <2>1. CASE k < at
    <3>1. k \in i2 + 1 .. count - 1 /\ k \in 1 .. Len(callbacks')
      BY <2>0, <2>1, <1>1, <1>2, <1>4
    <3>2. callbacks'[k] = callbacks[k]
      BY <2>1, <3>1, <1>1
    <3> QED BY <3>1, <3>2
  <2>2. CASE ~ (k < at)
    <3>1. k - 1 \in i2 + 1 .. count - 1 /\ k - 1 \in 1 .. Len(callbacks') /\ ~ (k - 1 < at) /\ (k - 1) + 1 = k
      BY <2>0, <2>2, <1>1, <1>2, <1>4
    <3>2. callbacks'[k - 1] = callbacks[k]
      BY <3>1, <1>1
    <3> QED BY <3>1, <3>2
  <2> QED BY <2>1, <2>2
<1> HIDE DEF gone
<1> QED BY <1>5, <1>6, <1>7 DEF From

LEMMA ErasedRefines ==
    ASSUME Inv, NEW t \in Token, t \in Present, Erased(t), Undo(t), stage # "outside",
           UNCHANGED <<delivered, stage, firstNew>>
    PROVE  D!Remove(t) \/ D!RemoveUncovered(t)
<1> DEFINE at == Position(t)
<1>1. /\ Present' = Present \ {t}
      /\ at \in 1 .. Len(callbacks) /\ callbacks[at] = t
      /\ count' = OneLess(count)
      /\ undone' = (IF stage # "quiet" /\ at > Packaged THEN undone + 1 ELSE undone)
      /\ Packaged' = (IF at <= Packaged THEN Packaged - 1 ELSE Packaged)
  BY ErasedLemma
<1>2. toDeliver' = toDeliver \ {t} /\ stage' = stage /\ delivered' = delivered
  BY DEF Erased
<1>a. PICK p \in Int, u \in Nat : p = Packaged' /\ u = undone'
  BY <1>1, Facts
<1>b. Lost' <=> stage # "quiet" /\ u > p
  BY <1>a, <1>2 DEF Lost
<1>c. \A s : s # t => (Told(s)' <=> Told(s))
  BY <1>2 DEF Told
<1>3. CASE stage = "quiet"
  <2>1. ~Lost /\ ~Lost'
    BY <1>3, <1>b DEF Lost
  <2>2. /\ Covered = {} /\ ToBefore = {} /\ ToAfter = {} /\ Promised = "quiet"
        /\ Covered' = {} /\ ToBefore' = {} /\ ToAfter' = {} /\ Promised' = "quiet"
    BY <1>2, <1>3, <2>1 DEF Covered, ToBefore, ToAfter, Promised
  <2> QED BY <1>1, <2>2 DEF D!Remove, D!Forget
<1>4. CASE Lost
  <2>1. Lost'
    <3>1. undone > Packaged /\ stage # "quiet" /\ undone \in Nat /\ Packaged \in Nat /\ at \in Nat
      BY <1>4, <1>1, Facts DEF Lost
    <3>2. /\ p = IF at <= Packaged THEN Packaged - 1 ELSE Packaged
          /\ u = IF at > Packaged THEN undone + 1 ELSE undone
      BY <3>1, <1>1, <1>a
    <3>3. u > p
      BY <3>1, <3>2
    <3> QED BY <3>1, <3>3, <1>b
  <2>2. /\ Covered = {} /\ ToBefore = {} /\ ToAfter = {} /\ Promised = "lost"
        /\ Covered' = {} /\ ToBefore' = {} /\ ToAfter' = {} /\ Promised' = "lost"
    BY <1>4, <2>1 DEF Covered, ToBefore, ToAfter, Promised
  <2> QED BY <1>1, <2>2 DEF D!Remove, D!Forget
<1>5. CASE stage # "quiet" /\ ~Lost
  <2>0. /\ count = Packaged - undone /\ count \in Nat /\ count <= Len(callbacks)
        /\ undone \in Nat /\ Packaged \in Nat /\ index \in Nat
    BY <1>5, Facts
  <2>1. Promised \notin {"quiet", "lost"}
    <3>1. stage \in Stage /\ stage # "outside"
      BY DEF Inv, TypeOK
    <3> QED BY <3>1, <1>5 DEF Promised, Stage
  <2>2. Covered = From(0)
    BY <1>5 DEF Covered
  <2>3. CASE count = 0
    <3>1. Lost'
      BY <1>1, <1>a, <1>b, <1>5, <2>0, <2>3
    <3>2. Covered = {} /\ ToBefore = {} /\ ToAfter = {}
      <4>1. From(0) = {} /\ From(index) = {}
        BY <2>0, <2>3 DEF From
      <4> QED BY <2>2, <4>1 DEF ToBefore, ToAfter
    <3>3. Covered' = {} /\ ToBefore' = {} /\ ToAfter' = {} /\ Promised' = "lost"
      BY <3>1 DEF Covered, ToBefore, ToAfter, Promised
    <3> QED BY <1>1, <2>1, <3>2, <3>3 DEF D!RemoveUncovered
  <2>4. CASE count # 0
    <3> DEFINE gone == IF at <= count THEN t ELSE callbacks[count]
    <3>1. ~Lost' /\ count' = count - 1
      BY <1>1, <1>a, <1>b, <2>0, <2>4 DEF OneLess
    <3>2. From(0)' = From(0) \ {gone} /\ From(index)' = From(index) \ {gone}
      <4>1. /\ {callbacks'[j] : j \in 0 + 1 .. count - 1} = From(0) \ {gone}
            /\ {callbacks'[j] : j \in index' + 1 .. count - 1} = From(index) \ {gone}
        BY <1>5, <2>4, ErasedFrom
      <4> QED BY <3>1, <4>1 DEF From
    <3>3. gone \in Covered
      <4>1. at <= count => at \in 0 + 1 .. count
        BY <1>1, <2>0
      <4>2. count \in 0 + 1 .. count
        BY <2>0, <2>4
      <4> QED BY <1>1, <2>2, <4>1, <4>2 DEF From
    <3>4. gone # t => t \notin Covered
      <4>1. \A a, b \in 1 .. Len(callbacks) : callbacks[a] = callbacks[b] => a = b
        BY DEF Inv, TokensAreNew
      <4>2. ASSUME ~ (at <= count), NEW j \in 0 + 1 .. count PROVE callbacks[j] # t
        <5>1. j \in 1 .. Len(callbacks) /\ j # at
          BY <4>2, <2>0, <1>1
        <5> QED BY <5>1, <4>1, <1>1
      <4> QED BY <4>2, <2>2 DEF From
    <3> HIDE DEF gone
    <3>5. Covered' = Covered \ {gone} /\ Promised' = Promised
      BY <3>1, <3>2, <2>2, <1>2, <1>5 DEF Covered, Promised
    <3>6. From(index) \subseteq From(0)
      <4>1. \A j \in index + 1 .. count : j \in 0 + 1 .. count
        BY <2>0
      <4> QED BY <4>1 DEF From
    <3>7. gone = t \/ (t \notin From(0) /\ t \notin From(index))
      BY <3>4, <3>6, <2>2
    <3>8. ToBefore' = ToBefore \ {gone}
      BY <3>1, <3>2, <3>7, <1>2, <1>5 DEF ToBefore
    <3>9. ToAfter' = ToAfter \ {gone}
      <4>1. \A s \in From(0)' : Told(s)' <=> Told(s)
        BY <3>2, <3>7, <1>c
      <4>2. \A s \in From(index)' : Told(s)' <=> Told(s)
        BY <3>2, <3>7, <1>c
      <4>3. CASE stage \in {"packaged", "before"}
        <5>1. ToAfter = {s \in From(0) : ~Told(s)} /\ ToAfter' = {s \in From(0)' : ~Told(s)'}
          BY <4>3, <3>1, <1>2, <1>5 DEF ToAfter
        <5> QED BY <5>1, <4>1, <3>2
      <4>4. CASE stage \in {"between", "after"}
        <5>1. ToAfter = {s \in From(index) : ~Told(s)} /\ ToAfter' = {s \in From(index)' : ~Told(s)'}
          BY <4>4, <3>1, <1>2, <1>5 DEF ToAfter
        <5> QED BY <5>1, <4>2, <3>2
      <4>5. CASE stage = "error"
        <5>1. ToAfter = From(index) /\ ToAfter' = From(index)'
          BY <4>5, <3>1, <1>2, <1>5 DEF ToAfter
        <5> QED BY <5>1, <3>2
      <4> QED BY <4>3, <4>4, <4>5, <1>5 DEF Inv, TypeOK, Stage
    <3>10. CASE gone = t
      BY <3>10, <1>1, <3>3, <3>5, <3>8, <3>9 DEF D!Remove, D!Forget
    <3>11. CASE gone # t
      BY <3>11, <1>1, <2>1, <3>3, <3>4, <3>5, <3>8, <3>9 DEF D!RemoveUncovered, D!Forget
    <3> QED BY <3>10, <3>11
  <2> QED BY <2>3, <2>4
<1> QED BY <1>3, <1>4, <1>5

LEMMA PackageRefines == ASSUME Inv, PackageForDelivery PROVE D!Package
<1>1. /\ index = 0 /\ index' = 0 /\ stage = "quiet" /\ stage' = "packaged"
      /\ count' = Len(callbacks) /\ firstNew' = nextToken /\ undone' = 0
      /\ callbacks' = callbacks /\ nextToken' = nextToken
  BY DEF PackageForDelivery, Inv, AtIndex
<1>2. Present' = Present
  BY <1>1 DEF Present
<1>3. ~Lost /\ ~Lost'
  BY <1>1, CountedAnew, Facts DEF Lost
<1>4. From(0)' = Present
  <2>1. 0 + 1 = 1
    OBVIOUS
  <2> QED BY <1>1, <2>1 DEF From, Present
<1>5. From(index)' = Present
  BY <1>1, <1>4 DEF From
<1>6. ToAfter' = {t \in Present : ~Told(t)'} /\ ToBefore' = {t \in Present : t \in toDeliver'} /\ Covered' = Present
  BY <1>1, <1>3, <1>4, <1>5 DEF ToAfter, ToBefore, Covered
<1>7. ToBefore' \subseteq ToAfter'
  BY <1>6 DEF Told
<1>8. Promised = "quiet" /\ Promised' = "packaged"
  BY <1>1, <1>3 DEF Promised
<1> QED BY <1>2, <1>6, <1>7, <1>8 DEF D!Package

\* The steps that call nobody and leave the delivery where it is.
LEMMA SilentRefines ==
    ASSUME UNCHANGED <<callbacks, index, count, toDeliver, delivered, stage, firstNew, undone>>
    PROVE  UNCHANGED D!vars
BY DEF D!vars, Present, Covered, ToBefore, ToAfter, Promised, Told, From, Lost, Packaged

\* A lost delivery stays lost, whatever round it is in.
LEMMA LostGoesOn ==
    ASSUME Inv, Lost, NEW S, NEW round \in {"before", "after", "error"}, NEW done,
           GoOn(index, S, round, done), UNCHANGED <<state, count>>
    PROVE  UNCHANGED D!vars
<1>1. stage' \in {round, "outside"}
  BY NeverDone DEF GoOn, CallAt
<1>2. Lost'
  BY <1>1 DEF Lost, Packaged, state
<1> QED BY <1>2, LostStays DEF state

LEMMA BeforeRefines ==
    ASSUME Inv, BeforeAdvance PROVE D!EndBefore \/ (\E t \in Token : D!CallBefore(t)) \/ UNCHANGED D!vars
<1>0. /\ stage \in {"packaged", "before"} /\ UNCHANGED <<state, count>>
      /\ GoOn(index, toDeliver, "before", "between")
      /\ index \in Nat /\ Present' = Present /\ Packaged' = Packaged /\ undone' = undone
      /\ callbacks \in Seq(Token) /\ Len(callbacks) \in Nat
  BY Facts DEF BeforeAdvance, state, Present, Packaged
<1>a. callbacks' = callbacks /\ count' = count
  BY <1>0 DEF state
<1>b. CASE Lost
  BY <1>b, <1>0, LostGoesOn
<1>c. CASE ~Lost
  <2>1. CASE Wanted(index, toDeliver) = {} /\ index' = 0 /\ stage' = "between"
             /\ UNCHANGED <<called, toDeliver, delivered>>
    <3>0. ~Lost'
      BY <1>0, <1>c, <2>1 DEF Lost
    <3>1. ToBefore = {} /\ ToBefore' = {}
      BY <1>0, <1>c, <2>1, <3>0, NoneLeft DEF ToBefore
    <3>2. ToAfter' = ToAfter
      <4>1. From(0)' = From(0) /\ From(index)' = From(0) /\ \A t : Told(t)' <=> Told(t)
        BY <1>a, <2>1 DEF From, Told
      <4> QED BY <4>1, <1>0, <1>c, <2>1, <3>0 DEF ToAfter
    <3>3. Covered' = Covered
      BY <1>0, <1>a, <1>c, <2>1, <3>0 DEF Covered, From
    <3>4. Promised = "packaged" /\ Promised' = "between"
      BY <1>0, <1>c, <2>1, <3>0 DEF Promised
    <3> QED BY <1>0, <3>1, <3>2, <3>3, <3>4 DEF D!EndBefore
  <2>2. ASSUME NEW j \in Wanted(index, toDeliver), \A k \in Wanted(index, toDeliver) : j <= k,
               j <= Len(callbacks), CallAt(j, "before")
        PROVE  \E t \in Token : D!CallBefore(t)
    <3>1. /\ callbacks[j] \in From(index) /\ callbacks[j] \in toDeliver /\ j \in 1 .. Len(callbacks)
          /\ {t \in From(j) : t \in toDeliver} = {t \in From(index) : t \in toDeliver} \ {callbacks[j]}
      BY <1>0, <1>c, <2>2, GoOnLemma
    <3>2. index' = j /\ stage' = "before" /\ UNCHANGED <<toDeliver, delivered>>
      BY <2>2 DEF CallAt
    <3>3. ~Lost'
      BY <1>0, <1>c, <3>2 DEF Lost
    <3>4. From(index)' = From(j) /\ From(0)' = From(0)
      BY <1>a, <3>2 DEF From
    <3>5. ToBefore' = ToBefore \ {callbacks[j]} /\ callbacks[j] \in ToBefore
      BY <1>0, <1>c, <3>1, <3>2, <3>3, <3>4 DEF ToBefore
    <3>6. ToAfter' = ToAfter /\ Covered' = Covered
      <4>1. \A t : Told(t)' <=> Told(t)
        BY <3>2 DEF Told
      <4> QED BY <4>1, <1>0, <1>c, <3>2, <3>3, <3>4 DEF ToAfter, Covered
    <3>7. callbacks[j] \in Token
      BY <1>0, <3>1
    <3>8. Promised = "packaged" /\ Promised' = "packaged"
      BY <1>0, <1>c, <3>2, <3>3 DEF Promised
    <3> QED BY <1>0, <3>5, <3>6, <3>7, <3>8 DEF D!CallBefore
  <2>3. ASSUME NEW j \in Wanted(index, toDeliver), j > Len(callbacks) PROVE FALSE
    BY <1>0, <1>c, <2>3, Facts DEF Wanted
  <2> QED BY <1>0, <2>1, <2>2, <2>3 DEF GoOn
<1> QED BY <1>b, <1>c

LEMMA AfterRefines ==
    ASSUME Inv, AfterAdvance PROVE D!End \/ (\E t \in Token : D!CallAfter(t)) \/ UNCHANGED D!vars
<1> DEFINE S == {t \in Token : ~Told(t)}
<1>0. /\ stage \in {"between", "after"} /\ UNCHANGED <<state, count>>
      /\ GoOn(index, S, "after", "quiet")
      /\ index \in Nat /\ Present' = Present /\ Packaged' = Packaged /\ undone' = undone
      /\ callbacks \in Seq(Token) /\ Len(callbacks) \in Nat
  BY Facts DEF AfterAdvance, state, Present, Packaged
<1>a. callbacks' = callbacks /\ count' = count
  BY <1>0 DEF state
<1>b. CASE Lost
  BY <1>b, <1>0, LostGoesOn
<1>c. CASE ~Lost
  <2>a. ASSUME NEW i \in Nat PROVE From(i) \subseteq Token
    BY <1>0, <1>c, Facts DEF From
  <2>1. CASE Wanted(index, S) = {} /\ index' = 0 /\ stage' = "quiet"
             /\ UNCHANGED <<called, toDeliver, delivered>>
    <3>1. {t \in From(index) : t \in S} = {}
      BY <1>0, <1>c, <2>1, NoneLeft
    <3>2. ToAfter = {} /\ ToBefore = {} /\ Promised = "between"
      BY <1>0, <1>c, <3>1, <2>a DEF ToAfter, ToBefore, Promised
    <3>3. ~Lost'
      BY <2>1 DEF Lost
    <3>4. ToAfter' = {} /\ ToBefore' = {} /\ Covered' = {} /\ Promised' = "quiet"
      BY <2>1, <3>3 DEF ToAfter, ToBefore, Promised, Covered
    <3> QED BY <1>0, <3>2, <3>4 DEF D!End
  <2>2. ASSUME NEW j \in Wanted(index, S), \A k \in Wanted(index, S) : j <= k,
               j <= Len(callbacks), CallAt(j, "after")
        PROVE  \E t \in Token : D!CallAfter(t)
    <3>1. /\ callbacks[j] \in From(index) /\ callbacks[j] \in S /\ j \in 1 .. Len(callbacks)
          /\ {t \in From(j) : t \in S} = {t \in From(index) : t \in S} \ {callbacks[j]}
      BY <1>0, <1>c, <2>2, GoOnLemma
    <3>2. /\ index' = j /\ stage' = "after" /\ toDeliver' = toDeliver \ {callbacks[j]}
          /\ delivered' = delivered \cup {callbacks[j]}
      BY <2>2 DEF CallAt
    <3>3. \A t : ~Told(t)' <=> ~Told(t) /\ t # callbacks[j]
      BY <3>2 DEF Told
    <3>4. j \in Nat /\ From(index)' = From(j) /\ From(0)' = From(0) /\ ~Lost'
      BY <1>0, <1>a, <1>c, <3>1, <3>2 DEF From, Lost
    <3>5. callbacks[j] \notin From(j)
      BY <3>1
    <3>6. ToAfter' = ToAfter \ {callbacks[j]} /\ callbacks[j] \in ToAfter
      <4>1. ToAfter' = {t \in From(j) : ~Told(t)'} /\ ToAfter = {t \in From(index) : ~Told(t)}
        BY <1>0, <1>c, <3>2, <3>4 DEF ToAfter
      <4> QED BY <4>1, <3>1, <3>3, <3>4, <3>5, <1>0, <2>a
    <3>7. ToBefore = {} /\ ToBefore' = {} /\ Covered' = Covered /\ Promised = "between" /\ Promised' = "between"
      BY <1>0, <1>c, <3>2, <3>4 DEF ToBefore, Covered, Promised
    <3>8. callbacks[j] \in Token
      BY <1>0, <3>1
    <3> QED BY <1>0, <3>6, <3>7, <3>8 DEF D!CallAfter
  <2>3. ASSUME NEW j \in Wanted(index, S), j > Len(callbacks) PROVE FALSE
    BY <1>0, <1>c, <2>3, Facts DEF Wanted
  <2> QED BY <1>0, <2>1, <2>2, <2>3 DEF GoOn
<1> QED BY <1>b, <1>c

LEMMA DeliverErrorRefines ==
    ASSUME Inv, DeliverError PROVE (\E t \in Token : D!Fail(t)) \/ UNCHANGED D!vars
<1>0. /\ callbacks' = callbacks /\ count' = Len(callbacks) /\ stage = "quiet" /\ Present' = Present
      /\ firstNew' = nextToken /\ undone' = 0 /\ nextToken' = nextToken
      /\ callbacks \in Seq(Token) /\ Len(callbacks) \in Nat /\ UNCHANGED <<toDeliver, delivered>>
  BY DEF DeliverError, Present, Inv, TypeOK
<1>a. ~Lost /\ ~Lost'
  BY <1>0, CountedAnew, Facts DEF Lost
<1>b. ToAfter = {} /\ ToBefore = {} /\ Covered = {} /\ Promised = "quiet"
  BY <1>0, <1>a DEF ToAfter, ToBefore, Covered, Promised
<1>1. CASE callbacks = <<>>
  <2>1. stage' = "quiet"
    BY <1>0, <1>1 DEF DeliverError
  <2>2. ToAfter' = {} /\ ToBefore' = {} /\ Covered' = {} /\ Promised' = "quiet"
    BY <2>1, <1>a DEF ToAfter, ToBefore, Covered, Promised
  <2> QED BY <1>0, <1>b, <2>2 DEF D!vars
<1>2. CASE callbacks # <<>>
  <2>1. 1 \in 1 .. Len(callbacks) /\ callbacks[1] \in Token /\ callbacks[1] \in Present
    BY <1>0, <1>2 DEF Present
  <2>2. index' = 1 /\ stage' = "error"
    BY <1>2 DEF DeliverError
  <2>3. \A i \in 1 .. Len(callbacks) : callbacks[i] = callbacks[1] <=> ~ (i \in 1 + 1 .. Len(callbacks))
    BY <1>0, <2>1 DEF Inv, TokensAreNew
  <2>4. From(index)' = Present \ {callbacks[1]}
    <3>1. From(index)' = {callbacks[j] : j \in 1 + 1 .. Len(callbacks)}
      BY <1>0, <2>2 DEF From
    <3>2. \A j \in 1 + 1 .. Len(callbacks) : j \in 1 .. Len(callbacks)
      BY <1>0
    <3> QED BY <3>1, <3>2, <2>3 DEF Present
  <2>5. From(0)' = Present
    <3>1. 0 + 1 = 1
      OBVIOUS
    <3> QED BY <3>1, <1>0 DEF From, Present
  <2>6. ToAfter' = Present \ {callbacks[1]} /\ ToBefore' = {} /\ Covered' = Present /\ Promised' = "error"
    BY <1>a, <2>2, <2>4, <2>5 DEF ToAfter, ToBefore, Covered, Promised
  <2> QED BY <1>0, <1>b, <2>1, <2>6 DEF D!Fail
<1> QED BY <1>1, <1>2

LEMMA NextErrorRefines ==
    ASSUME Inv, NextError PROVE D!End \/ (\E t \in Token : D!CallAfter(t)) \/ UNCHANGED D!vars
<1>0. /\ stage = "error" /\ UNCHANGED <<state, count>>
      /\ GoOn(index, Token, "error", "quiet")
      /\ index \in Nat /\ Present' = Present /\ Packaged' = Packaged /\ undone' = undone
      /\ callbacks \in Seq(Token) /\ Len(callbacks) \in Nat
  BY Facts DEF NextError, state, Present, Packaged
<1>a. callbacks' = callbacks /\ count' = count
  BY <1>0 DEF state
<1>b. CASE Lost
  BY <1>b, <1>0, LostGoesOn
<1>c. CASE ~Lost
  <2>a. ASSUME NEW i \in Nat PROVE From(i) = {t \in From(i) : t \in Token}
    BY <1>0, <1>c, Facts DEF From
  <2>1. CASE Wanted(index, Token) = {} /\ index' = 0 /\ stage' = "quiet"
             /\ UNCHANGED <<called, toDeliver, delivered>>
    <3>1. ToAfter = {} /\ ToBefore = {} /\ Promised = "error"
      BY <1>0, <1>c, <2>1, <2>a, NoneLeft DEF ToAfter, ToBefore, Promised
    <3>2. ~Lost'
      BY <2>1 DEF Lost
    <3>3. ToAfter' = {} /\ ToBefore' = {} /\ Covered' = {} /\ Promised' = "quiet"
      BY <2>1, <3>2 DEF ToAfter, ToBefore, Promised, Covered
    <3> QED BY <1>0, <3>1, <3>3 DEF D!End
  <2>2. ASSUME NEW j \in Wanted(index, Token), \A k \in Wanted(index, Token) : j <= k,
               j <= Len(callbacks), CallAt(j, "error")
        PROVE  \E t \in Token : D!CallAfter(t)
    <3>1. /\ callbacks[j] \in From(index) /\ j \in 1 .. Len(callbacks)
          /\ {t \in From(j) : t \in Token} = {t \in From(index) : t \in Token} \ {callbacks[j]}
      BY <1>0, <1>c, <2>2, GoOnLemma
    <3>2. index' = j /\ stage' = "error" /\ j \in Nat /\ callbacks[j] \in Token
      BY <1>0, <2>2, <3>1 DEF CallAt
    <3>3. From(index)' = From(j) /\ From(0)' = From(0) /\ ~Lost'
      BY <1>0, <1>a, <1>c, <3>2 DEF From, Lost
    <3>4. ToAfter' = ToAfter \ {callbacks[j]} /\ callbacks[j] \in ToAfter
      <4>1. ToAfter' = From(j) /\ ToAfter = From(index)
        BY <1>0, <1>c, <3>2, <3>3 DEF ToAfter
      <4> QED BY <4>1, <3>1, <3>2, <1>0, <2>a
    <3>5. ToBefore = {} /\ ToBefore' = {} /\ Covered' = Covered /\ Promised = "error" /\ Promised' = "error"
      BY <1>0, <1>c, <3>2, <3>3 DEF ToBefore, Covered, Promised
    <3> QED BY <1>0, <3>2, <3>4, <3>5 DEF D!CallAfter
  <2>3. ASSUME NEW j \in Wanted(index, Token), j > Len(callbacks) PROVE FALSE
    BY <1>0, <1>c, <2>3, Facts DEF Wanted
  <2> QED BY <1>0, <2>1, <2>2, <2>3 DEF GoOn
<1> QED BY <1>b, <1>c

\* The Realm is there already, or the assertion has something to say.
LEMMA AlreadyThereRefines ==
    ASSUME Inv, AlreadyThere \/ AssertionFails PROVE D!SkipBefore \/ UNCHANGED D!vars
<1>0. /\ UNCHANGED <<callbacks, index, count, toDeliver, delivered, undone>>
      /\ Present' = Present /\ Packaged' = Packaged /\ stage' # "quiet" /\ stage # "quiet"
  BY DEF AlreadyThere, AssertionFails, state, Present, Packaged
<1>1. CASE Lost
  <2>1. Lost'
    BY <1>0, <1>1 DEF Lost
  <2> QED BY <1>0, <1>1, <2>1, LostStays
<1>2. CASE ~Lost
  <2>1. ~AssertionFails
    BY <1>2, Facts DEF AssertionFails
  <2>2. stage = "packaged" /\ stage' = "between" /\ index = 0 /\ index' = 0
    BY <2>1, <1>0 DEF AlreadyThere, Inv, AtIndex
  <2>3. ~Lost'
    BY <1>0, <1>2 DEF Lost
  <2>4. From(0)' = From(0) /\ From(index)' = From(0) /\ \A t : Told(t)' <=> Told(t)
    BY <1>0, <2>2 DEF From, Told
  <2>5. /\ ToAfter' = ToAfter /\ ToBefore' = {} /\ Covered' = Covered
        /\ Promised = "packaged" /\ Promised' = "between"
    BY <1>2, <2>2, <2>3, <2>4 DEF ToAfter, ToBefore, Covered, Promised
  <2> QED BY <1>0, <2>5 DEF D!SkipBefore
<1> QED BY <1>1, <1>2

\* Every step is one of Delivery, or none at all.
LEMMA StepRefines == ASSUME Inv, [Next]_vars PROVE [D!Next]_D!vars
<1>1. CASE AddCallback
  <2>1. nextToken \in Token
    BY <1>1, AddLemma
  <2> QED BY <1>1, <2>1, AddRefines DEF D!Next
<1>2. CASE AddChanges \/ AsyncError
  BY <1>2, SilentRefines DEF AddChanges, AsyncError
<1>3. ASSUME NEW t \in Token, RemoveCallback(t) PROVE D!Next
  BY <1>3, ErasedRefines DEF RemoveCallback, D!Next
<1>4. CASE PackageForDelivery
  BY <1>4, PackageRefines DEF D!Next
<1>5. CASE BeforeAdvance
  BY <1>5, BeforeRefines DEF D!Next
<1>6. CASE AlreadyThere \/ AssertionFails
  BY <1>6, AlreadyThereRefines DEF D!Next
<1>7. CASE AfterAdvance
  BY <1>7, AfterRefines DEF D!Next
<1>8. CASE DeliverError
  BY <1>8, DeliverErrorRefines DEF D!Next
<1>9. CASE RemoveAfterError
  <2>1. CASE called \in Present
    <3>1. called \in Token
      BY <2>1 DEF Inv, TypeOK, Present
    <3> QED BY <1>9, <2>1, <3>1, ErasedRefines DEF RemoveAfterError, D!Next
  <2>2. CASE called \notin Present
    BY <1>9, <2>2, SilentRefines DEF RemoveAfterError
  <2> QED BY <2>1, <2>2
<1>10. CASE NextError
  BY <1>10, NextErrorRefines DEF D!Next
<1>11. CASE UNCHANGED vars
  BY <1>11, SilentRefines DEF vars
<1> QED BY <1>1, <1>2, <1>3, <1>4, <1>5, <1>6, <1>7, <1>8, <1>9, <1>10, <1>11 DEF Next, Deliver

\* The vector with its positions keeps the promise of the sets: a delivery
\* calls whom it was packaged for, once before and once after, and nobody else,
\* and every callback that is added and removed in it costs one of them its calls.
THEOREM KeepsThePromise == Spec => KeepsItsPromise
<1>1. Init => D!Init
  BY DEF Init, D!Init, Present, Covered, ToBefore, ToAfter, Promised, Lost
<1>2. Inv /\ [Next]_vars => [D!Next]_D!vars
  BY StepRefines
<1> QED BY <1>1, <1>2, Invariance, PTL DEF Spec, D!Spec, KeepsItsPromise

-----------------------------------------------------------------------------
(* Recursive functions                                                     *)

\* A set of natural numbers has a least one.
LEMMA LeastOf == ASSUME NEW S \in SUBSET Nat, S # {} PROVE \E x \in S : \A y \in S : x <= y
<1> DEFINE R == OpToRel(<, Nat)
<1>1. \E x \in S : \A y \in S : <<y, x>> \notin R
  <2>1. IsWellFoundedOn(R, Nat)
    BY NatLessThanWellFounded
  <2> HIDE DEF R
  <2>2. QED BY <2>1, WFMin
<1>2. \A x, y \in Nat : y < x => <<y, x>> \in R
  BY DEF OpToRel
<1> HIDE DEF R
<1>3. PICK x \in S : \A y \in S : <<y, x>> \notin R
  BY <1>1
<1>4. \A y \in S : ~(y < x)
  BY <1>2, <1>3
<1>5. QED BY <1>4

\* Induction up to a number, for a set.
LEMMA InductionUpTo ==
    ASSUME NEW n \in Nat, NEW S, 0 \in S, \A k \in 1 .. n : k - 1 \in S => k \in S
    PROVE  0 .. n \subseteq S
<1> SUFFICES ASSUME (0 .. n) \ S # {} PROVE FALSE
  OBVIOUS
<1> DEFINE T == (0 .. n) \ S
<1>0. T \in SUBSET Nat /\ T # {}
  OBVIOUS
<1> HIDE DEF T
<1>a. PICK x \in T : \A y \in T : x <= y
  BY <1>0, LeastOf
<1>1. x \in (0 .. n) \ S /\ \A y \in (0 .. n) \ S : x <= y
  BY <1>a DEF T
<1>2. x # 0 /\ x \in 1 .. n /\ x - 1 \notin (0 .. n) \ S /\ x - 1 \in 0 .. n
  BY <1>1
<1>3. QED BY <1>1, <1>2

\* The function that starts with base and goes on with F.
Recurs(h, n, base, F) == \A k \in 0 .. n : h[k] = IF k = 0 THEN base ELSE F[k][h[k - 1]]
HasRecursion(n, R, base, F) == \E h \in [0 .. n -> R] : Recurs(h, n, base, F)

\* There is one, whatever F does: by induction.
LEMMA RecursionExists ==
    ASSUME NEW n \in Nat, NEW R, NEW base \in R, NEW F \in [1 .. n -> [R -> R]]
    PROVE  HasRecursion(n, R, base, F)
<1> DEFINE S == {m \in 0 .. n : HasRecursion(m, R, base, F)}
<1>1. 0 \in S
  <2> DEFINE h == [k \in 0 .. 0 |-> base]
  <2>1. h \in [0 .. 0 -> R] /\ Recurs(h, 0, base, F)
    BY DEF Recurs
  <2>2. QED BY <2>1 DEF HasRecursion
<1>2. ASSUME NEW m \in 1 .. n, m - 1 \in S PROVE m \in S
  <2>1. PICK h \in [0 .. m - 1 -> R] : Recurs(h, m - 1, base, F)
    BY <1>2 DEF HasRecursion
  <2> DEFINE x == F[m][h[m - 1]]
             more == [k \in 0 .. m |-> IF k = m THEN x ELSE h[k]]
  <2>2. m - 1 \in 0 .. m - 1 /\ h[m - 1] \in R /\ F[m] \in [R -> R]
    OBVIOUS
  <2>3. x \in R
    BY <2>2
  <2>4. ASSUME NEW k \in 0 .. m PROVE more[k] = IF k = 0 THEN base ELSE F[k][more[k - 1]]
    <3>1. CASE k = m
      BY <3>1
    <3>2. CASE k # m
      <4>1. k \in 0 .. m - 1 /\ more[k] = h[k] /\ (k # 0 => k - 1 \in 0 .. m - 1 /\ more[k - 1] = h[k - 1])
        BY <3>2
      <4>2. QED BY <2>1, <4>1 DEF Recurs
    <3>3. QED BY <3>1, <3>2
  <2> HIDE DEF x
  <2>5. more \in [0 .. m -> R]
    BY <2>3
  <2> HIDE DEF more
  <2>6. HasRecursion(m, R, base, F)
    BY <2>4, <2>5 DEF Recurs, HasRecursion
  <2>7. QED BY <2>6
<1> HIDE DEF S
<1>3. 0 .. n \subseteq S
  BY <1>1, <1>2, InductionUpTo
<1>4. QED BY <1>3 DEF S

-----------------------------------------------------------------------------
(* One checker that is asked about one row after the other                 *)

\* Checking what is in s one by one.
StepsThrough(check, c, s) ==
    \E h \in [0 .. Len(s) -> CheckerState] :
        /\ h[0] = c
        /\ \A k \in 1 .. Len(s) : h[k] = IF h[k - 1].found THEN h[k - 1] ELSE check[s[k]][h[k - 1]]
        /\ AnyOf(check, c, s) = h[Len(s)]

\* So does AnyOf.
LEMMA AnyOfSteps ==
    ASSUME NEW X, NEW check \in [X -> [CheckerState -> CheckerState]], NEW c \in CheckerState, NEW s \in Seq(X)
    PROVE  StepsThrough(check, c, s)
<1> DEFINE n == Len(s)
           Is(h) == h = [k \in 0 .. n |-> IF k = 0 THEN c
                                          ELSE LET r == h[k - 1] IN IF r.found THEN r ELSE check[s[k]][r]]
           H == CHOOSE h : Is(h)
           F == [k \in 1 .. n |-> [r \in CheckerState |-> IF r.found THEN r ELSE check[s[k]][r]]]
           R == CheckerState
<1>1. n \in Nat /\ \A k \in 1 .. n : s[k] \in X
  OBVIOUS
<1>2. AnyOf(check, c, s) = H[n]
  BY Zenon DEF AnyOf
<1>3. F \in [1 .. n -> [R -> R]]
  <2>1. ASSUME NEW k \in 1 .. n, NEW r \in CheckerState PROVE (IF r.found THEN r ELSE check[s[k]][r]) \in CheckerState
    <3>1. check[s[k]] \in [CheckerState -> CheckerState]
      BY <1>1
    <3>2. check[s[k]][r] \in CheckerState
      BY <3>1
    <3>3. QED BY <3>2
  <2> HIDE DEF n
  <2>2. QED BY <2>1, Zenon
<1>a. \A k \in 1 .. n : \A r \in R : F[k][r] = IF r.found THEN r ELSE check[s[k]][r]
  BY Zenon
<1>b. c \in R
  OBVIOUS
<1> HIDE DEF F, R, n
<1>4. PICK h \in [0 .. n -> R] : Recurs(h, n, c, F)
  BY <1>1, <1>3, <1>b, RecursionExists DEF HasRecursion
<1>5. \A k \in 0 .. n : h[k] = IF k = 0 THEN c ELSE LET r == h[k - 1] IN IF r.found THEN r ELSE check[s[k]][r]
  <2>1. ASSUME NEW k \in 1 .. n PROVE h[k] = LET r == h[k - 1] IN IF r.found THEN r ELSE check[s[k]][r]
    <3>1. k \in 0 .. n /\ k # 0 /\ k - 1 \in 0 .. n
      BY <1>1
    <3>2. h[k - 1] \in R /\ h[k] = F[k][h[k - 1]]
      BY <1>4, <3>1 DEF Recurs
    <3>3. QED BY <1>a, <3>2, Zenon
  <2>2. h[0] = c
    <3>1. 0 \in 0 .. n
      BY <1>1
    <3>2. QED BY <1>4, <3>1, Zenon DEF Recurs
  <2>3. \A k \in 0 .. n : k = 0 \/ k \in 1 .. n
    BY <1>1
  <2>4. QED BY <2>1, <2>2, <2>3, Zenon
<1>6. Is(h)
  <2>1. h = [k \in 0 .. n |-> h[k]]
    BY <1>4
  <2>2. QED BY <1>5, <2>1, Zenon
<1>7. Is(H)
  BY <1>6, Zenon
<1> HIDE DEF H
<1>8. \A k \in 0 .. n : H[k] = h[k]
  <2> DEFINE S == {k \in 0 .. n : H[k] = h[k]}
  <2>a. ASSUME NEW k \in 0 .. n
        PROVE H[k] = IF k = 0 THEN c ELSE LET r == H[k - 1] IN IF r.found THEN r ELSE check[s[k]][r]
    BY <1>7, Zenon
  <2>1. 0 \in S
    BY <1>1, <1>5, <2>a
  <2>2. ASSUME NEW k \in 1 .. n, k - 1 \in S PROVE k \in S
    <3>1. k \in 0 .. n /\ k # 0 /\ H[k - 1] = h[k - 1]
      BY <1>1, <2>2
    <3>2. H[k] = h[k]
      BY <1>5, <2>a, <3>1, Zenon
    <3>3. QED BY <3>1, <3>2
  <2> HIDE DEF S
  <2>3. 0 .. n \subseteq S
    BY <1>1, <2>1, <2>2, InductionUpTo
  <2>4. QED BY <2>3 DEF S
<1>9. /\ h[0] = c
      /\ \A k \in 1 .. n : h[k] = IF h[k - 1].found THEN h[k - 1] ELSE check[s[k]][h[k - 1]]
  <2>1. 0 \in 0 .. n /\ \A k \in 1 .. n : k \in 0 .. n /\ k # 0
    BY <1>1
  <2>2. QED BY <1>5, <2>1, Zenon
<1>10. AnyOf(check, c, s) = h[n]
  BY <1>1, <1>2, <1>8
<1>11. QED BY <1>4, <1>9, <1>10, Zenon DEF n, R, StepsThrough

\* What the rows of a graph link to are lists of rows.
ObjectGraph == [links : [Row -> Seq(Seq(Row))], modified : SUBSET Row]

Near(g, n) == ModifiedWithin(g)[n]

\* A row is within some links of a modified one if it is itself one, or links
\* to a row that is one link nearer.
LEMMA NearLaw ==
    ASSUME NEW g \in ObjectGraph, PathSize \in Nat \ {0}
    PROVE  /\ Near(g, 0) = g.modified
           /\ \A n \in 0 .. PathSize - 1 : Near(g, n) \in SUBSET Row
           /\ \A n \in 1 .. PathSize - 1 : Near(g, n) = Near(g, n - 1) \cup {row \in Row : LinksTo(g, row, Near(g, n - 1))}
<1> DEFINE last == PathSize - 1
           More(S) == S \cup {row \in Row : LinksTo(g, row, S)}
           Is(h) == h = [n \in 0 .. last |-> IF n = 0 THEN g.modified
                                             ELSE LET nearer == h[n - 1] IN nearer \cup {row \in Row : LinksTo(g, row, nearer)}]
           H == CHOOSE h : Is(h)
           R == SUBSET Row
           F == [n \in 1 .. last |-> [S \in R |-> More(S)]]
<1>1. last \in Nat
  OBVIOUS
<1>2. ModifiedWithin(g) = H
  BY Zenon DEF ModifiedWithin
<1>3. g.modified \in R /\ F \in [1 .. last -> [R -> R]]
  <2>1. \A S \in R : More(S) \in R
    OBVIOUS
  <2> HIDE DEF More, last
  <2>2. F \in [1 .. last -> [R -> R]]
    BY <2>1, Zenon
  <2>3. QED BY <2>2 DEF ObjectGraph
<1>a. \A n \in 1 .. last : \A S \in R : F[n][S] = More(S)
  BY Zenon
<1> DEFINE base == g.modified
<1> HIDE DEF F, R, last, base
<1>b. base \in R
  BY <1>3 DEF base
<1>4. PICK h \in [0 .. last -> R] : Recurs(h, last, base, F)
  BY <1>1, <1>3, <1>b, RecursionExists DEF HasRecursion
<1>5. h[0] = base
  <2>1. 0 \in 0 .. last
    BY <1>1
  <2>2. QED BY <1>4, <2>1, Zenon DEF Recurs
<1>6. ASSUME NEW n \in 1 .. last PROVE h[n] = More(h[n - 1])
  <2>1. n \in 0 .. last /\ n # 0 /\ n - 1 \in 0 .. last
    BY <1>1
  <2>2. h[n] = F[n][h[n - 1]] /\ h[n - 1] \in R
    BY <1>4, <2>1, Zenon DEF Recurs
  <2>3. QED BY <1>a, <2>2, Zenon
<1>7. Is(h)
  <2>1. h = [n \in 0 .. last |-> h[n]]
    BY <1>4
  <2>2. ASSUME NEW n \in 0 .. last
        PROVE h[n] = IF n = 0 THEN g.modified ELSE LET nearer == h[n - 1] IN nearer \cup {row \in Row : LinksTo(g, row, nearer)}
    <3>1. n = 0 \/ n \in 1 .. last
      BY <1>1
    <3>2. QED BY <1>5, <1>6, <3>1, Zenon DEF base
  <2>3. QED BY <2>1, <2>2, Zenon
<1>8. Is(H)
  BY <1>7, Zenon
<1> HIDE DEF H
<1>9. H[0] = g.modified
  <2>1. 0 \in 0 .. last
    BY <1>1
  <2>2. QED BY <1>8, <2>1, Zenon
<1>10. ASSUME NEW n \in 1 .. last PROVE H[n] = More(H[n - 1])
  <2>1. n \in 0 .. last /\ n # 0
    BY <1>1
  <2>2. QED BY <1>8, <2>1, Zenon
<1>11. \A n \in 0 .. last : H[n] \in R
  <2> DEFINE S == {n \in 0 .. last : H[n] \in R}
  <2>1. 0 \in S
    BY <1>1, <1>3, <1>9
  <2>2. ASSUME NEW n \in 1 .. last, n - 1 \in S PROVE n \in S
    <3>1. n \in 0 .. last /\ H[n - 1] \in SUBSET Row
      BY <1>1, <2>2 DEF R
    <3>2. More(H[n - 1]) \in SUBSET Row
      BY <3>1
    <3>3. QED BY <1>10, <3>1, <3>2, Zenon DEF R
  <2> HIDE DEF S
  <2>3. 0 .. last \subseteq S
    BY <1>1, <2>1, <2>2, InductionUpTo
  <2>4. QED BY <2>3 DEF S
<1>12. QED BY <1>2, <1>9, <1>10, <1>11, Zenon DEF Near, R, last

\* The more links, the more rows.
LEMMA NearIsMonotonic ==
    ASSUME NEW g \in ObjectGraph, PathSize \in Nat \ {0}, NEW n \in 0 .. PathSize - 1
    PROVE  \A m \in 0 .. n : Near(g, m) \subseteq Near(g, n)
<1> DEFINE S == {k \in 0 .. n : \A m \in 0 .. k : Near(g, m) \subseteq Near(g, k)}
<1>0. n \in Nat
  OBVIOUS
<1>1. 0 \in S
  BY <1>0
<1>2. ASSUME NEW k \in 1 .. n, k - 1 \in S PROVE k \in S
  <2>1. k \in 1 .. PathSize - 1 /\ k \in 0 .. n
    BY <1>0
  <2>2. Near(g, k - 1) \subseteq Near(g, k)
    <3>1. Near(g, k) = Near(g, k - 1) \cup {row \in Row : LinksTo(g, row, Near(g, k - 1))}
      BY <2>1, NearLaw
    <3>2. QED BY <3>1
  <2>3. ASSUME NEW m \in 0 .. k PROVE Near(g, m) \subseteq Near(g, k)
    <3>1. m = k \/ m \in 0 .. k - 1
      BY <2>1
    <3>2. QED BY <1>2, <2>2, <3>1
  <2>4. QED BY <2>1, <2>3
<1> HIDE DEF S
<1>3. 0 .. n \subseteq S
  BY <1>0, <1>1, <1>2, InductionUpTo
<1>4. n \in S
  BY <1>0, <1>3
<1>5. QED BY <1>4 DEF S

\* The least number of links from a row to a modified one.
LEMMA LeastLinks ==
    ASSUME NEW g \in ObjectGraph, PathSize \in Nat \ {0}, NEW n \in 0 .. PathSize - 1,
           NEW row \in Near(g, n), row \notin g.modified
    PROVE  \E m \in 1 .. n : row \in Near(g, m) /\ row \notin Near(g, m - 1) /\ LinksTo(g, row, Near(g, m - 1))
<1> DEFINE S == {m \in 0 .. n : row \in Near(g, m)}
<1>1. S \in SUBSET Nat /\ S # {}
  OBVIOUS
<1> HIDE DEF S
<1>2. PICK m \in S : \A k \in S : m <= k
  BY <1>1, LeastOf
<1>3. m \in 0 .. n /\ row \in Near(g, m) /\ m # 0
  BY <1>2, NearLaw DEF S
<1>4. m \in 1 .. n /\ m - 1 \in 0 .. n /\ m \in 1 .. PathSize - 1
  BY <1>3
<1>5. row \notin Near(g, m - 1)
  <2>1. m - 1 \notin S
    BY <1>2, <1>4
  <2>2. QED BY <1>4, <2>1 DEF S
<1>6. LinksTo(g, row, Near(g, m - 1))
  <2>1. Near(g, m) = Near(g, m - 1) \cup {r \in Row : LinksTo(g, r, Near(g, m - 1))}
    BY <1>4, NearLaw
  <2>2. QED BY <1>3, <1>5, <2>1
<1>7. QED BY <1>3, <1>4, <1>5, <1>6

\* What a checker remembers has no modified row within its reach.
Sound(g, c) == c.notModified \cap Near(g, PathSize - 1) = {}

\* The path of a checker up to a level is kept, and what was exceeded stays so.
Keeps(c, r, depth) ==
    /\ r \in CheckerState
    /\ \A d \in 0 .. depth - 1 : r.path[d].row = c.path[d].row /\ (c.path[d].exceeded => r.path[d].exceeded)

\* A row n links away from a modified one was not found to be, because of a
\* row on the path that is as near or since the path ends.  From there on it is
\* marked.
Blocked(g, c, n, depth) ==
    \E d \in 0 .. depth - 1 :
        /\ \A e \in d .. depth - 1 : c.path[e].exceeded
        /\ c.path[d].row \in Near(g, n) \/ (d = 0 /\ n + depth >= PathSize)

\* What the check of a row finds, and what it leaves of the checker.
Finds(g, r, row, depth) ==
    IF r.found THEN depth < PathSize /\ row \in Near(g, PathSize - 1 - depth)
    ELSE \A n \in 0 .. PathSize - 1 : row \in Near(g, n) => Blocked(g, r, n, depth)
Answers(g, c, r, row, depth) == Keeps(c, r, depth) /\ Sound(g, r) /\ Finds(g, r, row, depth)
Asks(g, c) == c \in CheckerState /\ ~c.found /\ Sound(g, c)
ChecksRows(g, check, depth) ==
    \A row \in Row : \A c \in CheckerState :
        Asks(g, c) /\ (depth = 0 => row \notin g.modified) => Answers(g, c, check[row][c], row, depth)

\* Marking the levels of a path.
LEMMA ExceededLaw ==
    ASSUME NEW c \in CheckerState, NEW levels
    PROVE  /\ Exceeded(c, levels) \in CheckerState
           /\ Exceeded(c, levels).notModified = c.notModified /\ Exceeded(c, levels).found = c.found
           /\ \A d \in 0 .. PathSize - 1 : /\ Exceeded(c, levels).path[d].row = c.path[d].row
                                           /\ Exceeded(c, levels).path[d].exceeded = (c.path[d].exceeded \/ d \in levels)
<1> DEFINE p == [d \in 0 .. PathSize - 1 |-> [row |-> c.path[d].row, col |-> c.path[d].col,
                                             exceeded |-> (c.path[d].exceeded \/ d \in levels)]]
<1>1. c.path \in [0 .. PathSize - 1 -> [row : Nat, col : Nat, exceeded : BOOLEAN]]
  BY DEF CheckerState, Path
<1>2. ASSUME NEW d \in 0 .. PathSize - 1
      PROVE  [c.path[d] EXCEPT !.exceeded = @ \/ d \in levels]
               = [row |-> c.path[d].row, col |-> c.path[d].col, exceeded |-> (c.path[d].exceeded \/ d \in levels)]
  <2>1. c.path[d] \in [row : Nat, col : Nat, exceeded : BOOLEAN]
    BY <1>1
  <2>2. QED BY <2>1
<1>3. [d \in DOMAIN c.path |-> [c.path[d] EXCEPT !.exceeded = @ \/ d \in levels]] = p
  <2>1. DOMAIN c.path = 0 .. PathSize - 1
    BY <1>1
  <2>2. QED BY <1>2, <2>1, Zenon
<1>4. p \in [0 .. PathSize - 1 -> [row : Nat, col : Nat, exceeded : BOOLEAN]]
  BY <1>1
<1>5. Exceeded(c, levels) = [c EXCEPT !.path = p]
  BY <1>3, Zenon DEF Exceeded
<1>6. \A d \in 0 .. PathSize - 1 : p[d].row = c.path[d].row /\ p[d].exceeded = (c.path[d].exceeded \/ d \in levels)
  OBVIOUS
<1> HIDE DEF p
<1>7. /\ [c EXCEPT !.path = p] \in CheckerState /\ [c EXCEPT !.path = p].path = p
      /\ [c EXCEPT !.path = p].notModified = c.notModified /\ [c EXCEPT !.path = p].found = c.found
  BY <1>4 DEF CheckerState, Path
<1>8. QED BY <1>5, <1>6, <1>7

\* What is kept is kept by what comes after.
LEMMA KeepsOn ==
    ASSUME NEW c, NEW q, NEW r, NEW depth \in Nat, NEW level \in 0 .. depth, Keeps(c, q, level), Keeps(q, r, depth)
    PROVE  Keeps(c, r, level)
<1>1. \A d \in 0 .. level - 1 : d \in 0 .. depth - 1
  OBVIOUS
<1>2. QED BY <1>1 DEF Keeps

LEMMA BlockedStays ==
    ASSUME NEW g, NEW c, NEW r, NEW n \in Nat, NEW depth \in Nat, Blocked(g, c, n, depth), Keeps(c, r, depth)
    PROVE  Blocked(g, r, n, depth)
<1>1. PICK d \in 0 .. depth - 1 :
         /\ \A e \in d .. depth - 1 : c.path[e].exceeded
         /\ c.path[d].row \in Near(g, n) \/ (d = 0 /\ n + depth >= PathSize)
  BY DEF Blocked
<1>2. \A e \in d .. depth - 1 : r.path[e].exceeded
  BY <1>1 DEF Keeps
<1>3. r.path[d].row = c.path[d].row
  BY DEF Keeps
<1>4. QED BY <1>1, <1>2, <1>3 DEF Blocked

\* A column of a row was checked: what is near over it was found, or there was
\* something in the way.
ColumnFinds(g, r, row, col, depth) ==
    IF r.found THEN row \in Near(g, PathSize - 1 - depth)
    ELSE \A n \in 0 .. PathSize - 2 :
            row \notin Near(g, n) /\ ToSet(g.links[row][col]) \cap Near(g, n) # {} => Blocked(g, r, n + 1, depth)

\* As far as some of the rows of a column were checked.
PartFinds(g, r, row, col, k, depth) ==
    IF r.found THEN row \in Near(g, PathSize - 1 - depth)
    ELSE \A n \in 0 .. PathSize - 1 : \A j \in 1 .. k : g.links[row][col][j] \in Near(g, n) => Blocked(g, r, n, depth + 1)

\* A column goes onto the path.
Onto(c, row, col, depth) == [c EXCEPT !.path[depth] = [row |-> row, col |-> col, exceeded |-> FALSE]]

IsOnto(on, c, row, depth) ==
    /\ on \in CheckerState /\ on.found = c.found /\ on.notModified = c.notModified
    /\ on.path[depth].row = row
    /\ \A d \in 0 .. depth - 1 : on.path[d] = c.path[d]

LEMMA OntoLaw ==
    ASSUME PathSize \in Nat \ {0}, NEW c \in CheckerState, NEW row \in Nat, NEW col \in Nat, NEW depth \in 0 .. PathSize - 1
    PROVE  IsOnto(Onto(c, row, col, depth), c, row, depth)
<1> DEFINE entry == [row |-> row, col |-> col, exceeded |-> FALSE]
<1>1. entry \in [row : Nat, col : Nat, exceeded : BOOLEAN] /\ entry.row = row
  OBVIOUS
<1> HIDE DEF entry
<1>2. c.path \in [0 .. PathSize - 1 -> [row : Nat, col : Nat, exceeded : BOOLEAN]]
  BY DEF CheckerState, Path
<1> DEFINE p == [c.path EXCEPT ![depth] = entry]
<1>a. DOMAIN c.path = 0 .. PathSize - 1 /\ \A d \in 0 .. PathSize - 1 : c.path[d] \in [row : Nat, col : Nat, exceeded : BOOLEAN]
  BY <1>2
<1>b. \A d \in 0 .. PathSize - 1 : p[d] = IF d = depth THEN entry ELSE c.path[d]
  BY <1>a
<1>c. p \in Path
  <2>1. p = [d \in 0 .. PathSize - 1 |-> IF d = depth THEN entry ELSE c.path[d]]
    BY <1>a
  <2>2. \A d \in 0 .. PathSize - 1 : (IF d = depth THEN entry ELSE c.path[d]) \in [row : Nat, col : Nat, exceeded : BOOLEAN]
    BY <1>1, <1>a
  <2> HIDE DEF p
  <2>3. QED BY <2>1, <2>2, Zenon DEF Path
<1>3. p \in Path /\ p[depth] = entry /\ \A d \in 0 .. depth - 1 : p[d] = c.path[d]
  <2>1. \A d \in 0 .. depth - 1 : d \in 0 .. PathSize - 1 /\ d # depth
    OBVIOUS
  <2> HIDE DEF p
  <2>2. QED BY <1>b, <1>c, <2>1
<1>4. Onto(c, row, col, depth) = [c EXCEPT !.path = p]
  BY Zenon DEF entry, Onto
<1> HIDE DEF p
<1>5. [c EXCEPT !.path = p] \in CheckerState /\ [c EXCEPT !.path = p].path = p
      /\ [c EXCEPT !.path = p].found = c.found /\ [c EXCEPT !.path = p].notModified = c.notModified
  BY <1>3 DEF CheckerState
<1>6. QED BY <1>1, <1>3, <1>4, <1>5 DEF IsOnto

\* linked_object_changed leaves a checker, whatever it is given.
LEMMA LinkedType ==
    ASSUME NEW g \in ObjectGraph, PathSize \in Nat \ {0}, NEW depth \in 0 .. PathSize - 1,
           NEW below \in [Row -> [CheckerState -> CheckerState]],
           NEW row \in Row, row \in Nat, NEW col \in DOMAIN g.links[row], NEW c \in CheckerState
    PROVE  LinkedObjectChanged(below, c, g, row, col, depth) \in CheckerState
<1> DEFINE K == AlreadyChecking(c, row, col, depth)
           on == [c EXCEPT !.path[depth] = [row |-> row, col |-> col, exceeded |-> FALSE]]
           s == g.links[row][col]
           levels == {d \in 0 .. depth - 1 : \E k \in K : k <= d}
           r == LinkedObjectChanged(below, c, g, row, col, depth)
<1>1. s \in Seq(Row) /\ col \in Nat /\ Len(s) \in Nat
  BY DEF ObjectGraph
<1>2. r = IF K # {} THEN Exceeded(c, levels) ELSE AnyOf(below, on, s)
  BY Zenon DEF LinkedObjectChanged
<1>3. on \in CheckerState
  <2>1. on = Onto(c, row, col, depth)
    BY Zenon DEF Onto
  <2> HIDE DEF on
  <2>2. IsOnto(Onto(c, row, col, depth), c, row, depth)
    BY <1>1, OntoLaw
  <2>3. QED BY <2>1, <2>2 DEF IsOnto
<1> HIDE DEF K, on, s, levels, r
<1>4. Exceeded(c, levels) \in CheckerState
  BY ExceededLaw
<1>5. AnyOf(below, on, s) \in CheckerState
  <2>1. StepsThrough(below, on, s)
    BY <1>1, <1>3, AnyOfSteps
  <2>2. QED BY <1>1, <2>1 DEF StepsThrough
<1>6. r \in CheckerState
  BY <1>2, <1>4, <1>5, Zenon
<1>7. QED BY <1>6 DEF r

\* linked_object_changed.
LEMMA LinkedLaw ==
    ASSUME NEW g \in ObjectGraph, PathSize \in Nat \ {0}, NEW depth \in 0 .. PathSize - 1,
           NEW below \in [Row -> [CheckerState -> CheckerState]], ChecksRows(g, below, depth + 1),
           NEW row \in Row, row \in Nat, NEW col \in DOMAIN g.links[row], NEW c \in CheckerState, Asks(g, c),
           NEW r, r = LinkedObjectChanged(below, c, g, row, col, depth)
    PROVE  Keeps(c, r, depth) /\ Sound(g, r) /\ ColumnFinds(g, r, row, col, depth)
<1> DEFINE K == AlreadyChecking(c, row, col, depth)
           on == [c EXCEPT !.path[depth] = [row |-> row, col |-> col, exceeded |-> FALSE]]
           s == g.links[row][col]
           levels == {d \in 0 .. depth - 1 : \E k \in K : k <= d}
<1>0. /\ s \in Seq(Row) /\ Len(s) \in Nat /\ col \in Nat /\ depth \in Nat
      /\ \A j \in 1 .. Len(s) : s[j] \in Row
  BY DEF ObjectGraph
<1>1. CASE K # {}
  <2>1. r = Exceeded(c, levels)
    BY <1>1, Zenon DEF LinkedObjectChanged
  <2>2. PICK k \in 0 .. depth - 1 : k \in K /\ c.path[k].row = row
    BY <1>1 DEF AlreadyChecking
  <2>3. \A d \in k .. depth - 1 : d \in levels
    BY <2>2
  <2> HIDE DEF levels, K
  <2>4. /\ r \in CheckerState /\ r.notModified = c.notModified /\ r.found = c.found
        /\ \A d \in 0 .. PathSize - 1 : r.path[d].row = c.path[d].row /\ r.path[d].exceeded = (c.path[d].exceeded \/ d \in levels)
    BY <2>1, ExceededLaw
  <2>a. \A d \in 0 .. depth - 1 : d \in 0 .. PathSize - 1
    OBVIOUS
  <2>5. Keeps(c, r, depth) /\ Sound(g, r) /\ ~r.found
    <3>1. Keeps(c, r, depth)
      BY <2>4, <2>a DEF Keeps
    <3>2. QED BY <2>4, <3>1 DEF Sound, Asks
  <2>6. ASSUME NEW n \in 0 .. PathSize - 2, ToSet(s) \cap Near(g, n) # {} PROVE Blocked(g, r, n + 1, depth)
    <3>1. row \in Near(g, n + 1)
      <4>1. n + 1 \in 1 .. PathSize - 1 /\ (n + 1) - 1 = n
        OBVIOUS
      <4>2. Near(g, n + 1) = Near(g, n) \cup {q \in Row : LinksTo(g, q, Near(g, n))}
        BY <4>1, NearLaw
      <4>3. LinksTo(g, row, Near(g, n))
        BY <2>6 DEF LinksTo
      <4>4. QED BY <4>2, <4>3
    <3>2. \A d \in k .. depth - 1 : r.path[d].exceeded
      <4>1. \A d \in k .. depth - 1 : d \in levels /\ d \in 0 .. PathSize - 1
        BY <2>2, <2>3
      <4>2. QED BY <2>4, <4>1
    <3>a. r.path[k].row = row
      BY <2>2, <2>4, <2>a
    <3>b. k \in 0 .. depth - 1
      BY <2>2
    <3>3. QED BY <3>a, <3>b, <3>1, <3>2 DEF Blocked
  <2>7. QED BY <2>5, <2>6 DEF ColumnFinds
<1>2. CASE K = {}
  <2>1. r = AnyOf(below, on, s)
    BY <1>2, Zenon DEF LinkedObjectChanged
  <2>2. /\ on \in CheckerState /\ ~on.found /\ on.notModified = c.notModified
        /\ on.path[depth].row = row /\ \A d \in 0 .. depth - 1 : on.path[d] = c.path[d]
    <3>1. on = Onto(c, row, col, depth)
      BY Zenon DEF Onto
    <3> HIDE DEF on, K, s, levels
    <3>2. IsOnto(on, c, row, depth)
      BY <1>0, <3>1, OntoLaw
    <3>3. QED BY <3>2 DEF IsOnto, Asks
  <2> HIDE DEF on, K, s, levels
  <2>3. PICK h \in [0 .. Len(s) -> CheckerState] :
           /\ h[0] = on
           /\ \A k \in 1 .. Len(s) : h[k] = IF h[k - 1].found THEN h[k - 1] ELSE below[s[k]][h[k - 1]]
           /\ AnyOf(below, on, s) = h[Len(s)]
    <3>1. on \in CheckerState /\ s \in Seq(Row)
      BY <1>0, <2>2
    <3>2. StepsThrough(below, on, s)
      BY <3>1, AnyOfSteps
    <3>3. QED BY <3>2 DEF StepsThrough
  <2> DEFINE S == {k \in 0 .. Len(s) : Keeps(on, h[k], depth + 1) /\ Sound(g, h[k]) /\ PartFinds(g, h[k], row, col, k, depth)}
  <2>4. 0 \in S
    <3>1. Keeps(on, on, depth + 1) /\ Sound(g, on)
      BY <2>2 DEF Keeps, Sound, Asks
    <3>2. PartFinds(g, on, row, col, 0, depth)
      BY <2>2 DEF PartFinds
    <3>3. QED BY <1>0, <2>3, <3>1, <3>2
  <2>5. ASSUME NEW k \in 1 .. Len(s), k - 1 \in S PROVE k \in S
    <3>0. k \in 0 .. Len(s) /\ k - 1 \in 0 .. Len(s) /\ h[k - 1] \in CheckerState /\ h[k] \in CheckerState
      BY <1>0
    <3>1. Keeps(on, h[k - 1], depth + 1) /\ Sound(g, h[k - 1]) /\ PartFinds(g, h[k - 1], row, col, k - 1, depth)
      BY <2>5
    <3>2. CASE h[k - 1].found
      <4>1. h[k] = h[k - 1]
        BY <2>3, <3>2
      <4>2. PartFinds(g, h[k], row, col, k, depth)
        BY <3>1, <3>2, <4>1 DEF PartFinds
      <4>3. QED BY <3>0, <3>1, <4>1, <4>2
    <3>3. CASE ~h[k - 1].found
      <4>1. h[k] = below[s[k]][h[k - 1]]
        BY <2>3, <3>3
      <4>2. Asks(g, h[k - 1]) /\ depth + 1 # 0 /\ s[k] \in Row
        BY <1>0, <3>0, <3>1, <3>3 DEF Asks
      <4>3. Answers(g, h[k - 1], h[k], s[k], depth + 1)
        BY <3>0, <4>1, <4>2 DEF ChecksRows
      <4>4. Keeps(on, h[k], depth + 1)
        <5>1. depth + 1 \in Nat /\ depth + 1 \in 0 .. depth + 1
          BY <1>0
        <5>2. Keeps(h[k - 1], h[k], depth + 1)
          BY <4>3 DEF Answers
        <5>3. QED BY <3>1, <5>1, <5>2, KeepsOn
      <4>5. PartFinds(g, h[k], row, col, k, depth)
        <5>1. CASE h[k].found
          <6>1. depth + 1 < PathSize /\ s[k] \in Near(g, PathSize - 1 - (depth + 1))
            BY <4>3, <5>1 DEF Answers, Finds
          <6> DEFINE n == PathSize - 1 - depth
          <6>2. n \in 1 .. PathSize - 1 /\ n - 1 = PathSize - 1 - (depth + 1)
            BY <6>1
          <6>3. Near(g, n) = Near(g, n - 1) \cup {q \in Row : LinksTo(g, q, Near(g, n - 1))}
            BY <6>2, NearLaw
          <6>4. s[k] \in Near(g, n - 1)
            BY <6>1, <6>2
          <6> HIDE DEF n
          <6>5. LinksTo(g, row, Near(g, n - 1))
            <7>1. s[k] \in ToSet(s)
              BY <1>0 DEF ToSet
            <7>2. QED BY <6>4, <7>1 DEF LinksTo, s
          <6>6. row \in Near(g, n)
            BY <6>3, <6>5
          <6>7. QED BY <5>1, <6>6 DEF PartFinds, n
        <5>2. CASE ~h[k].found
          <6>1. ASSUME NEW n \in 0 .. PathSize - 1, NEW j \in 1 .. k, s[j] \in Near(g, n)
                PROVE  Blocked(g, h[k], n, depth + 1)
            <7>1. CASE j = k
              BY <4>3, <5>2, <6>1, <7>1 DEF Answers, Finds
            <7>2. CASE j # k
              <8>1. j \in 1 .. k - 1
                BY <7>2
              <8>2. Blocked(g, h[k - 1], n, depth + 1)
                BY <3>1, <3>3, <6>1, <8>1 DEF PartFinds, s
              <8>3. Keeps(h[k - 1], h[k], depth + 1)
                BY <4>3 DEF Answers
              <8>4. n \in Nat /\ depth + 1 \in Nat
                BY <1>0
              <8>5. QED BY <8>2, <8>3, <8>4, BlockedStays
            <7>3. QED BY <7>1, <7>2
          <6>2. QED BY <5>2, <6>1 DEF PartFinds, s
        <5>3. QED BY <5>1, <5>2
      <4>6. QED BY <3>0, <4>3, <4>4, <4>5 DEF Answers
    <3>4. QED BY <3>2, <3>3
  <2>6. r \in CheckerState /\ Keeps(on, r, depth + 1) /\ Sound(g, r) /\ PartFinds(g, r, row, col, Len(s), depth)
    <3> HIDE DEF S
    <3>1. 0 .. Len(s) \subseteq S
      BY <1>0, <2>4, <2>5, InductionUpTo
    <3>2. Len(s) \in S
      BY <1>0, <3>1
    <3>3. QED BY <2>1, <2>3, <3>2 DEF S, Keeps
  <2>7. Keeps(c, r, depth)
    <3>1. \A d \in 0 .. depth : r.path[d].row = on.path[d].row /\ (on.path[d].exceeded => r.path[d].exceeded)
      BY <1>0, <2>6 DEF Keeps
    <3>2. \A d \in 0 .. depth - 1 : r.path[d].row = c.path[d].row /\ (c.path[d].exceeded => r.path[d].exceeded)
      <4>1. \A d \in 0 .. depth - 1 : d \in 0 .. depth
        BY <1>0
      <4>2. \A d \in 0 .. depth - 1 : on.path[d] = c.path[d]
        BY <2>2
      <4>3. QED BY <3>1, <4>1, <4>2, Zenon
    <3>3. QED BY <2>6, <3>2 DEF Keeps
  <2>8. ColumnFinds(g, r, row, col, depth)
    <3>1. CASE r.found
      BY <2>6, <3>1 DEF PartFinds, ColumnFinds
    <3>2. CASE ~r.found
      <4>1. ASSUME NEW n \in 0 .. PathSize - 2, row \notin Near(g, n), ToSet(s) \cap Near(g, n) # {}
            PROVE  Blocked(g, r, n + 1, depth)
        <5>1. PICK j \in 1 .. Len(s) : s[j] \in Near(g, n)
          BY <1>0, <4>1 DEF ToSet
        <5>2. n \in 0 .. PathSize - 1 /\ n \in 0 .. n + 1 /\ n + 1 \in 0 .. PathSize - 1
          OBVIOUS
        <5>3. Blocked(g, r, n, depth + 1)
          BY <2>6, <3>2, <5>1, <5>2 DEF PartFinds, s
        <5>4. PICK d \in 0 .. depth :
                 /\ \A e \in d .. depth : r.path[e].exceeded
                 /\ r.path[d].row \in Near(g, n) \/ (d = 0 /\ n + (depth + 1) >= PathSize)
          BY <1>0, <5>3 DEF Blocked
        <5>5. r.path[depth].row = row
          BY <1>0, <2>2, <2>6 DEF Keeps
        <5>6. d # depth
          BY <4>1, <5>4, <5>5
        <5>7. Near(g, n) \subseteq Near(g, n + 1)
          BY <5>2, NearIsMonotonic
        <5>8. d \in 0 .. depth - 1 /\ \A e \in d .. depth - 1 : r.path[e].exceeded
          BY <1>0, <5>4, <5>6
        <5>9. r.path[d].row \in Near(g, n + 1) \/ (d = 0 /\ (n + 1) + depth >= PathSize)
          BY <1>0, <5>4, <5>7
        <5>10. QED BY <5>8, <5>9 DEF Blocked
      <4>2. QED BY <3>2, <4>1 DEF ColumnFinds, s
    <3>3. QED BY <3>1, <3>2
  <2>9. QED BY <2>6, <2>7, <2>8
<1>3. QED BY <1>1, <1>2

\* The columns of a row are checked one by one.
ColumnChecks(below, g, row, depth) ==
    [col \in DOMAIN g.links[row] |-> [r \in CheckerState |-> LinkedObjectChanged(below, r, g, row, col, depth)]]

StepsThroughColumns(below, c, g, row, depth) ==
    \E h \in [0 .. Len(g.links[row]) -> CheckerState] :
        /\ h[0] = c
        /\ \A k \in 1 .. Len(g.links[row]) :
              h[k] = IF h[k - 1].found THEN h[k - 1] ELSE LinkedObjectChanged(below, h[k - 1], g, row, k, depth)
        /\ CheckOutgoingLinks(below, c, g, row, depth) = h[Len(g.links[row])]

LEMMA OutgoingSteps ==
    ASSUME NEW g \in ObjectGraph, PathSize \in Nat \ {0}, NEW depth \in 0 .. PathSize - 1,
           NEW below \in [Row -> [CheckerState -> CheckerState]], NEW row \in Row, row \in Nat, NEW c \in CheckerState
    PROVE  StepsThroughColumns(below, c, g, row, depth)
<1> DEFINE X == DOMAIN g.links[row]
           check == ColumnChecks(below, g, row, depth)
           s == [k \in DOMAIN g.links[row] |-> k]
           n == Len(g.links[row])
<1>1. n \in Nat /\ X = 1 .. n /\ s \in Seq(X) /\ Len(s) = n /\ \A k \in 1 .. n : s[k] = k
  <2>1. g.links[row] \in Seq(Seq(Row))
    BY DEF ObjectGraph
  <2>2. n \in Nat /\ X = 1 .. n
    BY <2>1
  <2>3. s = [k \in 1 .. n |-> k]
    BY <2>2
  <2>4. s \in [1 .. n -> X]
    BY <2>2, <2>3
  <2> HIDE DEF X, s, n
  <2>5. s \in Seq(X) /\ Len(s) = n
    BY <2>2, <2>4
  <2>6. QED BY <2>2, <2>3, <2>5
<1>2. \A col \in X : \A r \in CheckerState : LinkedObjectChanged(below, r, g, row, col, depth) \in CheckerState
  BY LinkedType
<1> HIDE DEF X
<1>3. check \in [X -> [CheckerState -> CheckerState]]
  BY <1>2, Zenon DEF ColumnChecks, X
<1>4. \A col \in X : \A r \in CheckerState : check[col][r] = LinkedObjectChanged(below, r, g, row, col, depth)
  BY Zenon DEF ColumnChecks, X
<1>5. CheckOutgoingLinks(below, c, g, row, depth) = AnyOf(check, c, s)
  BY Zenon DEF CheckOutgoingLinks, ColumnChecks
<1> HIDE DEF check, s
<1>6. StepsThrough(check, c, s)
  BY <1>1, <1>3, AnyOfSteps
<1>7. PICK h \in [0 .. n -> CheckerState] :
         /\ h[0] = c
         /\ \A k \in 1 .. n : h[k] = IF h[k - 1].found THEN h[k - 1] ELSE check[s[k]][h[k - 1]]
         /\ AnyOf(check, c, s) = h[n]
  BY <1>1, <1>6 DEF StepsThrough
<1>8. ASSUME NEW k \in 1 .. n
      PROVE  h[k] = IF h[k - 1].found THEN h[k - 1] ELSE LinkedObjectChanged(below, h[k - 1], g, row, k, depth)
  <2>1. s[k] = k /\ k \in X /\ k - 1 \in 0 .. n
    BY <1>1
  <2>2. h[k - 1] \in CheckerState
    BY <1>7, <2>1
  <2>3. check[s[k]][h[k - 1]] = LinkedObjectChanged(below, h[k - 1], g, row, k, depth)
    BY <1>4, <2>1, <2>2, Zenon
  <2>4. QED BY <1>7, <2>3
<1> HIDE DEF n
<1>9. CheckOutgoingLinks(below, c, g, row, depth) = h[n]
  BY <1>5, <1>7
<1>10. QED BY <1>7, <1>8, <1>9, Zenon DEF n, StepsThroughColumns

\* check_outgoing_links, for a row that was not modified itself.
LEMMA OutgoingLaw ==
    ASSUME NEW g \in ObjectGraph, PathSize \in Nat \ {0}, NEW depth \in 0 .. PathSize - 1,
           NEW below \in [Row -> [CheckerState -> CheckerState]], ChecksRows(g, below, depth + 1),
           NEW row \in Row, row \in Nat, row \notin g.modified, NEW c \in CheckerState, Asks(g, c),
           NEW r, r = CheckOutgoingLinks(below, c, g, row, depth)
    PROVE  Answers(g, c, r, row, depth)
<1> DEFINE n == Len(g.links[row])
<1>0. n \in Nat /\ DOMAIN g.links[row] = 1 .. n /\ depth \in Nat
  BY DEF ObjectGraph
<1>1. PICK h \in [0 .. n -> CheckerState] :
         /\ h[0] = c
         /\ \A k \in 1 .. n :
               h[k] = IF h[k - 1].found THEN h[k - 1] ELSE LinkedObjectChanged(below, h[k - 1], g, row, k, depth)
         /\ CheckOutgoingLinks(below, c, g, row, depth) = h[n]
  <2>1. StepsThroughColumns(below, c, g, row, depth)
    BY OutgoingSteps
  <2>2. QED BY <2>1, Zenon DEF StepsThroughColumns
<1> HIDE DEF n
<1> DEFINE Done(q, k) == /\ Keeps(c, q, depth) /\ Sound(g, q)
                         /\ q.found => row \in Near(g, PathSize - 1 - depth)
                         /\ ~q.found => \A j \in 1 .. k : ColumnFinds(g, q, row, j, depth)
           S == {k \in 0 .. n : Done(h[k], k)}
<1>2. 0 \in S
  <2>1. Done(c, 0)
    BY DEF Asks, Keeps, Sound
  <2>2. QED BY <1>0, <1>1, <2>1
<1>3. ASSUME NEW k \in 1 .. n, k - 1 \in S PROVE k \in S
  <2>0. k \in 0 .. n /\ k - 1 \in 0 .. n /\ h[k - 1] \in CheckerState /\ h[k] \in CheckerState
    BY <1>0
  <2>1. Done(h[k - 1], k - 1)
    BY <1>3
  <2>2. CASE h[k - 1].found
    <3>1. h[k] = h[k - 1]
      BY <1>1, <2>2
    <3>2. Done(h[k], k)
      BY <2>1, <2>2, <3>1
    <3>3. QED BY <2>0, <3>2
  <2>3. CASE ~h[k - 1].found
    <3>1. h[k] = LinkedObjectChanged(below, h[k - 1], g, row, k, depth)
      BY <1>1, <2>3
    <3>2. k \in DOMAIN g.links[row] /\ Asks(g, h[k - 1])
      BY <1>0, <2>0, <2>1, <2>3 DEF Asks
    <3>3. Keeps(h[k - 1], h[k], depth) /\ Sound(g, h[k]) /\ ColumnFinds(g, h[k], row, k, depth)
      BY <2>0, <3>1, <3>2, LinkedLaw
    <3>4. Keeps(c, h[k], depth)
      <4>1. depth \in 0 .. depth
        BY <1>0
      <4>2. QED BY <1>0, <2>1, <3>3, <4>1, KeepsOn
    <3>5. h[k].found => row \in Near(g, PathSize - 1 - depth)
      BY <3>3 DEF ColumnFinds
    <3>6. ASSUME ~h[k].found, NEW j \in 1 .. k PROVE ColumnFinds(g, h[k], row, j, depth)
      <4>1. CASE j = k
        BY <3>3, <4>1
      <4>2. CASE j # k
        <5>1. ColumnFinds(g, h[k - 1], row, j, depth)
          BY <2>1, <2>3, <4>2
        <5>2. ASSUME NEW m \in 0 .. PathSize - 2, row \notin Near(g, m), ToSet(g.links[row][j]) \cap Near(g, m) # {}
              PROVE  Blocked(g, h[k], m + 1, depth)
          <6>1. Blocked(g, h[k - 1], m + 1, depth)
            BY <2>3, <5>1, <5>2 DEF ColumnFinds
          <6>2. m + 1 \in Nat
            OBVIOUS
          <6>3. QED BY <1>0, <3>3, <6>1, <6>2, BlockedStays
        <5>3. QED BY <3>6, <5>2 DEF ColumnFinds
      <4>3. QED BY <4>1, <4>2
    <3>7. Done(h[k], k)
      BY <3>3, <3>4, <3>5, <3>6
    <3>8. QED BY <2>0, <3>7
  <2>4. QED BY <2>2, <2>3
<1>4. Done(r, n)
  <2> HIDE DEF S
  <2>1. 0 .. n \subseteq S
    BY <1>0, <1>2, <1>3, InductionUpTo
  <2>2. n \in S
    BY <1>0, <2>1
  <2>3. QED BY <1>1, <2>2 DEF S
<1>5. Finds(g, r, row, depth)
  <2>1. CASE r.found
    BY <1>4, <2>1 DEF Finds
  <2>2. CASE ~r.found
    <3>1. ASSUME NEW m \in 0 .. PathSize - 1, row \in Near(g, m) PROVE Blocked(g, r, m, depth)
      <4>1. PICK l \in 1 .. m : row \in Near(g, l) /\ row \notin Near(g, l - 1) /\ LinksTo(g, row, Near(g, l - 1))
        BY <3>1, LeastLinks
      <4>2. PICK j \in 1 .. n : ToSet(g.links[row][j]) \cap Near(g, l - 1) # {}
        BY <1>0, <4>1 DEF LinksTo
      <4>3. l - 1 \in 0 .. PathSize - 2 /\ (l - 1) + 1 = l
        OBVIOUS
      <4>4. Blocked(g, r, l, depth)
        <5>1. ColumnFinds(g, r, row, j, depth)
          BY <1>4, <2>2
        <5> DEFINE i == l - 1
        <5>2. i \in 0 .. PathSize - 2 /\ i + 1 = l /\ row \notin Near(g, i) /\ ToSet(g.links[row][j]) \cap Near(g, i) # {}
          BY <4>1, <4>2, <4>3
        <5> HIDE DEF i
        <5>3. Blocked(g, r, i + 1, depth)
          BY <2>2, <5>1, <5>2 DEF ColumnFinds
        <5>4. QED BY <5>2, <5>3
      <4>5. PICK d \in 0 .. depth - 1 :
               /\ \A e \in d .. depth - 1 : r.path[e].exceeded
               /\ r.path[d].row \in Near(g, l) \/ (d = 0 /\ l + depth >= PathSize)
        BY <4>4 DEF Blocked
      <4>6. Near(g, l) \subseteq Near(g, m)
        <5>1. l \in 0 .. m
          OBVIOUS
        <5>2. QED BY <5>1, NearIsMonotonic
      <4>7. r.path[d].row \in Near(g, m) \/ (d = 0 /\ m + depth >= PathSize)
        BY <1>0, <4>5, <4>6
      <4>8. QED BY <4>5, <4>7 DEF Blocked
    <3>2. QED BY <2>2, <3>1 DEF Finds
  <2>3. QED BY <2>1, <2>2
<1>6. QED BY <1>4, <1>5 DEF Answers

\* Remembering a row.
IsRemembered(c, a, row, depth) ==
    /\ a \in CheckerState /\ a.path = c.path /\ a.found = c.found
    /\ a.notModified = IF depth = 0 \/ ~c.path[depth - 1].exceeded THEN c.notModified \cup {row} ELSE c.notModified

LEMMA RememberLaw ==
    ASSUME NEW c \in CheckerState, NEW row \in Row, NEW depth
    PROVE  IsRemembered(c, Remember(c, row, depth), row, depth)
BY DEF IsRemembered, Remember, CheckerState

LEMMA CheckRowType ==
    ASSUME NEW g \in ObjectGraph, PathSize \in Nat \ {0}, NEW depth \in 0 .. PathSize - 1,
           NEW below \in [Row -> [CheckerState -> CheckerState]], NEW row \in Row, row \in Nat, NEW c \in CheckerState
    PROVE  /\ CheckOutgoingLinks(below, c, g, row, depth) \in CheckerState
           /\ CheckRow(below, c, g, row, depth) \in CheckerState
<1> DEFINE r == CheckOutgoingLinks(below, c, g, row, depth)
<1>1. r \in CheckerState
  <2>1. StepsThroughColumns(below, c, g, row, depth)
    BY OutgoingSteps
  <2>2. Len(g.links[row]) \in 0 .. Len(g.links[row])
    BY DEF ObjectGraph
  <2>3. PICK h \in [0 .. Len(g.links[row]) -> CheckerState] : r = h[Len(g.links[row])]
    BY <2>1, Zenon DEF StepsThroughColumns
  <2> HIDE DEF r
  <2>4. QED BY <2>2, <2>3
<1>2. CheckRow(below, c, g, row, depth) = IF depth > 0 /\ row \in g.modified THEN [c EXCEPT !.found = TRUE]
                                          ELSE IF row \in c.notModified THEN c
                                          ELSE IF r.found THEN r ELSE Remember(r, row, depth)
  BY Zenon DEF CheckRow
<1> HIDE DEF r
<1>3. Remember(r, row, depth) \in CheckerState
  BY <1>1, RememberLaw DEF IsRemembered
<1>4. [c EXCEPT !.found = TRUE] \in CheckerState
  BY DEF CheckerState
<1>5. CheckRow(below, c, g, row, depth) \in CheckerState
  BY <1>1, <1>2, <1>3, <1>4
<1>6. QED BY <1>1, <1>5 DEF r

\* check_row: what it finds is modified, and what it has not found is not, but
\* for what it knows to have left out.
LEMMA CheckRowLaw ==
    ASSUME NEW g \in ObjectGraph, PathSize \in Nat \ {0}, NEW depth \in 0 .. PathSize - 1,
           NEW below \in [Row -> [CheckerState -> CheckerState]], ChecksRows(g, below, depth + 1),
           NEW row \in Row, row \in Nat, depth = 0 => row \notin g.modified, NEW c \in CheckerState, Asks(g, c)
    PROVE  Answers(g, c, CheckRow(below, c, g, row, depth), row, depth)
<1> DEFINE r == CheckOutgoingLinks(below, c, g, row, depth)
           a == CheckRow(below, c, g, row, depth)
           last == PathSize - 1
<1>0. a = IF depth > 0 /\ row \in g.modified THEN [c EXCEPT !.found = TRUE]
          ELSE IF row \in c.notModified THEN c
          ELSE IF r.found THEN r ELSE Remember(r, row, depth)
  BY Zenon DEF CheckRow
<1>1. r \in CheckerState
  BY CheckRowType
<1>2. last \in Nat /\ depth \in Nat /\ depth < PathSize /\ last \in 0 .. PathSize - 1
  OBVIOUS
<1>3. \A n \in 0 .. PathSize - 1 : Near(g, n) \subseteq Near(g, last)
  BY <1>2, NearIsMonotonic
<1>4. ASSUME row \in g.modified PROVE Answers(g, c, a, row, depth)
  <2>1. depth > 0 /\ a = [c EXCEPT !.found = TRUE]
    BY <1>0, <1>2, <1>4
  <2>2. a \in CheckerState /\ a.path = c.path /\ a.notModified = c.notModified /\ a.found
    BY <2>1 DEF CheckerState
  <2>3. row \in Near(g, PathSize - 1 - depth)
    <3> DEFINE n == PathSize - 1 - depth
    <3>1. n \in 0 .. PathSize - 1 /\ 0 \in 0 .. n
      OBVIOUS
    <3> HIDE DEF n
    <3>2. Near(g, 0) \subseteq Near(g, n)
      BY <3>1, NearIsMonotonic
    <3>3. Near(g, 0) = g.modified
      BY NearLaw
    <3>4. QED BY <1>4, <3>2, <3>3 DEF n
  <2> HIDE DEF a
  <2>4. Keeps(c, a, depth)
    BY <2>2 DEF Keeps
  <2>5. Sound(g, a)
    BY <2>2 DEF Sound, Asks
  <2>6. Finds(g, a, row, depth)
    BY <1>2, <2>2, <2>3 DEF Finds
  <2>7. QED BY <2>4, <2>5, <2>6 DEF Answers
<1>5. ASSUME row \notin g.modified, row \in c.notModified PROVE Answers(g, c, a, row, depth)
  <2>1. a = c
    BY <1>0, <1>5
  <2>2. row \notin Near(g, last)
    BY <1>5 DEF Asks, Sound
  <2>3. \A n \in 0 .. PathSize - 1 : row \notin Near(g, n)
    BY <1>3, <2>2
  <2> HIDE DEF a
  <2>4. Keeps(c, c, depth) /\ Sound(g, c) /\ ~c.found
    BY DEF Keeps, Asks
  <2>5. QED BY <2>1, <2>3, <2>4 DEF Answers, Finds
<1>6. ASSUME row \notin g.modified, row \notin c.notModified PROVE Answers(g, c, a, row, depth)
  <2>1. Answers(g, c, r, row, depth)
    BY <1>6, OutgoingLaw
  <2>2. a = IF r.found THEN r ELSE Remember(r, row, depth)
    BY <1>0, <1>6
  <2> HIDE DEF a, r
  <2>3. CASE r.found
    BY <2>1, <2>2, <2>3
  <2>4. CASE ~r.found
    <3>0. IsRemembered(r, Remember(r, row, depth), row, depth)
      BY <1>1, RememberLaw
    <3>1. IsRemembered(r, a, row, depth)
      BY <2>2, <2>4, <3>0, Zenon
    <3>2. Keeps(c, a, depth)
      BY <2>1, <3>1 DEF Answers, Keeps, IsRemembered
    <3>3. Finds(g, a, row, depth)
      BY <2>1, <2>4, <3>1 DEF Answers, Finds, Blocked, IsRemembered
    <3>4. Sound(g, a)
      <4>1. CASE depth = 0 \/ ~r.path[depth - 1].exceeded
        <5>1. ~Blocked(g, r, last, depth)
          <6>1. SUFFICES ASSUME Blocked(g, r, last, depth) PROVE FALSE
            OBVIOUS
          <6>2. PICK d \in 0 .. depth - 1 : \A e \in d .. depth - 1 : r.path[e].exceeded
            BY <6>1 DEF Blocked
          <6>3. depth # 0 /\ depth - 1 \in d .. depth - 1
            BY <1>2
          <6>4. QED BY <4>1, <6>2, <6>3
        <5>2. row \notin Near(g, last)
          BY <1>2, <2>1, <2>4, <5>1 DEF Answers, Finds
        <5>3. QED BY <2>1, <3>1, <4>1, <5>2 DEF Answers, Sound, IsRemembered
      <4>2. CASE ~(depth = 0 \/ ~r.path[depth - 1].exceeded)
        BY <2>1, <3>1, <4>2 DEF Answers, Sound, IsRemembered
      <4>3. QED BY <4>1, <4>2
    <3>5. QED BY <3>2, <3>3, <3>4 DEF Answers
  <2>5. QED BY <2>3, <2>4
<1>7. QED BY <1>4, <1>5, <1>6

\* The check at the end of the path.
AtTheEnd == [row \in Row |-> [c \in CheckerState |-> Exceeded(c, DOMAIN c.path)]]

LEMMA EndLaw ==
    ASSUME NEW g \in ObjectGraph, PathSize \in Nat \ {0}
    PROVE  AtTheEnd \in [Row -> [CheckerState -> CheckerState]] /\ ChecksRows(g, AtTheEnd, PathSize)
<1>1. AtTheEnd \in [Row -> [CheckerState -> CheckerState]]
  <2>1. \A c \in CheckerState : Exceeded(c, DOMAIN c.path) \in CheckerState
    BY ExceededLaw
  <2>2. QED BY <2>1, Zenon DEF AtTheEnd
<1>2. ASSUME NEW row \in Row, NEW c \in CheckerState, Asks(g, c) PROVE Answers(g, c, AtTheEnd[row][c], row, PathSize)
  <2> DEFINE levels == DOMAIN c.path
             r == Exceeded(c, levels)
  <2>1. AtTheEnd[row][c] = r
    BY Zenon DEF AtTheEnd
  <2>2. levels = 0 .. PathSize - 1
    BY DEF CheckerState, Path
  <2> HIDE DEF levels
  <2>3. /\ r \in CheckerState /\ r.notModified = c.notModified /\ r.found = c.found
        /\ \A d \in 0 .. PathSize - 1 : r.path[d].row = c.path[d].row /\ r.path[d].exceeded = (c.path[d].exceeded \/ d \in levels)
    BY ExceededLaw
  <2> HIDE DEF r
  <2>a. Keeps(c, r, PathSize)
    BY <2>3 DEF Keeps
  <2>b. ~r.found
    BY <1>2, <2>3 DEF Asks
  <2>4. Keeps(c, r, PathSize) /\ Sound(g, r) /\ ~r.found
    BY <1>2, <2>3, <2>a, <2>b DEF Sound, Asks
  <2>5. ASSUME NEW n \in 0 .. PathSize - 1 PROVE Blocked(g, r, n, PathSize)
    <3>1. 0 \in 0 .. PathSize - 1 /\ n + PathSize >= PathSize
      OBVIOUS
    <3>2. \A e \in 0 .. PathSize - 1 : r.path[e].exceeded
      BY <2>2, <2>3
    <3>3. QED BY <3>1, <3>2 DEF Blocked
  <2>6. QED BY <2>1, <2>4, <2>5 DEF Answers, Finds
<1>3. QED BY <1>1, <1>2 DEF ChecksRows

\* check_row, with any number of levels that are left.
LEMMA CheckRowInLaw ==
    ASSUME NEW g \in ObjectGraph, PathSize \in Nat \ {0}, Row \subseteq Nat
    PROVE  /\ CheckRowIn(g)[PathSize] \in [Row -> [CheckerState -> CheckerState]]
           /\ ChecksRows(g, CheckRowIn(g)[PathSize], 0)
<1> DEFINE R == [Row -> [CheckerState -> CheckerState]]
           Level(below, left) == [row \in Row |-> [c \in CheckerState |-> CheckRow(below, c, g, row, PathSize - left)]]
           Is(h) == h = [left \in 0 .. PathSize |->
                           [row \in Row |-> [c \in CheckerState |->
                              IF left = 0 THEN Exceeded(c, DOMAIN c.path)
                              ELSE CheckRow(h[left - 1], c, g, row, PathSize - left)]]]
           H == CHOOSE h : Is(h)
           F == [left \in 1 .. PathSize |-> [below \in R |-> Level(below, left)]]
<1>1. CheckRowIn(g) = H
  BY Zenon DEF CheckRowIn
<1>2. \A left \in 1 .. PathSize : \A below \in R : Level(below, left) \in R
  <2>1. ASSUME NEW left \in 1 .. PathSize, NEW below \in R PROVE Level(below, left) \in R
    <3>1. PathSize - left \in 0 .. PathSize - 1
      OBVIOUS
    <3>2. \A row \in Row : \A c \in CheckerState : CheckRow(below, c, g, row, PathSize - left) \in CheckerState
      BY <3>1, CheckRowType
    <3>3. QED BY <3>2, Zenon
  <2> HIDE DEF Level, R
  <2>2. QED BY <2>1
<1>3. F \in [1 .. PathSize -> [R -> R]]
  <2> HIDE DEF Level, R
  <2>1. QED BY <1>2, Zenon
<1>4. \A left \in 1 .. PathSize : \A below \in R : F[left][below] = Level(below, left)
  <2> HIDE DEF Level, R
  <2>1. QED BY Zenon
<1>5. AtTheEnd \in R /\ ChecksRows(g, AtTheEnd, PathSize)
  BY EndLaw
<1>a. PathSize \in Nat
  OBVIOUS
<1> HIDE DEF F, R
<1>6. PICK h \in [0 .. PathSize -> R] : Recurs(h, PathSize, AtTheEnd, F)
  BY <1>3, <1>5, <1>a, RecursionExists DEF HasRecursion
<1>7. h[0] = AtTheEnd
  <2>1. 0 \in 0 .. PathSize
    BY <1>a
  <2>2. QED BY <1>6, <2>1, Zenon DEF Recurs
<1>8. ASSUME NEW left \in 1 .. PathSize PROVE h[left] = Level(h[left - 1], left)
  <2>1. left \in 0 .. PathSize /\ left # 0 /\ left - 1 \in 0 .. PathSize
    BY <1>a
  <2>2. h[left] = F[left][h[left - 1]] /\ h[left - 1] \in R
    BY <1>6, <2>1, Zenon DEF Recurs
  <2> HIDE DEF Level
  <2>3. QED BY <1>4, <2>2, Zenon
<1>9. Is(h)
  <2> DEFINE At(left) == [row \in Row |-> [c \in CheckerState |->
                            IF left = 0 THEN Exceeded(c, DOMAIN c.path)
                            ELSE CheckRow(h[left - 1], c, g, row, PathSize - left)]]
  <2>1. At(0) = AtTheEnd
    BY Zenon DEF AtTheEnd
  <2>2. ASSUME NEW left \in 1 .. PathSize PROVE At(left) = Level(h[left - 1], left)
    <3>1. left # 0
      BY <1>a
    <3>2. QED BY <3>1, Zenon
  <2>3. \A left \in 0 .. PathSize : left = 0 \/ left \in 1 .. PathSize
    BY <1>a
  <2> HIDE DEF At, Level
  <2>4. \A left \in 0 .. PathSize : h[left] = At(left)
    BY <1>7, <1>8, <2>1, <2>2, <2>3, Zenon
  <2>5. h = [left \in 0 .. PathSize |-> h[left]]
    BY <1>6
  <2>6. h = [left \in 0 .. PathSize |-> At(left)]
    BY <2>4, <2>5, Zenon
  <2>7. QED BY <2>6, Zenon DEF At
<1>10. Is(H)
  BY <1>9, Zenon
<1> HIDE DEF H
<1>11. H[0] = AtTheEnd
  <2>1. 0 \in 0 .. PathSize
    BY <1>a
  <2>2. QED BY <1>10, <2>1, ZenonT(60) DEF AtTheEnd
<1>12. ASSUME NEW left \in 1 .. PathSize PROVE H[left] = Level(H[left - 1], left)
  <2>1. left \in 0 .. PathSize /\ left # 0
    BY <1>a
  <2>2. QED BY <1>10, <2>1, ZenonT(60)
<1> HIDE DEF Is, Level
<1> DEFINE S == {left \in 0 .. PathSize : H[left] \in R /\ ChecksRows(g, H[left], PathSize - left)}
<1>13. 0 \in S
  BY <1>5, <1>11, <1>a
<1>14. ASSUME NEW left \in 1 .. PathSize, left - 1 \in S PROVE left \in S
  <2> DEFINE below == H[left - 1]
             depth == PathSize - left
  <2>1. depth \in 0 .. PathSize - 1 /\ depth + 1 = PathSize - (left - 1) /\ left \in 0 .. PathSize
    BY <1>a
  <2>2. below \in R /\ ChecksRows(g, below, depth + 1)
    BY <1>14, <2>1
  <2> HIDE DEF S, below
  <2>3. H[left] = Level(below, left)
    BY <1>12 DEF below
  <2>4. H[left] \in R
    BY <1>2, <2>2, <2>3
  <2>5. ASSUME NEW row \in Row, NEW c \in CheckerState PROVE H[left][row][c] = CheckRow(below, c, g, row, depth)
    <3>1. Level(below, left)[row][c] = CheckRow(below, c, g, row, PathSize - left)
      BY Zenon DEF Level
    <3> HIDE DEF Level
    <3>2. QED BY <2>3, <3>1
  <2> HIDE DEF depth
  <2>6. ASSUME NEW row \in Row, NEW c \in CheckerState, Asks(g, c), depth = 0 => row \notin g.modified
        PROVE  Answers(g, c, H[left][row][c], row, depth)
    <3>1. row \in Nat
      OBVIOUS
    <3>2. Answers(g, c, CheckRow(below, c, g, row, depth), row, depth)
      BY <2>1, <2>2, <2>6, <3>1, CheckRowLaw DEF R
    <3>3. QED BY <2>5, <3>2
  <2>7. ChecksRows(g, H[left], depth)
    BY <2>6 DEF ChecksRows
  <2>8. QED BY <2>1, <2>4, <2>7 DEF S, depth
<1> HIDE DEF S
<1>15. 0 .. PathSize \subseteq S
  BY <1>13, <1>14, <1>a, InductionUpTo
<1>16. PathSize \in S /\ PathSize - PathSize = 0
  BY <1>15, <1>a
<1>17. QED BY <1>1, <1>16 DEF S, R

-----------------------------------------------------------------------------
(* The tables that a checker has to do with                                *)

\* What find_related_tables does in one table that is not out yet.
TablesVia(find, schema, t, out) ==
    LET upTo[k \in 0 .. Len(schema[t])] ==
            IF k = 0 THEN out \cup {t} ELSE find[schema[t][k].target][upTo[k - 1]]
    IN  upTo[Len(schema[t])]

IsSchema(schema) == schema \in Seq(Seq([target : DOMAIN schema, list : BOOLEAN]))
Targets(schema, t) == {schema[t][k].target : k \in DOMAIN schema[t]}

LEMMA SchemaLaw ==
    ASSUME NEW schema, IsSchema(schema)
    PROVE  /\ Len(schema) \in Nat /\ DOMAIN schema = 1 .. Len(schema)
           /\ \A t \in DOMAIN schema :
                 /\ Len(schema[t]) \in Nat /\ DOMAIN schema[t] = 1 .. Len(schema[t])
                 /\ \A k \in DOMAIN schema[t] : schema[t][k].target \in DOMAIN schema
<1> DEFINE Tables == DOMAIN schema
           Link == [target : Tables, list : BOOLEAN]
<1>1. schema \in Seq(Seq(Link))
  BY DEF IsSchema
<1>2. \A x \in Link : x.target \in Tables
  OBVIOUS
<1> HIDE DEF Link
<1>3. Len(schema) \in Nat /\ Tables = 1 .. Len(schema) /\ \A t \in Tables : schema[t] \in Seq(Link)
  BY <1>1
<1>4. ASSUME NEW t \in Tables
      PROVE  Len(schema[t]) \in Nat /\ DOMAIN schema[t] = 1 .. Len(schema[t]) /\ \A k \in DOMAIN schema[t] : schema[t][k] \in Link
  BY <1>3
<1>5. QED BY <1>2, <1>3, <1>4

Searches(schema) == [DOMAIN schema -> [SUBSET DOMAIN schema -> SUBSET DOMAIN schema]]

StepsThroughLinks(find, schema, t, out) ==
    \E h \in [0 .. Len(schema[t]) -> SUBSET DOMAIN schema] :
        /\ h[0] = out \cup {t}
        /\ \A k \in 1 .. Len(schema[t]) : h[k] = find[schema[t][k].target][h[k - 1]]
        /\ TablesVia(find, schema, t, out) = h[Len(schema[t])]

LEMMA LinkSteps ==
    ASSUME NEW schema, IsSchema(schema), NEW find \in Searches(schema), NEW t \in DOMAIN schema,
           NEW out \in SUBSET DOMAIN schema
    PROVE  StepsThroughLinks(find, schema, t, out)
<1> DEFINE n == Len(schema[t])
           base == out \cup {t}
           R == SUBSET DOMAIN schema
           Is(h) == h = [k \in 0 .. n |-> IF k = 0 THEN base ELSE find[schema[t][k].target][h[k - 1]]]
           H == CHOOSE h : Is(h)
           F == [k \in 1 .. n |-> find[schema[t][k].target]]
<1>2. n \in Nat /\ \A k \in 1 .. n : schema[t][k].target \in DOMAIN schema
  BY SchemaLaw
<1>3. base \in R /\ F \in [1 .. n -> [R -> R]]
  <2> HIDE DEF n
  <2>1. \A k \in 1 .. n : find[schema[t][k].target] \in [R -> R]
    BY <1>2 DEF Searches
  <2>2. QED BY <2>1
<1>4. TablesVia(find, schema, t, out) = H[n]
  BY Zenon DEF TablesVia
<1>5. \A k \in 1 .. n : F[k] = find[schema[t][k].target]
  BY Zenon
<1> HIDE DEF n, F, R, base
<1>6. PICK h \in [0 .. n -> R] : Recurs(h, n, base, F)
  BY <1>2, <1>3, RecursionExists DEF HasRecursion
<1>7. Is(h)
  <2>1. h = [k \in 0 .. n |-> h[k]]
    BY <1>6
  <2>2. ASSUME NEW k \in 0 .. n PROVE h[k] = IF k = 0 THEN base ELSE find[schema[t][k].target][h[k - 1]]
    <3>1. k = 0 \/ k \in 1 .. n
      BY <1>2
    <3>2. h[k] = IF k = 0 THEN base ELSE F[k][h[k - 1]]
      BY <1>6, Zenon DEF Recurs
    <3>3. QED BY <1>5, <3>1, <3>2, Zenon
  <2>3. QED BY <2>1, <2>2, Zenon
<1>8. Is(H)
  BY <1>7, Zenon
<1> HIDE DEF H
<1>9. ASSUME NEW k \in 0 .. n PROVE H[k] = IF k = 0 THEN base ELSE find[schema[t][k].target][H[k - 1]]
  BY <1>8, Zenon
<1> HIDE DEF Is
<1>10. \A k \in 0 .. n : H[k] = h[k]
  <2> DEFINE S == {k \in 0 .. n : H[k] = h[k]}
  <2>1. 0 \in S
    <3>1. 0 \in 0 .. n
      BY <1>2
    <3>2. H[0] = base /\ h[0] = base
      BY <1>6, <1>9, <3>1, Zenon DEF Recurs
    <3>3. QED BY <3>1, <3>2
  <2>2. ASSUME NEW k \in 1 .. n, k - 1 \in S PROVE k \in S
    <3>1. k \in 0 .. n /\ k # 0 /\ H[k - 1] = h[k - 1]
      BY <1>2, <2>2
    <3>2. h[k] = F[k][h[k - 1]]
      BY <1>6, <3>1, Zenon DEF Recurs
    <3>3. H[k] = h[k]
      BY <1>5, <1>9, <3>1, <3>2, Zenon
    <3>4. QED BY <3>1, <3>3
  <2> HIDE DEF S
  <2>3. 0 .. n \subseteq S
    BY <1>2, <2>1, <2>2, InductionUpTo
  <2>4. QED BY <2>3 DEF S
<1>11. /\ h[0] = base
       /\ \A k \in 1 .. n : h[k] = find[schema[t][k].target][h[k - 1]]
       /\ TablesVia(find, schema, t, out) = h[n]
  <2>1. 0 \in 0 .. n /\ n \in 0 .. n
    BY <1>2
  <2>2. h[0] = base
    BY <1>6, <2>1, Zenon DEF Recurs
  <2>3. ASSUME NEW k \in 1 .. n PROVE h[k] = find[schema[t][k].target][h[k - 1]]
    <3>1. k \in 0 .. n /\ k # 0
      BY <1>2
    <3>2. QED BY <1>5, <1>6, <3>1, Zenon DEF Recurs
  <2>4. TablesVia(find, schema, t, out) = h[n]
    BY <1>4, <1>10, <2>1
  <2>5. QED BY <2>2, <2>3, <2>4
<1>12. QED BY <1>6, <1>11, Zenon DEF StepsThroughLinks, n, R, base

\* A search that goes deep enough, for the tables that are not out.
FindsAll(schema, find, left) ==
    \A t \in DOMAIN schema : \A out \in SUBSET DOMAIN schema :
        Cardinality(DOMAIN schema \ out) <= left =>
            /\ out \cup {t} \subseteq find[t][out]
            /\ \A u \in find[t][out] \ out : Targets(schema, u) \subseteq find[t][out]

\* One level more.
LEMMA DeeperSearch ==
    ASSUME NEW schema, IsSchema(schema), NEW find \in Searches(schema), NEW left \in Nat, FindsAll(schema, find, left),
           NEW t \in DOMAIN schema, NEW out \in SUBSET DOMAIN schema, t \notin out,
           Cardinality(DOMAIN schema \ out) <= left + 1
    PROVE  /\ out \cup {t} \subseteq TablesVia(find, schema, t, out)
           /\ \A u \in TablesVia(find, schema, t, out) \ out : Targets(schema, u) \subseteq TablesVia(find, schema, t, out)
<1> DEFINE n == Len(schema[t])
           Tables == DOMAIN schema
<1>1. n \in Nat /\ DOMAIN schema[t] = 1 .. n /\ \A k \in 1 .. n : schema[t][k].target \in DOMAIN schema
  BY SchemaLaw
<1>2. IsFiniteSet(Tables)
  <2>1. Len(schema) \in Nat /\ Tables = 1 .. Len(schema)
    BY DEF IsSchema
  <2>2. QED BY <2>1, FS_Interval
<1>3. StepsThroughLinks(find, schema, t, out)
  BY LinkSteps
<1>4. PICK h \in [0 .. n -> SUBSET Tables] :
         /\ h[0] = out \cup {t}
         /\ \A k \in 1 .. n : h[k] = find[schema[t][k].target][h[k - 1]]
         /\ TablesVia(find, schema, t, out) = h[n]
  BY <1>3, Zenon DEF StepsThroughLinks
<1> HIDE DEF n
<1>5. ASSUME NEW T \in SUBSET Tables, out \cup {t} \subseteq T PROVE Cardinality(Tables \ T) <= left
  <2>1. IsFiniteSet(Tables \ out) /\ t \in Tables \ out
    BY <1>2, FS_Subset
  <2>2. IsFiniteSet((Tables \ out) \ {t}) /\ Cardinality((Tables \ out) \ {t}) = Cardinality(Tables \ out) - 1
    BY <2>1, FS_RemoveElement
  <2>3. Tables \ T \subseteq (Tables \ out) \ {t}
    BY <1>5
  <2>4. IsFiniteSet(Tables \ T) /\ Cardinality(Tables \ T) <= Cardinality((Tables \ out) \ {t})
    BY <2>2, <2>3, FS_Subset
  <2>5. Cardinality(Tables \ out) \in Nat /\ Cardinality((Tables \ out) \ {t}) \in Nat /\ Cardinality(Tables \ T) \in Nat
    BY <2>1, <2>2, <2>4, FS_CardinalityType
  <2>6. QED BY <2>2, <2>4, <2>5
<1> DEFINE Done(T, k) == /\ T \in SUBSET Tables /\ out \cup {t} \subseteq T
                         /\ \A u \in T \ (out \cup {t}) : Targets(schema, u) \subseteq T
                         /\ \A j \in 1 .. k : schema[t][j].target \in T
           S == {k \in 0 .. n : Done(h[k], k)}
<1>6. 0 \in S
  <2>1. 0 \in 0 .. n /\ \A j \in 1 .. 0 : FALSE
    BY <1>1
  <2>2. Done(out \cup {t}, 0)
    BY <2>1
  <2>3. QED BY <1>4, <2>1, <2>2
<1>7. ASSUME NEW k \in 1 .. n, k - 1 \in S PROVE k \in S
  <2> DEFINE T == h[k - 1]
             q == schema[t][k].target
  <2>1. k \in 0 .. n /\ k - 1 \in 0 .. n /\ Done(T, k - 1) /\ q \in Tables
    BY <1>1, <1>7
  <2>2. h[k] = find[q][T] /\ h[k] \in SUBSET Tables
    BY <1>4, <2>1
  <2> HIDE DEF T, q
  <2>3. Cardinality(Tables \ T) <= left
    BY <1>5, <2>1
  <2>4. T \cup {q} \subseteq h[k] /\ \A u \in h[k] \ T : Targets(schema, u) \subseteq h[k]
    BY <2>1, <2>2, <2>3 DEF FindsAll
  <2>5. ASSUME NEW j \in 1 .. k PROVE schema[t][j].target \in h[k]
    <3>1. j = k \/ j \in 1 .. k - 1
      BY <2>1, <1>1
    <3>2. QED BY <2>1, <2>4, <3>1 DEF q
  <2>6. \A u \in h[k] \ (out \cup {t}) : Targets(schema, u) \subseteq h[k]
    BY <2>1, <2>4
  <2>7. Done(h[k], k)
    BY <2>1, <2>2, <2>4, <2>5, <2>6
  <2>8. QED BY <2>1, <2>7
<1> HIDE DEF S
<1>8. 0 .. n \subseteq S
  BY <1>1, <1>6, <1>7, InductionUpTo
<1>9. Done(h[n], n)
  BY <1>1, <1>8 DEF S
<1>10. Targets(schema, t) \subseteq h[n]
  BY <1>1, <1>9 DEF Targets
<1>11. QED BY <1>4, <1>9, <1>10

\* find_related_tables: the table itself and, with each, those that it links to.
LEMMA RelatedLaw ==
    ASSUME NEW schema, IsSchema(schema), NEW table \in DOMAIN schema
    PROVE  /\ FindRelatedTables(schema, table) \in SUBSET DOMAIN schema
           /\ table \in FindRelatedTables(schema, table)
           /\ \A u \in FindRelatedTables(schema, table) : Targets(schema, u) \subseteq FindRelatedTables(schema, table)
<1> DEFINE Tables == DOMAIN schema
           N == Len(schema)
           R == Searches(schema)
           Nothing == [t \in Tables |-> [out \in SUBSET Tables |-> out]]
           Deeper(f) == [t \in Tables |-> [out \in SUBSET Tables |-> IF t \in out THEN out ELSE TablesVia(f, schema, t, out)]]
           Is(h) == h = [left \in 0 .. N |->
                           [t \in DOMAIN schema |-> [out \in SUBSET DOMAIN schema |->
                              IF left = 0 \/ t \in out THEN out ELSE TablesVia(h[left - 1], schema, t, out)]]]
           H == CHOOSE h : Is(h)
           F == [left \in 1 .. N |-> [f \in R |-> Deeper(f)]]
<1>1. N \in Nat /\ Tables = 1 .. N
  BY DEF IsSchema
<1>2. FindRelatedTables(schema, table) = H[N][table][{}]
  BY Zenon DEF FindRelatedTables, TablesVia
<1>3. Nothing \in R
  BY DEF Searches
<1>4. ASSUME NEW f \in R PROVE Deeper(f) \in R
  <2>1. ASSUME NEW t \in Tables, NEW out \in SUBSET Tables PROVE TablesVia(f, schema, t, out) \in SUBSET Tables
    <3>1. StepsThroughLinks(f, schema, t, out)
      BY LinkSteps
    <3>2. PICK h \in [0 .. Len(schema[t]) -> SUBSET Tables] : TablesVia(f, schema, t, out) = h[Len(schema[t])]
      BY <3>1, Zenon DEF StepsThroughLinks
    <3>3. Len(schema[t]) \in Nat
      BY DEF IsSchema
    <3>4. QED BY <3>2, <3>3
  <2>2. QED BY <2>1 DEF Searches
<1>5. F \in [1 .. N -> [R -> R]] /\ \A left \in 1 .. N : \A f \in R : F[left][f] = Deeper(f)
  <2> HIDE DEF R, Deeper
  <2>1. QED BY <1>4, Zenon
<1> HIDE DEF F, R, Deeper, Nothing, N
<1>6. PICK h \in [0 .. N -> R] : Recurs(h, N, Nothing, F)
  BY <1>1, <1>3, <1>5, RecursionExists DEF HasRecursion
<1>7. h[0] = Nothing
  <2>1. 0 \in 0 .. N
    BY <1>1
  <2>2. QED BY <1>6, <2>1, Zenon DEF Recurs
<1>8. ASSUME NEW left \in 1 .. N PROVE h[left] = Deeper(h[left - 1])
  <2>1. left \in 0 .. N /\ left # 0 /\ left - 1 \in 0 .. N
    BY <1>1
  <2>2. h[left] = F[left][h[left - 1]] /\ h[left - 1] \in R
    BY <1>6, <2>1, Zenon DEF Recurs
  <2>3. QED BY <1>5, <2>2, Zenon
<1>9. Is(h)
  <2> DEFINE At(left) == [t \in DOMAIN schema |-> [out \in SUBSET DOMAIN schema |->
                            IF left = 0 \/ t \in out THEN out ELSE TablesVia(h[left - 1], schema, t, out)]]
  <2>1. At(0) = Nothing
    BY Zenon DEF Nothing
  <2>2. ASSUME NEW left \in 1 .. N PROVE At(left) = Deeper(h[left - 1])
    <3>1. left # 0
      BY <1>1
    <3>2. QED BY <3>1, Zenon DEF Deeper
  <2>3. \A left \in 0 .. N : left = 0 \/ left \in 1 .. N
    BY <1>1
  <2> HIDE DEF At
  <2>4. \A left \in 0 .. N : h[left] = At(left)
    BY <1>7, <1>8, <2>1, <2>2, <2>3, Zenon
  <2>5. h = [left \in 0 .. N |-> h[left]]
    BY <1>6
  <2>6. h = [left \in 0 .. N |-> At(left)]
    BY <2>4, <2>5, Zenon
  <2>7. QED BY <2>6, Zenon DEF At
<1>10. Is(H)
  BY <1>9, ZenonT(60)
<1> HIDE DEF H
<1>11. H[0] = Nothing
  <2>1. 0 \in 0 .. N
    BY <1>1
  <2> DEFINE At == [t \in DOMAIN schema |-> [out \in SUBSET DOMAIN schema |->
                      IF 0 = 0 \/ t \in out THEN out ELSE TablesVia(H[0 - 1], schema, t, out)]]
  <2>2. At = Nothing
    BY Zenon DEF Nothing
  <2>3. H[0] = At
    BY <1>10, <2>1, Zenon
  <2>4. QED BY <2>2, <2>3
<1>12. ASSUME NEW left \in 1 .. N PROVE H[left] = Deeper(H[left - 1])
  <2>1. left \in 0 .. N /\ left # 0
    BY <1>1
  <2> DEFINE At == [t \in DOMAIN schema |-> [out \in SUBSET DOMAIN schema |->
                      IF left = 0 \/ t \in out THEN out ELSE TablesVia(H[left - 1], schema, t, out)]]
  <2>2. At = Deeper(H[left - 1])
    BY <2>1, Zenon DEF Deeper
  <2>3. H[left] = At
    BY <1>10, <2>1, Zenon
  <2>4. QED BY <2>2, <2>3
<1> HIDE DEF Is
<1> DEFINE S == {left \in 0 .. N : H[left] \in R /\ FindsAll(schema, H[left], left)}
<1>13. 0 \in S
  <2>1. ASSUME NEW t \in Tables, NEW out \in SUBSET Tables, Cardinality(Tables \ out) <= 0 PROVE t \in out /\ Nothing[t][out] = out
    <3>1. IsFiniteSet(Tables \ out)
      <4>1. IsFiniteSet(Tables)
        BY <1>1, FS_Interval
      <4>2. QED BY <4>1, FS_Subset
    <3>2. Cardinality(Tables \ out) = 0
      BY <2>1, <3>1, FS_CardinalityType
    <3>3. Tables \ out = {}
      BY <3>1, <3>2, FS_EmptySet
    <3>4. QED BY <3>3 DEF Nothing
  <2>2. FindsAll(schema, Nothing, 0)
    BY <2>1 DEF FindsAll
  <2>3. QED BY <1>1, <1>3, <1>11, <2>2
<1>14. ASSUME NEW left \in 1 .. N, left - 1 \in S PROVE left \in S
  <2> DEFINE f == H[left - 1]
             m == left - 1
  <2>1. f \in R /\ FindsAll(schema, f, m) /\ m \in Nat /\ m + 1 = left /\ left \in 0 .. N
    BY <1>1, <1>14
  <2>2. H[left] = Deeper(f)
    BY <1>12
  <2> HIDE DEF f, m, S
  <2>3. Deeper(f) \in R
    BY <1>4, <2>1
  <2>4. ASSUME NEW t \in Tables, NEW out \in SUBSET Tables, Cardinality(Tables \ out) <= left
        PROVE  /\ out \cup {t} \subseteq Deeper(f)[t][out]
               /\ \A u \in Deeper(f)[t][out] \ out : Targets(schema, u) \subseteq Deeper(f)[t][out]
    <3>1. Deeper(f)[t][out] = IF t \in out THEN out ELSE TablesVia(f, schema, t, out)
      BY Zenon DEF Deeper
    <3>2. CASE t \in out
      BY <3>1, <3>2
    <3>3. CASE t \notin out
      <4>1. Cardinality(Tables \ out) <= m + 1 /\ f \in Searches(schema)
        BY <2>1, <2>4 DEF R
      <4>2. /\ out \cup {t} \subseteq TablesVia(f, schema, t, out)
            /\ \A u \in TablesVia(f, schema, t, out) \ out : Targets(schema, u) \subseteq TablesVia(f, schema, t, out)
        BY <2>1, <3>3, <4>1, DeeperSearch
      <4>3. QED BY <3>1, <3>3, <4>2
    <3>4. QED BY <3>2, <3>3
  <2>5. FindsAll(schema, Deeper(f), left)
    BY <2>4 DEF FindsAll
  <2>6. QED BY <2>1, <2>2, <2>3, <2>5 DEF S
<1> HIDE DEF S
<1>15. 0 .. N \subseteq S
  BY <1>1, <1>13, <1>14, InductionUpTo
<1>16. H[N] \in R /\ FindsAll(schema, H[N], N)
  BY <1>1, <1>15 DEF S
<1>17. Cardinality(Tables \ {}) <= N
  <2>1. Cardinality(1 .. N) = N
    <3>1. Cardinality(1 .. N) = IF 1 > N THEN 0 ELSE N - 1 + 1
      BY <1>1, FS_Interval
    <3>2. QED BY <1>1, <3>1
  <2>2. Tables \ {} = 1 .. N
    BY <1>1
  <2>3. QED BY <1>1, <2>1, <2>2
<1> DEFINE none == {}
<1>18. none \in SUBSET Tables /\ Cardinality(Tables \ none) <= N
  BY <1>17
<1> HIDE DEF none
<1>19. /\ none \cup {table} \subseteq H[N][table][none]
       /\ \A u \in H[N][table][none] \ none : Targets(schema, u) \subseteq H[N][table][none]
       /\ H[N][table][none] \in SUBSET Tables
  <2>1. H[N][table] \in [SUBSET Tables -> SUBSET Tables]
    BY <1>16 DEF R, Searches
  <2>2. QED BY <1>16, <1>18, <2>1 DEF FindsAll
<1>20. QED BY <1>2, <1>19 DEF none

-----------------------------------------------------------------------------
(* The answers                                                             *)

\* An object graph of a schema: each row has the columns of its table, and they
\* link to rows of their targets, to any number of them.
GraphOf(schema, g) ==
    /\ g \in ObjectGraph
    /\ \A row \in Row :
          /\ DOMAIN g.links[row] = DOMAIN schema[TableOf[row]]
          /\ \A col \in DOMAIN g.links[row] : \A r \in ToSet(g.links[row][col]) :
                TableOf[r] = schema[TableOf[row]][col].target

\* The rows are numbered, and each is of a table.
LEMMA RowsOfTables ==
    ASSUME NEW schema \in Schemas
    PROVE  IsSchema(schema) /\ Row \subseteq Nat /\ \A row \in Row : TableOf[row] \in DOMAIN schema
<1>1. schema \in Seq(Seq([target : DOMAIN schema, list : BOOLEAN])) /\ TableOf \in Seq(DOMAIN schema)
  BY DeepChangesAssumption
<1>2. IsSchema(schema)
  BY <1>1 DEF IsSchema
<1> DEFINE Tables == DOMAIN schema
<1> HIDE DEF Tables
<1>3. TableOf \in Seq(Tables)
  BY <1>1 DEF Tables
<1>4. Row \subseteq Nat /\ \A row \in Row : TableOf[row] \in Tables
  BY <1>3 DEF Row
<1>5. QED BY <1>2, <1>4 DEF Tables

\* Where no related table has modified rows, no row is affected.
LEMMA UnrelatedLaw ==
    ASSUME NEW schema, NEW g, GraphOf(schema, g), PathSize \in Nat \ {0},
           NEW T, \A u \in T : Targets(schema, u) \subseteq T, \A m \in g.modified : TableOf[m] \notin T
    PROVE  \A row \in Row : TableOf[row] \in T => row \notin Near(g, PathSize - 1)
<1> DEFINE last == PathSize - 1
           S == {n \in 0 .. last : \A row \in Row : TableOf[row] \in T => row \notin Near(g, n)}
<1>1. last \in Nat /\ g \in ObjectGraph
  BY DEF GraphOf
<1>2. 0 \in S
  BY <1>1, NearLaw
<1>3. ASSUME NEW n \in 1 .. last, n - 1 \in S PROVE n \in S
  <2>1. n \in 0 .. last /\ \A row \in Row : TableOf[row] \in T => row \notin Near(g, n - 1)
    BY <1>1, <1>3
  <2>2. Near(g, n) = Near(g, n - 1) \cup {row \in Row : LinksTo(g, row, Near(g, n - 1))}
    BY <1>1, NearLaw
  <2>3. ASSUME NEW row \in Row, TableOf[row] \in T PROVE ~LinksTo(g, row, Near(g, n - 1))
    <3>1. SUFFICES ASSUME NEW col \in DOMAIN g.links[row], NEW r \in ToSet(g.links[row][col]), r \in Near(g, n - 1)
                   PROVE  FALSE
      BY DEF LinksTo
    <3>2. TableOf[r] = schema[TableOf[row]][col].target /\ col \in DOMAIN schema[TableOf[row]]
      BY DEF GraphOf
    <3>3. TableOf[r] \in Targets(schema, TableOf[row])
      BY <3>2 DEF Targets
    <3>4. TableOf[r] \in T
      BY <2>3, <3>3
    <3>5. r \in Row
      <4>1. Near(g, n - 1) \in SUBSET Row
        <5>1. n - 1 \in 0 .. PathSize - 1
          BY <1>1
        <5>2. QED BY <1>1, <5>1, NearLaw
      <4>2. QED BY <3>1, <4>1
    <3>6. QED BY <2>1, <3>1, <3>4, <3>5
  <2>4. QED BY <2>1, <2>2, <2>3
<1> HIDE DEF S
<1>4. 0 .. last \subseteq S
  BY <1>1, <1>2, <1>3, InductionUpTo
<1>5. QED BY <1>1, <1>4 DEF S

\* A row without links is affected if it was modified.
LEMMA WithoutLinks ==
    ASSUME NEW g \in ObjectGraph, PathSize \in Nat \ {0}, NEW row \in Row, DOMAIN g.links[row] = {}
    PROVE  row \in Near(g, PathSize - 1) <=> row \in g.modified
<1> DEFINE last == PathSize - 1
<1>1. last \in 0 .. PathSize - 1 /\ 0 \in 0 .. last
  OBVIOUS
<1>2. \A S : ~LinksTo(g, row, S)
  BY DEF LinksTo
<1>3. Near(g, 0) = g.modified /\ Near(g, 0) \subseteq Near(g, last)
  BY <1>1, NearLaw, NearIsMonotonic
<1>4. row \in Near(g, last) => row \in g.modified
  BY <1>1, <1>2, LeastLinks
<1>5. QED BY <1>3, <1>4

\* operator() says of a row whether it is affected.
LEMMA AskedLaw ==
    ASSUME NEW g \in ObjectGraph, PathSize \in Nat \ {0}, Row \subseteq Nat,
           NEW c \in CheckerState, Sound(g, c), NEW row \in Row
    PROVE  /\ Asked(c, g, row) \in CheckerState /\ Sound(g, Asked(c, g, row))
           /\ Asked(c, g, row).found = (row \in Near(g, PathSize - 1))
<1> DEFINE last == PathSize - 1
           a == Asked(c, g, row)
<1>1. last \in 0 .. PathSize - 1 /\ 0 \in 0 .. last
  OBVIOUS
<1>2. CASE row \in g.modified
  <2>1. a = [c EXCEPT !.found = TRUE]
    BY <1>2 DEF Asked
  <2>2. a \in CheckerState /\ a.found = TRUE /\ a.notModified = c.notModified
    BY <2>1 DEF CheckerState
  <2>3. row \in Near(g, last)
    <3>1. Near(g, 0) = g.modified /\ Near(g, 0) \subseteq Near(g, last)
      BY <1>1, NearLaw, NearIsMonotonic
    <3>2. QED BY <1>2, <3>1
  <2> HIDE DEF a
  <2>4. a \in CheckerState /\ Sound(g, a) /\ a.found = (row \in Near(g, last))
    BY <2>2, <2>3 DEF Sound
  <2>5. QED BY <2>4 DEF a
<1>3. CASE row \notin g.modified
  <2> DEFINE b == [c EXCEPT !.found = FALSE]
  <2>1. a = CheckRowIn(g)[PathSize][row][b]
    BY <1>3 DEF Asked
  <2>2. b \in CheckerState /\ Asks(g, b)
    BY DEF CheckerState, Asks, Sound
  <2> HIDE DEF a, b
  <2>3. ChecksRows(g, CheckRowIn(g)[PathSize], 0)
    BY CheckRowInLaw
  <2>4. Answers(g, b, a, row, 0)
    BY <1>3, <2>1, <2>2, <2>3 DEF ChecksRows
  <2>5. a \in CheckerState /\ Sound(g, a) /\ Finds(g, a, row, 0)
    BY <2>4 DEF Answers, Keeps
  <2>6. \A n \in Nat : ~Blocked(g, a, n, 0)
    BY DEF Blocked
  <2>7. a.found <=> row \in Near(g, last)
    BY <1>1, <2>5, <2>6 DEF Finds
  <2>8. a.found \in BOOLEAN
    BY <2>5 DEF CheckerState
  <2>9. a.found = (row \in Near(g, last))
    BY <2>7, <2>8
  <2>10. QED BY <2>5, <2>9 DEF a
<1>4. QED BY <1>2, <1>3

\* A checker says of a row that it was modified if and only if it was or links
\* to a modified row, over at most PathSize - 1 links, in any graph of objects
\* of any schema, unless the row's table is the only related one and links to
\* itself, when the code does not follow its links.  What it remembers stays right, so it is right again when it
\* is asked about the next row (DeepChangeChecker).
THEOREM CheckersAreRight ==
    ASSUME NEW schema \in Schemas, NEW g, GraphOf(schema, g),
           NEW c \in CheckerState, c.notModified \cap Affected(g) = {},
           NEW row \in Row, ~LinksOnlyToItself(schema, TableOf[row])
    PROVE  /\ ModificationChecker(c, g, schema, row) \in CheckerState
           /\ ModificationChecker(c, g, schema, row).found = (row \in Affected(g))
           /\ ModificationChecker(c, g, schema, row).notModified \cap Affected(g) = {}
<1> DEFINE a == ModificationChecker(c, g, schema, row)
           table == TableOf[row]
           related == FindRelatedTables(schema, table)
<1>1. PathSize \in Nat \ {0}
  BY DeepChangesAssumption
<1>2. IsSchema(schema) /\ Row \subseteq Nat /\ table \in DOMAIN schema
  BY RowsOfTables
<1>3. g \in ObjectGraph
  BY DEF GraphOf
<1>4. Affected(g) = Near(g, PathSize - 1)
  BY DEF Affected, Near
<1>5. /\ related \in SUBSET DOMAIN schema /\ table \in related
      /\ \A u \in related : Targets(schema, u) \subseteq related
  BY <1>2, RelatedLaw
<1>6. a = IF \A m \in g.modified : TableOf[m] \notin related THEN [c EXCEPT !.found = FALSE]
          ELSE IF related = {table} THEN [c EXCEPT !.found = row \in g.modified]
          ELSE Asked(c, g, row)
  BY Zenon DEF ModificationChecker
<1> HIDE DEF a, related, table
<1>7. \A v \in BOOLEAN : /\ [c EXCEPT !.found = v] \in CheckerState /\ [c EXCEPT !.found = v].found = v
                         /\ [c EXCEPT !.found = v].notModified = c.notModified
  BY DEF CheckerState
<1> DEFINE Right == a \in CheckerState /\ a.found = (row \in Affected(g)) /\ a.notModified \cap Affected(g) = {}
<1>8. ASSUME \A m \in g.modified : TableOf[m] \notin related PROVE Right
  <2>1. row \notin Near(g, PathSize - 1)
    BY <1>1, <1>5, <1>8, UnrelatedLaw DEF table
  <2>2. a = [c EXCEPT !.found = FALSE]
    BY <1>6, <1>8
  <2>3. a \in CheckerState /\ a.found = FALSE /\ a.notModified = c.notModified
    BY <1>7, <2>2
  <2>4. (row \in Affected(g)) = FALSE
    BY <1>4, <2>1
  <2>5. QED BY <2>3, <2>4
<1>9. ASSUME ~(\A m \in g.modified : TableOf[m] \notin related) /\ related = {table} PROVE Right
  <2>1. DOMAIN g.links[row] = {}
    <3>1. DOMAIN schema[table] = {}
      <4>1. \A k \in DOMAIN schema[table] : schema[table][k].target = table
        BY <1>5, <1>9 DEF Targets
      <4>2. schema[table] = <<>>
        BY <4>1 DEF LinksOnlyToItself, table
      <4>3. QED BY <4>2
    <3>2. QED BY <3>1 DEF GraphOf, table
  <2>2. row \in Near(g, PathSize - 1) <=> row \in g.modified
    BY <1>1, <1>3, <2>1, WithoutLinks
  <2> DEFINE v == row \in g.modified
  <2>3. a = [c EXCEPT !.found = v] /\ v \in BOOLEAN
    BY <1>6, <1>9
  <2> HIDE DEF v
  <2>4. a \in CheckerState /\ a.found = v /\ a.notModified = c.notModified
    BY <1>7, <2>3
  <2>5. v = (row \in Affected(g))
    BY <1>4, <2>2 DEF v
  <2>6. QED BY <2>4, <2>5
<1>10. ASSUME ~(\A m \in g.modified : TableOf[m] \notin related) /\ related # {table} PROVE Right
  <2>1. a = Asked(c, g, row)
    BY <1>6, <1>10
  <2>2. Sound(g, c)
    BY <1>4 DEF Sound
  <2>3. a \in CheckerState /\ Sound(g, a) /\ a.found = (row \in Near(g, PathSize - 1))
    BY <1>1, <1>2, <1>3, <2>1, <2>2, AskedLaw
  <2>4. QED BY <1>4, <2>3 DEF Sound
<1>11. Right
  BY <1>8, <1>9, <1>10
<1>12. QED BY <1>11 DEF a

\* The graphs that are tried are graphs of their schema.
LEMMA TriedGraphs ==
    ASSUME NEW schema \in Schemas, NEW g \in Graphs(schema)
    PROVE  GraphOf(schema, g)
<1>0. IsSchema(schema) /\ Row \subseteq Nat /\ \A row \in Row : TableOf[row] \in DOMAIN schema
  BY RowsOfTables
<1>1. /\ g.modified \in SUBSET Row /\ DOMAIN g.links = Row
      /\ \A row \in Row : g.links[row] \in LinksOf(schema, TableOf[row])
      /\ g = [links |-> g.links, modified |-> g.modified]
      /\ g.links = [row \in Row |-> g.links[row]]
  BY DEF Graphs
<1>2. ASSUME NEW link, NEW s \in Links(link)
      PROVE  s \in Seq(Row) /\ \A r \in ToSet(s) : TableOf[r] = link.target
  <2> DEFINE targets == {r \in Row : TableOf[r] = link.target}
  <2>1. \/ s = <<>>
        \/ \E r \in targets : s = <<r>>
        \/ \E r, q \in targets : s = <<r, q>>
    BY DEF Links
  <2>2. CASE s = <<>>
    BY <2>2 DEF ToSet
  <2>3. CASE \E r \in targets : s = <<r>>
    <3>1. PICK r \in targets : s = <<r>>
      BY <2>3
    <3>2. s \in Seq(Row) /\ Len(s) = 1 /\ s[1] = r
      BY <3>1
    <3>3. \A x \in ToSet(s) : x = r
      BY <3>2 DEF ToSet
    <3>4. QED BY <3>2, <3>3
  <2>4. CASE \E r, q \in targets : s = <<r, q>>
    <3>1. PICK r \in targets, q \in targets : s = <<r, q>>
      BY <2>4
    <3>2. s \in Seq(Row) /\ Len(s) = 2 /\ s[1] = r /\ s[2] = q
      BY <3>1
    <3>3. \A x \in ToSet(s) : x = r \/ x = q
      BY <3>2 DEF ToSet
    <3>4. QED BY <3>2, <3>3
  <2>5. QED BY <2>1, <2>2, <2>3, <2>4
<1>3. ASSUME NEW row \in Row
      PROVE  /\ g.links[row] \in Seq(Seq(Row)) /\ DOMAIN g.links[row] = DOMAIN schema[TableOf[row]]
             /\ \A col \in DOMAIN g.links[row] : \A r \in ToSet(g.links[row][col]) :
                   TableOf[r] = schema[TableOf[row]][col].target
  <2> DEFINE s == g.links[row]
             columns == schema[TableOf[row]]
             n == Len(columns)
  <2>1. n \in Nat /\ DOMAIN columns = 1 .. n
    BY <1>0, SchemaLaw
  <2>2. /\ DOMAIN s = DOMAIN columns /\ s = [k \in DOMAIN columns |-> s[k]]
        /\ \A k \in DOMAIN columns : s[k] \in Links(columns[k])
    BY <1>1 DEF LinksOf
  <2> HIDE DEF s, columns, n
  <2>3. \A k \in 1 .. n : s[k] \in Seq(Row) /\ \A r \in ToSet(s[k]) : TableOf[r] = columns[k].target
    BY <1>2, <2>1, <2>2
  <2> DEFINE R == Seq(Row)
  <2>4. s \in [1 .. n -> R]
    BY <2>1, <2>2, <2>3
  <2> HIDE DEF R
  <2>5. s \in Seq(R)
    BY <2>1, <2>4
  <2>6. QED BY <2>1, <2>2, <2>3, <2>5 DEF s, columns, R
<1>4. g \in ObjectGraph
  <2> DEFINE R == Seq(Seq(Row))
  <2>1. \A row \in Row : g.links[row] \in R
    BY <1>3
  <2> HIDE DEF R
  <2>2. g.links \in [Row -> R]
    BY <1>1, <2>1
  <2>3. QED BY <1>1, <2>2 DEF ObjectGraph, R
<1>5. QED BY <1>3, <1>4 DEF GraphOf

\* For the schemas that are given, and any rows.
THEOREM CheckersAlwaysAgree == CheckersAgree
<1>1. ASSUME NEW schema \in Schemas, NEW g \in Graphs(schema), NEW known \in SUBSET (Row \ Affected(g)),
             NEW row \in Row, ~LinksOnlyToItself(schema, TableOf[row]),
             NEW c, c = ModificationChecker([path |-> AnyPath, notModified |-> known, found |-> FALSE], g, schema, row)
      PROVE  c.found = (row \in Affected(g)) /\ c.notModified \cap Affected(g) = {}
  <2> DEFINE start == [path |-> AnyPath, notModified |-> known, found |-> FALSE]
  <2>1. AnyPath \in Path
    BY DEF AnyPath, Path
  <2>2. start \in CheckerState /\ start.notModified \cap Affected(g) = {}
    BY <2>1 DEF CheckerState
  <2>3. GraphOf(schema, g)
    BY TriedGraphs
  <2>4. c = ModificationChecker(start, g, schema, row)
    BY <1>1
  <2> HIDE DEF start
  <2> DEFINE a == ModificationChecker(start, g, schema, row)
  <2>5. a.found = (row \in Affected(g)) /\ a.notModified \cap Affected(g) = {}
    BY <1>1, <2>2, <2>3, CheckersAreRight
  <2>6. c = a
    BY <2>4
  <2> HIDE DEF a
  <2>7. QED BY <2>5, <2>6
<1> DEFINE Asking(known, g, schema, row) ==
             ModificationChecker([path |-> AnyPath, notModified |-> known, found |-> FALSE], g, schema, row)
<1>2. ASSUME NEW schema \in Schemas, NEW g \in Graphs(schema), NEW known \in SUBSET (Row \ Affected(g)),
             NEW row \in Row, ~LinksOnlyToItself(schema, TableOf[row])
      PROVE  /\ Asking(known, g, schema, row).found = (row \in Affected(g))
             /\ Asking(known, g, schema, row).notModified \cap Affected(g) = {}
  BY <1>1, <1>2
<1>3. QED BY <1>2, Zenon DEF CheckersAgree
=============================================================================
