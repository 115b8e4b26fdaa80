------------------------- MODULE ViewControllerProofs -------------------------
(***************************************************************************)
(* Proofs about two parts of the ViewController that have nothing to do    *)
(* with each other: the theme (Settings), for every set of colours and of  *)
(* images, every default and every way of rounding that rounds once; and   *)
(* the table of candidates (SearchTable), for any pins and texts: that the *)
(* rows of an answered table show the candidates and lead to them.  Each   *)
(* has a specification of its own.                                         *)
(***************************************************************************)
EXTENDS Settings, SearchTable, SequenceTheorems, TLAPS

-----------------------------------------------------------------------------
(* The theme                                                               *)

\* What a pass of the loop, a whole save and a launch make of the kept.

LEMMA RowsAfterAdding ==
    ASSUME NEW t \in [Slot -> Color], NEW n \in 0 .. 2
    PROVE  Append([i \in 1 .. n |-> Rounded[t[i]]], Rounded[t[n + 1]])
             = [i \in 1 .. n + 1 |-> Rounded[t[i]]]
<1> DEFINE kept == [i \in 1 .. n |-> Rounded[t[i]]]
           longer == [i \in 1 .. n + 1 |-> Rounded[t[i]]]
<1>1. \A i \in 1 .. n + 1 : Rounded[t[i]] \in Color
  BY RoundedOnce DEF Slot
<1>2. kept \in Seq(Color) /\ Len(kept) = n
  BY <1>1
<1>3. longer \in Seq(Color) /\ Len(longer) = n + 1
  BY <1>1
<1>4. Rounded[t[n + 1]] \in Color
  BY <1>1
<1> HIDE DEF kept
<1>5. /\ Append(kept, Rounded[t[n + 1]]) \in Seq(Color)
      /\ Len(Append(kept, Rounded[t[n + 1]])) = n + 1
      /\ \A i \in 1 .. n : Append(kept, Rounded[t[n + 1]])[i] = kept[i]
      /\ Append(kept, Rounded[t[n + 1]])[n + 1] = Rounded[t[n + 1]]
  BY <1>2, <1>4, AppendProperties
<1>6. \A i \in 1 .. n + 1 : Append(kept, Rounded[t[n + 1]])[i] = longer[i]
  BY <1>5 DEF kept
<1> HIDE DEF longer
<1>7. Append(kept, Rounded[t[n + 1]]) = longer
  BY <1>3, <1>5, <1>6, SeqEqual
<1>8. QED BY <1>7 DEF kept, longer

LEMMA StoredIsRounded ==
    ASSUME NEW t \in [Slot -> Color]
    PROVE  /\ Stored(t) \in Seq(Color)
           /\ Len(Stored(t)) = 3
           /\ DOMAIN Stored(t) = Slot
           /\ \A i \in Slot : Rounded[Stored(t)[i]] = Stored(t)[i]
BY RoundedOnce DEF Stored, Slot

\* A launch that finds three kept shows what they hold.
LEMMA ThreeRowsAreTheTheme ==
    ASSUME themeRows \in Seq(Color), Len(themeRows) <= 3, RowsAreRounded, themeRows # <<>>,
           StoredTheme[3] # Unset
    PROVE  /\ StoredTheme \in [Slot -> Color]
           /\ themeRows = Stored(StoredTheme)
<1>1. Len(themeRows) \in Nat /\ themeRows \in [1 .. Len(themeRows) -> Color]
  BY LenProperties
<1>2. StoredTheme = [i \in Slot |-> IF i <= Len(themeRows) THEN themeRows[i] ELSE Unset]
  BY DEF StoredTheme
<1>3. 3 \in Slot
  BY DEF Slot
<1>4. Len(themeRows) = 3
  BY <1>1, <1>2, <1>3
<1>5. themeRows \in [Slot -> Color]
  BY <1>1, <1>4 DEF Slot
<1>6. StoredTheme = themeRows
  BY <1>2, <1>4, <1>5 DEF Slot
<1>7. \A i \in Slot : Rounded[themeRows[i]] = themeRows[i]
  BY <1>5 DEF RowsAreRounded
<1>8. QED BY <1>5, <1>6, <1>7 DEF Stored

LEMMA StoredThemeType ==
    ASSUME TypeOK
    PROVE  /\ StoredTheme \in [Slot -> Color \cup {Unset}]
           /\ StoredPin \in PinName
<1>1. StoredPin \in PinName
  BY ThemeConstants, HeadTailProperties DEF TypeOK, StoredPin
<1>2. themeRows \in [1 .. Len(themeRows) -> Color] /\ Len(themeRows) \in Nat
  BY LenProperties DEF TypeOK
<1>3. \A i \in Slot : i <= Len(themeRows) => themeRows[i] \in Color
  BY <1>2 DEF Slot
<1>4. StoredTheme \in [Slot -> Color \cup {Unset}]
  BY <1>3, ThemeConstants DEF StoredTheme
<1>5. QED BY <1>1, <1>4

-----------------------------------------------------------------------------
(* The invariant                                                           *)

LEMMA InitInv == Init => Inv
<1> SUFFICES ASSUME Init PROVE Inv
  OBVIOUS
<1>1. TypeOK
  BY ThemeConstants DEF Init, TypeOK, Status, Saving, Slot
<1>2. ThemeIsStored /\ ColorsAreSet /\ SaveProgress
  BY ThemeConstants DEF Init, ThemeIsStored, StoredPin, ColorsAreSet, SaveProgress, Saving
<1>3. AtMostThreeColors /\ RowsAreRounded
  BY DEF Init, AtMostThreeColors, RowsAreRounded
<1>4. QED BY <1>1, <1>2, <1>3 DEF Inv

LEMMA TypeStep == TypeOK /\ ColorsAreSet /\ SaveProgress /\ [Next]_vars => TypeOK'
<1> SUFFICES ASSUME TypeOK, ColorsAreSet, SaveProgress, [Next]_vars PROVE TypeOK'
  OBVIOUS
<1> USE ThemeConstants DEF database, statics, view, Status, Saving
<1>1. CASE PanelStep
  BY <1>1 DEF TypeOK, PanelStep, ShowSettingView, PinBtnSelected, ColorBtnSelected, ChangeColor,
              HideSettingView, BackToMap, NewSettingView, Slot
<1>2. CASE ChangeSetting
  BY <1>2 DEF TypeOK, ChangeSetting
<1>3. CASE ClearTheme
  BY <1>3 DEF TypeOK, ClearTheme
<1>4. CASE AddColor
  <2>1. saved + 1 \in 1 .. 3 /\ saved + 1 \in Slot /\ theme \in [Slot -> Color]
    BY <1>4 DEF AddColor, SaveProgress, ColorsAreSet, Slot
  <2>2. Rounded[theme[saved + 1]] \in Color
    BY <2>1, RoundedOnce
  <2>3. themeRows' \in Seq(Color)
    BY <1>4, <2>2, AppendProperties DEF AddColor, TypeOK
  <2>4. QED BY <1>4, <2>1, <2>3 DEF TypeOK, AddColor
<1>5. CASE SaveUserPin
  BY <1>5 DEF TypeOK, SaveUserPin
<1>6. CASE Kill
  BY <1>6 DEF TypeOK, Kill
<1>7. CASE Launch
  BY <1>7, StoredThemeType DEF TypeOK, Launch, NewSettingView, Slot
<1>8. CASE UNCHANGED vars
  BY <1>8 DEF TypeOK, vars
<1>9. QED
  BY <1>1, <1>2, <1>3, <1>4, <1>5, <1>6, <1>7, <1>8 DEF Next, SaveStep, ProcessStep

LEMMA InvStep == Inv /\ [Next]_vars => Inv'
<1> SUFFICES ASSUME Inv, [Next]_vars PROVE Inv'
  OBVIOUS
<1>0. TypeOK'
  BY TypeStep DEF Inv
<1>u. TypeOK /\ ThemeIsStored /\ AtMostThreeColors /\ ColorsAreSet /\ SaveProgress /\ RowsAreRounded
  BY DEF Inv
<1> USE DEF database, statics, view, Saving
<1>a. ASSUME UNCHANGED themeRows PROVE AtMostThreeColors' /\ RowsAreRounded'
  BY <1>a, <1>u DEF AtMostThreeColors, RowsAreRounded
<1>1. CASE PanelStep
  <2>1. /\ UNCHANGED <<themeRows, pinRows, theme, pinImage>>
        /\ status \in {"closed", "open"} /\ status' \in {"closed", "open"}
    BY <1>1 DEF PanelStep, ShowSettingView, PinBtnSelected, ColorBtnSelected, ChangeColor,
                HideSettingView, BackToMap
  <2>2. ThemeIsStored' /\ SaveProgress'
    BY <2>1, <1>u DEF ThemeIsStored, StoredPin, SaveProgress
  <2>3. buttons' \in [Slot -> Color]
    BY <1>1, <2>1, <1>u DEF PanelStep, ShowSettingView, PinBtnSelected, ColorBtnSelected,
                ChangeColor, HideSettingView, BackToMap, NewSettingView, ColorsAreSet
  <2>4. ColorsAreSet'
    BY <2>1, <2>3, <1>u DEF ColorsAreSet
  <2>5. QED BY <1>0, <1>a, <2>1, <2>2, <2>4 DEF Inv
<1>2. CASE ChangeSetting
  BY <1>0, <1>a, <1>2, <1>u
     DEF Inv, ChangeSetting, ThemeIsStored, ColorsAreSet, SaveProgress
<1>3. CASE ClearTheme
  <2>1. themeRows' = <<>> /\ saved' = 0 /\ status' = "adding" /\ status = "clearing"
        /\ UNCHANGED <<theme, buttons>>
    BY <1>3 DEF ClearTheme
  <2>2. [i \in 1 .. 0 |-> Rounded[theme[i]]] = <<>>
    OBVIOUS
  <2>3. SaveProgress' /\ ColorsAreSet' /\ ThemeIsStored'
    BY <2>1, <2>2, <1>u DEF SaveProgress, ColorsAreSet, ThemeIsStored
  <2>4. AtMostThreeColors' /\ RowsAreRounded'
    BY <2>1 DEF AtMostThreeColors, RowsAreRounded
  <2>5. QED BY <1>0, <2>3, <2>4 DEF Inv
<1>4. CASE AddColor
  <2>1. /\ saved \in 0 .. 2 /\ theme \in [Slot -> Color] /\ theme = buttons
        /\ themeRows = [i \in 1 .. saved |-> Rounded[theme[i]]]
        /\ themeRows' = Append(themeRows, Rounded[theme[saved + 1]])
        /\ saved' = saved + 1
        /\ status' = IF saved = 2 THEN "naming" ELSE "adding"
        /\ UNCHANGED <<theme, buttons>>
    BY <1>4, <1>u DEF AddColor, SaveProgress, ColorsAreSet
  <2>2. themeRows' = [i \in 1 .. saved + 1 |-> Rounded[theme[i]]]
    BY <2>1, RowsAfterAdding
  <2>3. SaveProgress'
    BY <2>1, <2>2 DEF SaveProgress, Stored, Slot
  <2>4. ColorsAreSet' /\ ThemeIsStored'
    BY <2>1, <1>u, <1>4 DEF ColorsAreSet, ThemeIsStored, AddColor
  <2>5. Len(themeRows') = saved + 1 /\ DOMAIN themeRows' = 1 .. saved + 1
    <3>1. \A i \in 1 .. saved + 1 : Rounded[theme[i]] \in Color
      BY <2>1, RoundedOnce DEF Slot
    <3>2. QED BY <2>1, <2>2, <3>1
  <2>6. AtMostThreeColors'
    BY <2>1, <2>5 DEF AtMostThreeColors
  <2>7. RowsAreRounded'
    BY <2>1, <2>2, <2>5, RoundedOnce DEF RowsAreRounded, Slot
  <2>8. QED BY <1>0, <2>3, <2>4, <2>6, <2>7 DEF Inv
<1>5. CASE SaveUserPin
  <2>1. /\ themeRows = Stored(theme) /\ status' = "closed"
        /\ UNCHANGED <<themeRows, theme, buttons>>
        /\ pinImage' = selectedPin /\ pinRows' = <<selectedPin>>
        /\ theme \in [Slot -> Color] /\ buttons \in [Slot -> Color]
    BY <1>5, <1>u DEF SaveUserPin, SaveProgress, ColorsAreSet
  <2>2. StoredPin' = selectedPin
    <3>1. <<selectedPin>> # <<>> /\ Head(<<selectedPin>>) = selectedPin
      OBVIOUS
    <3>2. QED BY <2>1, <3>1 DEF StoredPin
  <2>3. ThemeIsStored' /\ ColorsAreSet' /\ SaveProgress'
    BY <2>1, <2>2 DEF ThemeIsStored, ColorsAreSet, SaveProgress, Stored
  <2>4. QED BY <1>0, <1>a, <2>1, <2>3 DEF Inv
<1>6. CASE Kill
  BY <1>0, <1>a, <1>6, <1>u DEF Inv, Kill, ThemeIsStored, ColorsAreSet, SaveProgress
<1>7. CASE Launch
  <2>1. UNCHANGED <<themeRows, pinRows>> /\ Len(themeRows) <= 3
    BY <1>7, <1>u DEF Launch, AtMostThreeColors
  <2>2. Len(themeRows) \in Nat
    BY <1>u, LenProperties DEF TypeOK
  <2>3. /\ theme' = StoredTheme /\ buttons' = StoredTheme /\ pinImage' = StoredPin
        /\ status' = IF StoredTheme[3] = Unset THEN "trapped" ELSE "closed"
    BY <1>7, <2>1, <2>2 DEF Launch, NewSettingView
  <2>4. CASE StoredTheme[3] = Unset
    BY <1>0, <1>a, <2>1, <2>3, <2>4 DEF Inv, ThemeIsStored, ColorsAreSet, SaveProgress
  <2>5. CASE StoredTheme[3] # Unset
    <3>1. /\ StoredTheme \in [Slot -> Color]
          /\ \/ themeRows = <<>> /\ StoredTheme = DefaultTheme
             \/ themeRows = Stored(StoredTheme)
      <4>1. CASE themeRows = <<>>
        BY <4>1, ThemeConstants DEF StoredTheme
      <4>2. CASE themeRows # <<>>
        BY <4>2, <2>1, <2>5, <1>u, ThreeRowsAreTheTheme DEF TypeOK
      <4>3. QED BY <4>1, <4>2
    <3>2. ThemeIsStored'
      BY <2>1, <2>3, <3>1 DEF ThemeIsStored, StoredPin, Stored
    <3>3. ColorsAreSet' /\ SaveProgress'
      BY <2>3, <2>5, <3>1 DEF ColorsAreSet, SaveProgress
    <3>4. QED BY <1>0, <1>a, <2>1, <3>2, <3>3 DEF Inv
  <2>6. QED BY <2>4, <2>5
<1>8. CASE UNCHANGED vars
  BY <1>0, <1>a, <1>8, <1>u
     DEF Inv, vars, ThemeIsStored, StoredPin, ColorsAreSet, SaveProgress
<1>9. QED
  BY <1>1, <1>2, <1>3, <1>4, <1>5, <1>6, <1>7, <1>8 DEF Next, SaveStep, ProcessStep

THEOREM ThemeInvariance == Spec => []Inv
BY InitInv, InvStep, PTL DEF Spec

-----------------------------------------------------------------------------
(* The properties                                                          *)

\* Outside of a save the database holds the theme on the screen.
THEOREM ThemeIsAlwaysStored == Spec => []ThemeIsStored
<1>1. Inv => ThemeIsStored
  BY DEF Inv
<1>2. QED BY <1>1, ThemeInvariance, PTL

\* No history of saves, kills and launches leaves a fourth colour.
THEOREM NeverAFourthColor == Spec => []AtMostThreeColors
<1>1. Inv => AtMostThreeColors
  BY DEF Inv
<1>2. QED BY <1>1, ThemeInvariance, PTL

\* A save that ends has stored what the panel shows.
THEOREM SaveIsComplete == Spec => SaveStoresThePanel
<1>1. Inv /\ [Next]_vars =>
        [SaveUserPin => themeRows' = Stored(buttons) /\ StoredPin' = selectedPin]_vars
  <2> SUFFICES ASSUME Inv, SaveUserPin
               PROVE  themeRows' = Stored(buttons) /\ StoredPin' = selectedPin
    OBVIOUS
  <2>1. themeRows' = Stored(buttons)
    BY DEF Inv, SaveProgress, SaveUserPin, Saving
  <2>2. pinRows' = <<selectedPin>> /\ <<selectedPin>> # <<>> /\ Head(<<selectedPin>>) = selectedPin
    BY DEF SaveUserPin
  <2>3. QED BY <2>1, <2>2 DEF StoredPin
<1>2. QED BY <1>1, ThemeInvariance, PTL DEF Spec, SaveStoresThePanel

-----------------------------------------------------------------------------
(* The table of candidates                                                 *)

\* The candidates are the pins and, after them, the results.
LEMMA RowsOfIsConcatenation ==
    ASSUME NEW ps \in Seq(Pin), NEW res \in Seq(Text)
    PROVE  /\ Len(RowsOf(ps, res)) = Len(ps) + Len(res)
           /\ \A r \in 0 .. Len(ps) - 1 : RowsOf(ps, res)[r + 1] = PinRow(ps[r + 1])
           /\ \A r \in Len(ps) .. Len(ps) + Len(res) - 1 :
                  RowsOf(ps, res)[r + 1] = TextRow(res[r - Len(ps) + 1])
<1> DEFINE first == [i \in 1 .. Len(ps) |-> PinRow(ps[i])]
           second == [i \in 1 .. Len(res) |-> TextRow(res[i])]
<1>1. first \in Seq(Candidate) /\ Len(first) = Len(ps)
  BY DEF Candidate
<1>2. second \in Seq(Candidate) /\ Len(second) = Len(res)
  BY DEF Candidate
<1>3. RowsOf(ps, res) = first \o second
  BY DEF RowsOf
<1>4. Len(ps) \in Nat /\ Len(res) \in Nat
  OBVIOUS
<1> HIDE DEF first, second
<1>5. Len(first \o second) = Len(ps) + Len(res)
  BY <1>1, <1>2
<1>6. \A i \in 1 .. Len(ps) : (first \o second)[i] = first[i]
  BY <1>1, <1>2, <1>4
<1>7. \A i \in Len(ps) + 1 .. Len(ps) + Len(res) : (first \o second)[i] = second[i - Len(ps)]
  BY <1>1, <1>2, <1>4
<1>8. ASSUME NEW r \in 0 .. Len(ps) - 1
      PROVE  RowsOf(ps, res)[r + 1] = PinRow(ps[r + 1])
  <2>1. r + 1 \in 1 .. Len(ps)
    BY <1>4
  <2> QED BY <2>1, <1>3, <1>6 DEF first
<1>9. ASSUME NEW r \in Len(ps) .. Len(ps) + Len(res) - 1
      PROVE  RowsOf(ps, res)[r + 1] = TextRow(res[r - Len(ps) + 1])
  <2>1. /\ r + 1 \in Len(ps) + 1 .. Len(ps) + Len(res)
        /\ (r + 1) - Len(ps) = r - Len(ps) + 1
        /\ r - Len(ps) + 1 \in 1 .. Len(res)
    BY <1>4
  <2> QED BY <2>1, <1>3, <1>7 DEF second
<1> QED BY <1>3, <1>5, <1>8, <1>9

\* What a cell is filled with, when its row is in range, is a candidate.
LEMMA CellIsCandidate ==
    ASSUME NEW r \in Nat, NEW res \in Seq(Text), pins \in Seq(Pin), pincount \in Nat,
           InRange(r, res)
    PROVE  Cell(r, res) \in Candidate
<1>1. CASE r < pincount
  <2>1. r + 1 \in 1 .. Len(pins)
    BY <1>1 DEF InRange
  <2>2. pins[r + 1] \in Pin
    BY <2>1
  <2> QED BY <1>1, <2>2 DEF Cell, Candidate
<1>2. CASE ~ (r < pincount)
  <2>1. r - pincount + 1 \in 1 .. Len(res)
    BY <1>2 DEF InRange
  <2>2. res[r - pincount + 1] \in Text
    BY <2>1
  <2> QED BY <1>2, <2>2 DEF Cell, Candidate
<1> QED BY <1>1, <1>2

\* While all pins that were found are there, a cell is filled with the
\* candidate of its row.
LEMMA CellIsRow ==
    ASSUME NEW r \in Nat, NEW res \in Seq(Text), pins \in Seq(Pin), pincount \in Nat,
           Len(pins) = pincount, r < Len(res) + pincount
    PROVE  Cell(r, res) = RowsOf(pins, res)[r + 1]
<1>1. CASE r < pincount
  <2>1. r \in 0 .. Len(pins) - 1
    BY <1>1
  <2> QED BY <1>1, <2>1, RowsOfIsConcatenation DEF Cell
<1>2. CASE ~ (r < pincount)
  <2>1. r \in Len(pins) .. Len(pins) + Len(res) - 1
    BY <1>2
  <2>2. RowsOf(pins, res)[r + 1] = TextRow(res[r - Len(pins) + 1])
    BY <2>1, RowsOfIsConcatenation
  <2> QED BY <1>2, <2>2 DEF Cell
<1> QED BY <1>1, <1>2

\* Sequences of bounded length are sequences.
LEMMA UpToIsSeq ==
    ASSUME NEW n, NEW S, NEW s \in UpTo(n, S), n \in Nat
    PROVE  s \in Seq(S)
<1>1. PICK k \in 0 .. n : s \in [1 .. k -> S]
  BY DEF UpTo
<1> QED BY <1>1

LEMMA SearchInitInv == SearchInit => SearchInv
<1> SUFFICES ASSUME SearchInit PROVE SearchInv
  OBVIOUS
<1>1. NoText \in Text
  BY SearchConstants
<1>2. <<>> \in Seq(Text) /\ <<>> \in Seq(Pin)
  OBVIOUS
<1>3. DOMAIN cells = {}
  BY DEF SearchInit, NoCells
<1>4. SearchTypeOK
  BY <1>1, <1>2, <1>3 DEF SearchInit, SearchTypeOK
<1> QED BY <1>4 DEF SearchInv, SearchInit, FoundOrEmptied, VisibleTableHasItsPins, AnsweredTableShowsCandidates

-----------------------------------------------------------------------------
(* One lemma for each action                                               *)

LEMMA ChangeTextStep ==
    ASSUME SearchInv, NEW t \in Text, NEW s \in FoundPins, ChangeText(t, s)
    PROVE  SearchInv'
<1>1. s \in Seq(Pin)
  BY UpToIsSeq, SearchConstants DEF FoundPins
<1>2. Len(s) \in Nat
  BY <1>1
<1>3. SearchTypeOK'
  BY <1>1, <1>2 DEF SearchInv, SearchTypeOK, ChangeText, table
<1>4. Len(pins') = pincount' /\ query' # "answered"
  BY DEF ChangeText
<1> QED BY <1>3, <1>4 DEF SearchInv, FoundOrEmptied, VisibleTableHasItsPins, AnsweredTableShowsCandidates

LEMMA HidingStep ==
    ASSUME SearchInv, SearchButtonClicked \/ HideTable \/ LoadViewAgain
    PROVE  SearchInv'
<1>1. TextRow(bar) \in Candidate
  BY DEF SearchInv, SearchTypeOK, Candidate
<1>2. visible' = FALSE /\ UNCHANGED <<bar, query, results, pins, pincount, rows, cells, trapped>>
  BY DEF SearchButtonClicked, HideTable, LoadViewAgain, answer, found
<1>3. goal' \in Candidate \cup {NoGoal}
  BY <1>1 DEF SearchButtonClicked, HideTable, LoadViewAgain, SearchInv, SearchTypeOK
<1>4. SearchTypeOK'
  BY <1>2, <1>3 DEF SearchInv, SearchTypeOK
<1> QED BY <1>2, <1>4 DEF SearchInv, FoundOrEmptied, VisibleTableHasItsPins, AnsweredTableShowsCandidates

LEMMA UpdateStep ==
    ASSUME SearchInv, NEW res \in UpTo(MaxResults, Text \ {NoText}), CompleterDidUpdateResults(res)
    PROVE  SearchInv'
<1>0. res \in Seq(Text)
  <2>1. res \in Seq(Text \ {NoText})
    BY UpToIsSeq, SearchConstants
  <2> QED BY <2>1
<1>1. /\ pins \in Seq(Pin) /\ pincount \in Nat /\ Len(res) \in Nat /\ Len(pins) \in Nat
      /\ UNCHANGED <<bar, pins, pincount, goal>>
      /\ query' = "answered" /\ results' = res /\ rows' = Len(res) + pincount
      /\ visible' = (rows' > 0)
  BY <1>0 DEF SearchInv, SearchTypeOK, CompleterDidUpdateResults, found
<1>2. rows' \in Nat
  BY <1>1
<1>3. InView(0, rows') \subseteq 0 .. rows' - 1
  BY DEF InView
<1>4. CASE \A r \in InView(0, rows') : InRange(r, res)
  <2>1. cells' = [r \in InView(0, rows') |-> Cell(r, res)] /\ trapped' = trapped
    BY <1>4 DEF CompleterDidUpdateResults
  <2>2. \A r \in InView(0, rows') : Cell(r, res) \in Candidate
    BY <1>0, <1>1, <1>2, <1>3, <1>4, CellIsCandidate
  <2>3. SearchTypeOK'
    BY <1>0, <1>1, <1>2, <1>3, <2>1, <2>2 DEF SearchInv, SearchTypeOK
  <2>4. FoundOrEmptied'
    BY <1>1 DEF SearchInv, FoundOrEmptied
  <2>5. visible' => Len(pins) = pincount
    <3>1. SUFFICES ASSUME visible', Len(pins) # pincount PROVE FALSE
      OBVIOUS
    <3>2. rows' > 0
      BY <1>1, <3>1
    <3>3. pins = <<>>
      BY <3>1 DEF SearchInv, FoundOrEmptied
    <3>4. Len(pins) = 0 /\ pincount > 0
      BY <1>1, <3>1, <3>3
    <3>5. 0 \in InView(0, rows')
      <4>1. Window \in Nat /\ Window > 0
        BY SearchConstants
      <4>2. 0 \in 0 .. rows' - 1
        <5>1. \A n \in Nat : n > 0 => 0 \in 0 .. n - 1
          OBVIOUS
        <5> QED BY <1>2, <3>2, <5>1
      <4>3. 0 <= 0 /\ 0 < 0 + Window
        BY <4>1
      <4> QED BY <4>2, <4>3 DEF InView
    <3>6. InRange(0, res)
      BY <1>4, <3>5
    <3> QED BY <3>4, <3>6 DEF InRange
  <2>6. VisibleTableHasItsPins'
    BY <1>1, <2>5 DEF VisibleTableHasItsPins
  <2>7. ASSUME visible'
        PROVE  rows' = Len(Candidates') /\ \A r \in DOMAIN cells' : cells'[r] = Candidates'[r + 1]
    <3>1. Len(pins) = pincount
      BY <2>5, <2>7
    <3>2. Candidates' = RowsOf(pins, res)
      BY <1>1 DEF Candidates, RowsOf
    <3>3. Len(RowsOf(pins, res)) = Len(pins) + Len(res)
      BY <1>0, <1>1, RowsOfIsConcatenation
    <3>4. \A r \in InView(0, rows') : r \in Nat /\ r < Len(res) + pincount
      BY <1>1, <1>2, <1>3
    <3>5. \A r \in InView(0, rows') : Cell(r, res) = RowsOf(pins, res)[r + 1]
      BY <1>0, <1>1, <3>1, <3>4, CellIsRow
    <3> QED BY <1>1, <2>1, <3>1, <3>2, <3>3, <3>5
  <2>8. AnsweredTableShowsCandidates'
    BY <2>7 DEF AnsweredTableShowsCandidates
  <2> QED BY <2>3, <2>4, <2>6, <2>8 DEF SearchInv
<1>5. CASE ~ \A r \in InView(0, rows') : InRange(r, res)
  <2>1. cells' = NoCells /\ trapped' = TRUE
    BY <1>5 DEF CompleterDidUpdateResults
  <2>2. DOMAIN cells' = {}
    BY <2>1 DEF NoCells
  <2>3. SearchTypeOK'
    BY <1>0, <1>1, <1>2, <2>1, <2>2 DEF SearchInv, SearchTypeOK
  <2> QED BY <1>1, <2>1, <2>3 DEF SearchInv, FoundOrEmptied, VisibleTableHasItsPins,
                                  AnsweredTableShowsCandidates
<1> QED BY <1>4, <1>5

LEMMA FailStep ==
    ASSUME SearchInv, CompleterDidFail
    PROVE  SearchInv'
<1>1. UNCHANGED <<bar, results, pins, pincount, rows, cells, visible, goal, trapped>> /\ query' = "failed"
  BY DEF CompleterDidFail, found, table
<1>2. SearchTypeOK'
  BY <1>1 DEF SearchInv, SearchTypeOK
<1> QED BY <1>1, <1>2 DEF SearchInv, FoundOrEmptied, VisibleTableHasItsPins, AnsweredTableShowsCandidates

LEMMA ScrollStep ==
    ASSUME SearchInv, ~ trapped, NEW f \in 0 .. rows - 1, Scroll(f)
    PROVE  SearchInv'
<1> DEFINE new == InView(f, rows) \ DOMAIN cells
<1>1. /\ pins \in Seq(Pin) /\ results \in Seq(Text) /\ pincount \in Nat /\ rows \in Nat
      /\ \A r \in DOMAIN cells : cells[r] \in Candidate
      /\ UNCHANGED <<bar, query, results, pins, pincount, rows, visible, goal>>
      /\ visible /\ Len(pins) = pincount
  BY DEF SearchInv, SearchTypeOK, VisibleTableHasItsPins, Scroll, answer, found
<1>2. InView(f, rows) \subseteq 0 .. rows - 1
  BY DEF InView
<1>3. Candidates' = Candidates
  BY <1>1 DEF Candidates, RowsOf
<1>4. CASE \A r \in new : InRange(r, results)
  <2>1. /\ cells' = [r \in InView(f, rows) |-> IF r \in new THEN Cell(r, results) ELSE cells[r]]
        /\ trapped' = trapped
    BY <1>4 DEF Scroll
  <2>2. \A r \in new : Cell(r, results) \in Candidate
    BY <1>1, <1>2, <1>4, CellIsCandidate
  <2>3. \A r \in InView(f, rows) : cells'[r] \in Candidate
    BY <1>1, <2>1, <2>2
  <2>4. SearchTypeOK'
    BY <1>1, <1>2, <2>1, <2>3 DEF SearchInv, SearchTypeOK
  <2>5. ASSUME query = "answered"
        PROVE  \A r \in DOMAIN cells' : cells'[r] = Candidates'[r + 1]
    <3>1. rows = Len(Candidates) /\ \A r \in DOMAIN cells : cells[r] = Candidates[r + 1]
      BY <1>1, <2>5 DEF SearchInv, AnsweredTableShowsCandidates
    <3>2. Len(Candidates) = Len(pins) + Len(results)
      BY <1>1, RowsOfIsConcatenation DEF Candidates
    <3>3. \A r \in new : r \in Nat /\ r < Len(results) + pincount
      BY <1>1, <1>2, <3>1, <3>2
    <3>4. \A r \in new : Cell(r, results) = Candidates[r + 1]
      BY <1>1, <3>3, CellIsRow DEF Candidates
    <3> QED BY <1>3, <2>1, <3>1, <3>4
  <2>6. AnsweredTableShowsCandidates'
    BY <1>1, <1>3, <2>5 DEF SearchInv, AnsweredTableShowsCandidates
  <2> QED BY <1>1, <2>4, <2>6 DEF SearchInv, FoundOrEmptied, VisibleTableHasItsPins
<1>5. CASE ~ \A r \in new : InRange(r, results)
  <2>1. trapped' = TRUE /\ cells' = cells
    BY <1>5 DEF Scroll
  <2>2. SearchTypeOK'
    BY <1>1, <2>1 DEF SearchInv, SearchTypeOK
  <2> QED BY <1>1, <2>1, <2>2 DEF SearchInv, FoundOrEmptied, VisibleTableHasItsPins,
                                  AnsweredTableShowsCandidates
<1> QED BY <1>4, <1>5

LEMMA SelectStep ==
    ASSUME SearchInv, NEW r \in DOMAIN cells, SelectRow(r)
    PROVE  SearchInv'
<1>1. /\ r \in Nat /\ pins \in Seq(Pin) /\ results \in Seq(Text) /\ pincount \in Nat
      /\ UNCHANGED <<query, results, rows, cells, pincount>> /\ visible' = FALSE
  BY DEF SearchInv, SearchTypeOK, SelectRow, answer, found
<1>2. CASE r >= Len(results) \/ (r < pincount /\ r >= Len(pins))
  <2>1. trapped' = TRUE /\ UNCHANGED <<bar, pins, goal>>
    BY <1>2 DEF SelectRow, found
  <2>2. SearchTypeOK'
    BY <1>1, <2>1 DEF SearchInv, SearchTypeOK
  <2> QED BY <1>1, <2>1, <2>2 DEF SearchInv, FoundOrEmptied, VisibleTableHasItsPins,
                                  AnsweredTableShowsCandidates
<1>3. CASE ~ (r >= Len(results) \/ (r < pincount /\ r >= Len(pins)))
  <2>1. /\ bar' = results[r + 1] /\ pins' = <<>> /\ trapped' = trapped
        /\ goal' = IF r < pincount THEN PinRow(pins[r + 1]) ELSE TextRow(results[r + 1])
    BY <1>3 DEF SelectRow
  <2>2. r + 1 \in 1 .. Len(results) /\ (r < pincount => r + 1 \in 1 .. Len(pins))
    BY <1>1, <1>3
  <2>3. results[r + 1] \in Text /\ (r < pincount => pins[r + 1] \in Pin)
    BY <1>1, <2>2
  <2>4. bar' \in Text /\ pins' \in Seq(Pin) /\ trapped' \in BOOLEAN /\ goal' \in Candidate
    <3>1. PinRow(pins[r + 1]) \in Candidate \/ ~ (r < pincount)
      BY <2>3 DEF Candidate
    <3>2. TextRow(results[r + 1]) \in Candidate
      BY <2>3 DEF Candidate
    <3>3. goal' \in Candidate
      BY <2>1, <3>1, <3>2
    <3>4. <<>> \in Seq(Pin)
      OBVIOUS
    <3> QED BY <2>1, <2>3, <3>3, <3>4 DEF SearchInv, SearchTypeOK
  <2>5. SearchTypeOK'
    BY <1>1, <2>4 DEF SearchInv, SearchTypeOK
  <2> QED BY <1>1, <2>1, <2>5 DEF SearchInv, FoundOrEmptied, VisibleTableHasItsPins,
                                  AnsweredTableShowsCandidates
<1> QED BY <1>2, <1>3

LEMMA FreshStep ==
    ASSUME NewViewController
    PROVE  SearchInv'
<1>1. NoText \in Text /\ <<>> \in Seq(Text) /\ <<>> \in Seq(Pin)
  BY SearchConstants
<1>2. DOMAIN cells' = {}
  BY DEF NewViewController, NoCells
<1>3. SearchTypeOK'
  BY <1>1, <1>2 DEF NewViewController, SearchTypeOK
<1> QED BY <1>3 DEF SearchInv, NewViewController, FoundOrEmptied, VisibleTableHasItsPins,
                    AnsweredTableShowsCandidates

LEMMA SearchInvStep == SearchInv /\ [SearchNext]_searchVars => SearchInv'
<1> SUFFICES ASSUME SearchInv, [SearchNext]_searchVars PROVE SearchInv'
  OBVIOUS
<1>1. CASE BarStep
  BY <1>1, ChangeTextStep, HidingStep DEF BarStep
<1>2. CASE CompleterStep
  BY <1>2, UpdateStep, FailStep DEF CompleterStep
<1>3. CASE RowStep
  BY <1>3, ScrollStep, SelectStep DEF RowStep
<1>4. CASE NewViewController
  BY <1>4, FreshStep
<1>5. CASE UNCHANGED searchVars
  <2>1. UNCHANGED <<bar, query, results, pins, pincount, rows, cells, visible, goal, trapped>>
    BY <1>5 DEF searchVars
  <2>2. SearchTypeOK'
    BY <2>1 DEF SearchInv, SearchTypeOK
  <2>3. Candidates' = Candidates
    BY <2>1 DEF Candidates, RowsOf
  <2> QED BY <2>1, <2>2, <2>3 DEF SearchInv, FoundOrEmptied, VisibleTableHasItsPins,
                                  AnsweredTableShowsCandidates
<1> QED BY <1>1, <1>2, <1>3, <1>4, <1>5 DEF SearchNext

-----------------------------------------------------------------------------
(* The theorems                                                            *)

\* The inductive invariant of the search bar and its table.
THEOREM SearchInvariance == SearchSpec => []SearchInv
<1> QED BY SearchInitInv, SearchInvStep, PTL DEF SearchSpec

\* Whatever the order of changes, answers, failures and selections, a table
\* on the screen has the pins it counted: Pins[indexPath.row] in
\* didSelectRowAt is in range.
THEOREM PinsAreThere == SearchSpec => []VisibleTableHasItsPins
<1>1. SearchInv => VisibleTableHasItsPins
  BY DEF SearchInv
<1> QED BY <1>1, SearchInvariance, PTL

\* An answered table shows its candidates, row by row.
THEOREM AnsweredTable == SearchSpec => []AnsweredTableShowsCandidates
<1>1. SearchInv => AnsweredTableShowsCandidates
  BY DEF SearchInv
<1> QED BY <1>1, SearchInvariance, PTL

\* A pin's row of an answered table leads to that pin, and without pins a
\* text's row leads to that text.
THEOREM AnsweredSelection == SearchSpec => AnsweredRowsLead
<1> DEFINE Leads ==
      \A r \in DOMAIN cells :
          SelectRow(r) /\ ~ trapped' /\ query = "answered" /\ (cells[r].kind = "pin" \/ pincount = 0)
              => goal' = cells[r]
<1>1. ASSUME SearchInv PROVE Leads
  <2>1. SUFFICES ASSUME NEW r \in DOMAIN cells, SelectRow(r), ~ trapped', query = "answered",
                        cells[r].kind = "pin" \/ pincount = 0
                 PROVE  goal' = cells[r]
    OBVIOUS
  <2>2. /\ r \in Nat /\ r < rows /\ rows \in Nat /\ pins \in Seq(Pin) /\ results \in Seq(Text)
        /\ pincount \in Nat /\ visible
    BY <1>1, <2>1 DEF SearchInv, SearchTypeOK, SelectRow
  <2>3. ~ (r >= Len(results) \/ (r < pincount /\ r >= Len(pins)))
    BY <2>1 DEF SelectRow
  <2>4. /\ trapped' = trapped
        /\ goal' = IF r < pincount THEN PinRow(pins[r + 1]) ELSE TextRow(results[r + 1])
    BY <2>1, <2>3 DEF SelectRow
  <2>5. /\ Len(pins) = pincount
        /\ rows = Len(Candidates) /\ cells[r] = Candidates[r + 1]
    BY <1>1, <2>1, <2>2, <2>4 DEF SearchInv, VisibleTableHasItsPins, AnsweredTableShowsCandidates
  <2>6. CASE r < pincount
    <3>1. r \in 0 .. Len(pins) - 1
      BY <2>2, <2>5, <2>6
    <3>2. Candidates[r + 1] = PinRow(pins[r + 1])
      BY <2>2, <3>1, RowsOfIsConcatenation DEF Candidates
    <3> QED BY <2>4, <2>5, <2>6, <3>2
  <2>7. CASE ~ (r < pincount)
    <3>1. Len(Candidates) = Len(pins) + Len(results)
      BY <2>2, RowsOfIsConcatenation DEF Candidates
    <3>2. r \in Len(pins) .. Len(pins) + Len(results) - 1
      BY <2>2, <2>5, <2>7, <3>1
    <3>3. Candidates[r + 1] = TextRow(results[r - Len(pins) + 1])
      BY <2>2, <3>2, RowsOfIsConcatenation DEF Candidates
    <3>4. cells[r].kind = "text"
      BY <2>5, <3>3 DEF TextRow
    <3>5. pincount = 0
      BY <2>1, <3>4
    <3> QED BY <2>2, <2>4, <2>5, <2>7, <3>3, <3>5
  <2> QED BY <2>6, <2>7
<1>2. SearchInv => [Leads]_searchVars
  BY <1>1
<1>3. [][Leads]_searchVars <=> AnsweredRowsLead
  BY PTL DEF AnsweredRowsLead
<1> QED BY <1>2, <1>3, SearchInvariance, PTL

=============================================================================
