-------------------------- MODULE MapScreenProofs --------------------------
(***************************************************************************)
(* Proofs about MapScreen and TapHistory, for every set of places, titles  *)
(* and images and every bound on the searches.                             *)
(***************************************************************************)
EXTENDS TapHistory, SequenceTheorems, TLAPS

-----------------------------------------------------------------------------
(* Lemmas about the panels                                                 *)

\* Every operation on the panels yields a state of the panels.
LEMMA PanelTypes ==
    /\ NoPanels \in PanelState
    /\ \A p \in PanelState :
           /\ HideDeleting(p) \in PanelState
           /\ HideDetail(p) \in PanelState
           /\ HideBoth(p) \in PanelState
           /\ ShowDeleting(p) \in PanelState
           /\ ShowDetail(p) \in PanelState
<1>1. NoPanels \in PanelState
  BY DEF PanelState, NoPanels
<1>2. ASSUME NEW p \in PanelState
      PROVE  /\ HideDeleting(p) \in PanelState
             /\ HideDetail(p) \in PanelState
             /\ HideBoth(p) \in PanelState
  BY DEF PanelState, HideDeleting, HideDetail, HideBoth
<1>3. ASSUME NEW p \in PanelState
      PROVE  ShowDeleting(p) \in PanelState
  <2>1. (p.orphan \/ p.closer # "none") \in BOOLEAN
    OBVIOUS
  <2>2. QED BY <2>1 DEF PanelState, ShowDeleting
<1>4. ASSUME NEW p \in PanelState
      PROVE  ShowDetail(p) \in PanelState
  <2>1. /\ (p.stale \/ p.detail) \in BOOLEAN
        /\ (p.orphan \/ (~ p.deleting /\ p.closer # "none")) \in BOOLEAN
    OBVIOUS
  <2>2. QED BY <2>1 DEF PanelState, ShowDetail
<1>5. QED BY <1>1, <1>2, <1>3, <1>4

\* What every operation keeps: never two panels, and the cross of the detail
\* panel at hand.
PanelsInOrder(p) ==
    /\ ~ (p.deleting /\ p.detail)
    /\ p.detail => p.closer = "detail"

LEMMA PanelsStayInOrder ==
    /\ PanelsInOrder(NoPanels)
    /\ \A p \in PanelState :
           /\ ~ p.detail => PanelsInOrder(HideDeleting(p))
           /\ PanelsInOrder(HideDetail(p))
           /\ PanelsInOrder(HideBoth(p))
           /\ PanelsInOrder(ShowDeleting(p))
           /\ PanelsInOrder(ShowDetail(p))
BY DEF PanelState, PanelsInOrder, NoPanels, HideDeleting, HideDetail, HideBoth,
       ShowDeleting, ShowDetail

\* Only detailOpen makes a detail panel's buttons appear.
LEMMA HidingShowsNoButtons ==
    /\ ~ HasDetailButtons(NoPanels)
    /\ \A p \in PanelState :
           /\ HasDetailButtons(HideDeleting(p)) => HasDetailButtons(p)
           /\ HasDetailButtons(HideDetail(p)) => HasDetailButtons(p)
           /\ HasDetailButtons(HideBoth(p)) => HasDetailButtons(p)
           /\ HasDetailButtons(ShowDeleting(p)) => HasDetailButtons(p)
BY DEF PanelState, HasDetailButtons, NoPanels, HideDeleting, HideDetail, HideBoth, ShowDeleting

-----------------------------------------------------------------------------
(* Type correctness                                                        *)

\* What the case distinctions of the sets of values come down to.
LEMMA ConstantTypes ==
    /\ Origin \in Coordinate
    /\ Place \subseteq Coordinate
    /\ NoTitle \in Text
    /\ NoImage \in Picture
    /\ DefaultImage \in Picture
    /\ Image \subseteq Picture
    /\ Nothing \in Selectable
    /\ Marker \in Selectable
    /\ UserDot \in Selectable
    /\ \A c \in Coordinate : PinAt(c) \in Selectable
    /\ NoRows \in [Coordinate -> Seq(Pin)]
BY ConstantsAreDistinct
   DEF Coordinate, Text, Picture, Nothing, Marker, UserDot, PinAt, Selectable, NoRows

LEMMA InitType == Init => TypeOK
<1>1. NoPanels \in PanelState
  BY DEF NoPanels, PanelState
<1>2. 0 \in 0 .. MaxSearches
  BY MaxSearchesIsNat
<1>3. QED BY ConstantTypes, <1>1, <1>2 DEF Init, TypeOK, Screen

\* A first row is a pin.
LEMMA HeadIsPin ==
    ASSUME NEW rows \in Seq(Pin), rows # <<>>
    PROVE  Head(rows).title \in Text /\ Head(rows).image \in Picture
<1>1. Head(rows) \in Pin
  BY HeadTailProperties
<1>2. QED BY <1>1 DEF Pin

\* So is any other row.
LEMMA RowIsPin ==
    ASSUME NEW rows \in Seq(Pin), NEW i \in DOMAIN rows
    PROVE  rows[i].title \in Text /\ rows[i].image \in Picture
<1>1. i \in 1 .. Len(rows)
  BY LenProperties
<1>2. rows[i] \in Pin
  BY <1>1, ElementOfSeq
<1>3. QED BY <1>2 DEF Pin

\* The rows of a coordinate after Create.
LEMMA CreateType ==
    ASSUME NEW rows \in Seq(Pin), NEW p \in Pin
    PROVE  /\ Append(IF rows = <<>> THEN <<>> ELSE Tail(rows), p) \in Seq(Pin)
           /\ <<p>> \in Seq(Pin)
OBVIOUS

LEMMA TypeStep == TypeOK /\ [Next]_vars => TypeOK'
<1> SUFFICES ASSUME TypeOK, [Next]_vars PROVE TypeOK'
  OBVIOUS
<1> USE ConstantTypes
<1> USE DEF store, pin, form
<1>1. CASE MapStep
  <2>1. ASSUME NEW c \in Place, MapLongPressed(c) PROVE TypeOK'
    BY <2>1 DEF TypeOK, MapLongPressed
  <2>2. ASSUME NEW c \in Coordinate, DidSelectPin(c) PROVE TypeOK'
    BY <2>2, PanelTypes, HeadIsPin DEF TypeOK, DidSelectPin, DidSelect, Screen
  <2>3. CASE DidSelectMarker \/ \E c \in Place : DidSelectUser(c)
    BY <2>3, PanelTypes DEF TypeOK, DidSelectMarker, DidSelectUser, DidSelect
  <2>4. CASE Deselect
    BY <2>4 DEF TypeOK, Deselect
  <2>5. ASSUME NEW c \in Coordinate, ViewForPin(c) PROVE TypeOK'
    <3>1. pintitle' \in Text
      BY <2>5, RowIsPin DEF TypeOK, ViewForPin
    <3>2. QED BY <2>5, <3>1 DEF TypeOK, ViewForPin
  <2>6. CASE ViewForMarker
    BY <2>6 DEF TypeOK, ViewForMarker
  <2>7. QED BY <1>1, <2>1, <2>2, <2>3, <2>4, <2>5, <2>6 DEF MapStep
<1>2. CASE SearchStep
  <2>1. CASE SearchMap
    BY <2>1, MaxSearchesIsNat DEF TypeOK, SearchMap
  <2>2. ASSUME NEW c \in Place, SearchDone(c) PROVE TypeOK'
    BY <2>2, MaxSearchesIsNat DEF TypeOK, SearchDone
  <2>3. CASE SearchFailed
    BY <2>3, MaxSearchesIsNat DEF TypeOK, SearchFailed
  <2>4. CASE ReloadTable
    BY <2>4, PanelTypes DEF TypeOK, ReloadTable
  <2>5. QED BY <1>2, <2>1, <2>2, <2>3, <2>4 DEF SearchStep
<1>3. CASE EditStep
  <2>1. ASSUME NEW t \in Text, NEW e \in BOOLEAN, ShowEditView(t, e) PROVE TypeOK'
    BY <2>1, PanelTypes DEF TypeOK, ShowEditView, Screen, EditScreen
  <2>2. CASE PlusTapped
    BY <2>1, <2>2 DEF TypeOK, PlusTapped
  <2>3. CASE ModifyPlace
    BY <2>1, <2>3 DEF TypeOK, ModifyPlace
  <2>4. ASSUME NEW t \in Text, EditTitle(t) PROVE TypeOK'
    BY <2>4 DEF TypeOK, EditTitle
  <2>5. CASE SelectPin
    BY <2>5 DEF TypeOK, SelectPin, Screen, EditScreen
  <2>6. ASSUME NEW i \in Image, ChoosePinImage(i) PROVE TypeOK'
    BY <2>6 DEF TypeOK, ChoosePinImage
  <2>7. CASE CloseChooser
    BY <2>7 DEF TypeOK, CloseChooser, Screen, EditScreen
  <2>8. CASE Create
    <3> DEFINE new == [title |-> text, image |-> pinColor]
               rest == IF realm[pincoordinate] = <<>> THEN <<>> ELSE Tail(realm[pincoordinate])
    <3>1. new \in Pin
      BY DEF TypeOK, Pin
    <3>2. Append(rest, new) \in Seq(Pin) /\ <<new>> \in Seq(Pin)
      BY <3>1, CreateType DEF TypeOK
    <3>3. /\ realm' = [realm EXCEPT ![pincoordinate] = Append(rest, new)]
          /\ onMap' = [onMap EXCEPT ![pincoordinate] = <<new>>]
      BY <2>8 DEF Create
    <3>4. realm' \in [Coordinate -> Seq(Pin)] /\ onMap' \in [Coordinate -> Seq(Pin)]
      BY <3>2, <3>3 DEF TypeOK
    <3>5. QED
      BY <2>8, <3>4 DEF TypeOK, Create, InitEditView, SelectedAfterRemoving, Screen
  <2>9. CASE HideEditView
    BY <2>9 DEF TypeOK, HideEditView, InitEditView, Screen, EditScreen
  <2>10. CASE ConfirmDiscard
    BY <2>10 DEF TypeOK, ConfirmDiscard, InitEditView, Screen
  <2>11. CASE CancelDiscard
    BY <2>11 DEF TypeOK, CancelDiscard, Screen, EditScreen
  <2>12. QED
    BY <1>3, <2>2, <2>3, <2>4, <2>5, <2>6, <2>7, <2>8, <2>9, <2>10, <2>11 DEF EditStep
<1>4. CASE PanelStep
  <2>1. CASE DetailOpen
    BY <2>1, PanelTypes DEF TypeOK, DetailOpen
  <2>2. CASE DeletePins
    BY <2>2, PanelTypes DEF TypeOK, DeletePins
  <2>3. CASE HideDeletingPanel
    BY <2>3, PanelTypes DEF TypeOK, HideDeletingPanel
  <2>4. CASE HideDetailPanel
    BY <2>4, PanelTypes DEF TypeOK, HideDetailPanel
  <2>5. CASE DeletePin
    BY <2>5 DEF TypeOK, DeletePin, Screen
  <2>6. CASE ConfirmDelete
    BY <2>6, PanelTypes DEF TypeOK, ConfirmDelete, SelectedAfterRemoving, Screen
  <2>7. CASE DeleteAllPins
    BY <2>7 DEF TypeOK, DeleteAllPins, Screen
  <2>8. CASE ConfirmDeleteAll
    BY <2>8, PanelTypes DEF TypeOK, ConfirmDeleteAll, Screen
  <2>9. CASE CancelAlert
    BY <2>9 DEF TypeOK, CancelAlert, Screen
  <2>10. QED
    BY <1>4, <2>1, <2>2, <2>3, <2>4, <2>5, <2>6, <2>7, <2>8, <2>9 DEF PanelStep
<1>5. CASE LeaveStep
  <2>1. CASE ShowSettingView
    BY <2>1 DEF TypeOK, ShowSettingView, Screen
  <2>2. CASE HideSettingView
    BY <2>2 DEF TypeOK, HideSettingView, Screen
  <2>3. CASE ChangeSetting
    BY <2>3, PanelTypes DEF TypeOK, ChangeSetting, ViewDidLoad, Screen
  <2>4. CASE Tutorial
    BY <2>4 DEF TypeOK, Tutorial, Screen
  <2>5. ASSUME NewViewController, pinColor' \in Picture PROVE TypeOK'
    <3>1. searches' \in 0 .. MaxSearches
      BY <2>5, MaxSearchesIsNat DEF NewViewController
    <3>2. QED
      BY <2>5, <3>1, PanelTypes DEF TypeOK, NewViewController, ViewDidLoad, Screen
  <2>6. CASE BackToMap
    BY <2>5, <2>6 DEF TypeOK, BackToMap
  <2>7. CASE Relaunch
    BY <2>5, <2>7 DEF Relaunch
  <2>8. QED BY <1>5, <2>1, <2>2, <2>3, <2>4, <2>6, <2>7 DEF LeaveStep
<1>6. CASE UNCHANGED vars
  BY <1>6 DEF TypeOK, vars
<1>7. QED BY <1>1, <1>2, <1>3, <1>4, <1>5, <1>6 DEF Next

\* Every variable keeps its type.
THEOREM TypeCorrect == Spec => []TypeOK
BY InitType, TypeStep, PTL DEF Spec

-----------------------------------------------------------------------------
(* The inductive invariant                                                 *)

LEMMA InitInv == Init => Inv
<1> SUFFICES ASSUME Init PROVE Inv
  OBVIOUS
<1>1. TypeOK
  BY InitType
<1>2. Origin \in Coordinate /\ (\A c \in Coordinate : realm[c] = <<>>) /\ onMap = realm
  BY ConstantTypes DEF Init, NoRows
<1>3. MapShowsRealm /\ RowsSettled /\ NothingSavedAtOrigin
  BY <1>2 DEF MapShowsRealm, RowsSettled, NothingSavedAtOrigin
<1>4. NoTrap /\ EditFormIsReset /\ EnabledMeansTitled /\ PinColorIsImage
  BY ConstantsAreDistinct
     DEF Init, NoTrap, EditFormIsReset, EnabledMeansTitled, PinColorIsImage, EditScreen
<1>5. OnePanelAtATime /\ DetailCanBeClosed /\ NoDetailUnderDeleteAll
  BY DEF Init, OnePanelAtATime, DetailCanBeClosed, NoDetailUnderDeleteAll, NoPanels
<1>6. PlaceIsChosen /\ PinWasTapped
  BY DEF Init, PlaceIsChosen, PinWasTapped, HasDetailButtons, NoPanels, Nothing, EditScreen
<1>7. QED BY <1>1, <1>3, <1>4, <1>5, <1>6 DEF Inv

\* Only four things write the database or the map's pins.
LEMMA StoreWrites ==
    ASSUME [Next]_vars
    PROVE  \/ UNCHANGED store
           \/ realm' = realm /\ onMap' = realm
           \/ Create
           \/ ConfirmDelete
           \/ realm' = NoRows /\ onMap' = NoRows
<1> USE DEF store
<1>1. CASE MapStep
  BY <1>1 DEF MapStep, MapLongPressed, DidSelectPin, DidSelectMarker, DidSelectUser, Deselect,
              ViewForPin, ViewForMarker
<1>2. CASE SearchStep
  BY <1>2 DEF SearchStep, SearchMap, SearchDone, SearchFailed, ReloadTable
<1>3. CASE EditStep
  BY <1>3 DEF EditStep, PlusTapped, ModifyPlace, ShowEditView, EditTitle, SelectPin,
              ChoosePinImage, CloseChooser, HideEditView, ConfirmDiscard, CancelDiscard
<1>4. CASE PanelStep
  BY <1>4 DEF PanelStep, DetailOpen, DeletePins, HideDeletingPanel, HideDetailPanel, DeletePin,
              DeleteAllPins, ConfirmDeleteAll, CancelAlert
<1>5. CASE LeaveStep
  BY <1>5 DEF LeaveStep, ShowSettingView, HideSettingView, ChangeSetting, Tutorial, BackToMap,
              Relaunch, NewViewController, ViewDidLoad
<1>6. CASE UNCHANGED vars
  BY <1>6 DEF vars
<1>7. QED BY <1>1, <1>2, <1>3, <1>4, <1>5, <1>6 DEF Next

\* What Create writes: one row, a whole pin, at a place that was chosen.
LEMMA CreateWrites ==
    ASSUME Inv, Create
    PROVE  \E p \in SavedPin :
               /\ pincoordinate \in Place
               /\ realm' = [realm EXCEPT ![pincoordinate] = <<p>>]
               /\ onMap' = [onMap EXCEPT ![pincoordinate] = <<p>>]
<1> DEFINE new == [title |-> text, image |-> pinColor]
           rows == realm[pincoordinate]
           rest == IF rows = <<>> THEN <<>> ELSE Tail(rows)
<1>1. pincoordinate \in Place
  BY DEF Inv, Create, PlaceIsChosen, EditScreen
<1>2. new \in SavedPin
  BY DEF Inv, TypeOK, Create, EnabledMeansTitled, PinColorIsImage, EditScreen, Text, SavedPin
<1>3. rest = <<>>
  <2>1. rows = <<>> \/ \E p \in SavedPin : rows = <<p>>
    BY <1>1, ConstantTypes DEF Inv, RowsSettled
  <2>2. \A p : Tail(<<p>>) = <<>>
    OBVIOUS
  <2>3. QED BY <2>1, <2>2
<1>4. Append(rest, new) = <<new>>
  <2>1. \A p : Append(<<>>, p) = <<p>>
    OBVIOUS
  <2>2. QED BY <1>3, <2>1
<1>5. /\ realm' = [realm EXCEPT ![pincoordinate] = Append(rest, new)]
      /\ onMap' = [onMap EXCEPT ![pincoordinate] = <<new>>]
  BY DEF Create
<1>6. QED BY <1>1, <1>2, <1>4, <1>5

LEMMA StoreStep ==
    ASSUME Inv, [Next]_vars
    PROVE  MapShowsRealm' /\ RowsSettled' /\ NothingSavedAtOrigin'
<1> USE DEF Inv, TypeOK, MapShowsRealm, RowsSettled, NothingSavedAtOrigin, store
<1> USE ConstantTypes, ConstantsAreDistinct
<1>1. CASE UNCHANGED store
  BY <1>1
<1>2. CASE realm' = realm /\ onMap' = realm
  BY <1>2
<1>3. CASE Create
  <2>1. PICK p \in SavedPin :
            /\ pincoordinate \in Place
            /\ realm' = [realm EXCEPT ![pincoordinate] = <<p>>]
            /\ onMap' = [onMap EXCEPT ![pincoordinate] = <<p>>]
    BY <1>3, CreateWrites
  <2>2. QED BY <2>1
<1>4. CASE ConfirmDelete
  <2>1. /\ onMap' = [onMap EXCEPT ![pincoordinate] = <<>>]
        /\ realm' = [realm EXCEPT ![pincoordinate] = <<>>]
    BY <1>4 DEF ConfirmDelete
  <2>2. QED BY <2>1
<1>5. CASE realm' = NoRows /\ onMap' = NoRows
  BY <1>5 DEF NoRows
<1>6. QED BY <1>1, <1>2, <1>3, <1>4, <1>5, StoreWrites

\* The force unwrap: the pins of the map and the rows agree.
LEMMA TrapStep ==
    ASSUME Inv, [Next]_vars
    PROVE  NoTrap'
<1> USE DEF NoTrap, store, pin, form
<1>1. CASE MapStep
  <2>1. ASSUME NEW c \in Coordinate, DidSelectPin(c) PROVE NoTrap'
    BY <2>1 DEF DidSelectPin, DidSelect, Inv, MapShowsRealm
  <2>2. QED
    BY <1>1, <2>1 DEF MapStep, MapLongPressed, DidSelectMarker, DidSelectUser, Deselect,
                      ViewForPin, ViewForMarker, Inv
<1>2. CASE SearchStep
  BY <1>2 DEF SearchStep, SearchMap, SearchDone, SearchFailed, ReloadTable, Inv
<1>3. CASE EditStep
  BY <1>3 DEF EditStep, PlusTapped, ModifyPlace, ShowEditView, EditTitle, SelectPin,
              ChoosePinImage, CloseChooser, Create, HideEditView, ConfirmDiscard, CancelDiscard,
              InitEditView, Inv
<1>4. CASE PanelStep
  BY <1>4 DEF PanelStep, DetailOpen, DeletePins, HideDeletingPanel, HideDetailPanel, DeletePin,
              ConfirmDelete, DeleteAllPins, ConfirmDeleteAll, CancelAlert, Inv
<1>5. CASE LeaveStep
  BY <1>5 DEF LeaveStep, ShowSettingView, HideSettingView, ChangeSetting, Tutorial, BackToMap,
              Relaunch, NewViewController, ViewDidLoad, Inv
<1>6. CASE UNCHANGED vars
  BY <1>6 DEF vars, Inv
<1>7. QED BY <1>1, <1>2, <1>3, <1>4, <1>5, <1>6 DEF Next

\* The edit form: what is in it, and when its button is enabled.
FormInv == EditFormIsReset /\ EnabledMeansTitled /\ PinColorIsImage

LEMMA FormStep ==
    ASSUME Inv, [Next]_vars
    PROVE  FormInv'
<1>0. FormInv
  BY DEF Inv, FormInv
<1> USE <1>0, ConstantsAreDistinct
<1> USE DEF FormInv, EditFormIsReset, EnabledMeansTitled, PinColorIsImage, EditScreen,
            store, pin, form
<1>1. CASE MapStep
  BY <1>1 DEF MapStep, MapLongPressed, DidSelectPin, DidSelectMarker, DidSelectUser, DidSelect,
              Deselect, ViewForPin, ViewForMarker
<1>2. CASE SearchStep
  BY <1>2 DEF SearchStep, SearchMap, SearchDone, SearchFailed, ReloadTable
<1>3. CASE EditStep
  <2>1. CASE PlusTapped
    BY <2>1 DEF PlusTapped, ShowEditView
  <2>2. CASE ModifyPlace
    <3>1. pinimage \in Image
      BY <2>2 DEF ModifyPlace, Inv, PinWasTapped
    <3>2. QED BY <2>2, <3>1 DEF ModifyPlace, ShowEditView
  <2>3. ASSUME NEW t \in Text, EditTitle(t) PROVE FormInv'
    BY <2>3 DEF EditTitle
  <2>4. CASE SelectPin
    BY <2>4 DEF SelectPin
  <2>5. ASSUME NEW i \in Image, ChoosePinImage(i) PROVE FormInv'
    BY <2>5 DEF ChoosePinImage
  <2>6. CASE CloseChooser
    BY <2>6 DEF CloseChooser
  <2>7. CASE Create \/ HideEditView \/ ConfirmDiscard \/ CancelDiscard
    BY <2>7 DEF Create, HideEditView, ConfirmDiscard, CancelDiscard, InitEditView
  <2>8. QED BY <1>3, <2>1, <2>2, <2>3, <2>4, <2>5, <2>6, <2>7 DEF EditStep
<1>4. CASE PanelStep
  BY <1>4 DEF PanelStep, DetailOpen, DeletePins, HideDeletingPanel, HideDetailPanel, DeletePin,
              ConfirmDelete, DeleteAllPins, ConfirmDeleteAll, CancelAlert
<1>5. CASE LeaveStep
  BY <1>5 DEF LeaveStep, ShowSettingView, HideSettingView, ChangeSetting, Tutorial, BackToMap,
              Relaunch, NewViewController, ViewDidLoad
<1>6. CASE UNCHANGED vars
  BY <1>6 DEF vars
<1>7. QED BY <1>1, <1>2, <1>3, <1>4, <1>5, <1>6 DEF Next

\* The panels.
PanelInv == PanelsInOrder(panels) /\ NoDetailUnderDeleteAll

LEMMA PanelStepKeepsOrder ==
    ASSUME Inv, [Next]_vars
    PROVE  PanelInv'
<1>0. PanelInv /\ panels \in PanelState
  BY DEF Inv, TypeOK, PanelInv, PanelsInOrder, OnePanelAtATime, DetailCanBeClosed
<1>a. /\ ~ HideBoth(panels).detail
      /\ ~ HideDetail(panels).detail
  BY <1>0 DEF PanelState, HideBoth, HideDetail
<1>b. ~ NoPanels.detail
  BY DEF NoPanels
<1>c. panels.closer = "deleting" => ~ panels.detail
  BY <1>0 DEF PanelInv, PanelsInOrder
<1>d. panels.deleting => ~ panels.detail
  BY <1>0 DEF PanelInv, PanelsInOrder
<1>e. ASSUME PanelsInOrder(panels)', screen' # "deleteAllAlert" PROVE PanelInv'
  BY <1>e DEF PanelInv, NoDetailUnderDeleteAll
<1>f. ASSUME panels' = panels, screen' # "deleteAllAlert" \/ screen' = screen PROVE PanelInv'
  BY <1>f, <1>0 DEF PanelInv, NoDetailUnderDeleteAll, PanelsInOrder
<1>g. ASSUME panels' = HideBoth(panels) PROVE PanelInv'
  <2>1. PanelsInOrder(HideBoth(panels))
    BY <1>0, PanelsStayInOrder
  <2>2. QED BY <1>g, <1>a, <2>1 DEF PanelInv, NoDetailUnderDeleteAll, PanelsInOrder
<1>h. ASSUME panels' = NoPanels PROVE PanelInv'
  BY <1>h, <1>b, PanelsStayInOrder DEF PanelInv, NoDetailUnderDeleteAll, PanelsInOrder
<1> USE DEF store, pin, form
<1>1. CASE MapStep
  <2>1. CASE \/ DidSelectMarker
             \/ \E c \in Place : DidSelectUser(c)
             \/ \E c \in Coordinate : DidSelectPin(c)
    BY <2>1, <1>g DEF DidSelectMarker, DidSelectUser, DidSelectPin, DidSelect
  <2>2. QED
    BY <1>1, <1>f, <2>1 DEF MapStep, MapLongPressed, Deselect, ViewForPin, ViewForMarker
<1>2. CASE SearchStep
  BY <1>2, <1>f, <1>g DEF SearchStep, SearchMap, SearchDone, SearchFailed, ReloadTable
<1>3. CASE EditStep
  <2>1. CASE PlusTapped \/ ModifyPlace
    BY <2>1, <1>g DEF PlusTapped, ModifyPlace, ShowEditView
  <2>2. QED
    BY <1>3, <1>f, <2>1 DEF EditStep, EditTitle, SelectPin, ChoosePinImage, CloseChooser, Create,
                            HideEditView, ConfirmDiscard, CancelDiscard, InitEditView
<1>4. CASE PanelStep
  <2>1. CASE DetailOpen \/ DeletePins
    <3>1. panels' = ShowDetail(panels) \/ panels' = ShowDeleting(panels)
      BY <2>1 DEF DetailOpen, DeletePins
    <3>2. PanelsInOrder(panels)'
      BY <1>0, <3>1, PanelsStayInOrder DEF PanelsInOrder
    <3>3. QED BY <2>1, <3>2, <1>e DEF DetailOpen, DeletePins
  <2>2. CASE HideDeletingPanel \/ ConfirmDeleteAll
    <3>1. panels' = HideDeleting(panels) /\ ~ panels.detail
      BY <2>2, <1>0, <1>c DEF HideDeletingPanel, ConfirmDeleteAll, PanelInv, NoDetailUnderDeleteAll
    <3>2. PanelsInOrder(panels)'
      BY <1>0, <3>1, PanelsStayInOrder DEF PanelsInOrder
    <3>3. QED BY <2>2, <3>2, <1>e DEF HideDeletingPanel, ConfirmDeleteAll
  <2>3. CASE HideDetailPanel \/ ConfirmDelete
    <3>1. panels' = HideDetail(panels)
      BY <2>3 DEF HideDetailPanel, ConfirmDelete
    <3>2. PanelsInOrder(panels)'
      BY <1>0, <3>1, PanelsStayInOrder DEF PanelsInOrder
    <3>3. QED BY <2>3, <3>2, <1>e DEF HideDetailPanel, ConfirmDelete
  <2>4. CASE DeletePin \/ CancelAlert
    BY <2>4, <1>f DEF DeletePin, CancelAlert
  <2>5. CASE DeleteAllPins
    BY <2>5, <1>0, <1>d DEF DeleteAllPins, PanelInv, PanelsInOrder, NoDetailUnderDeleteAll
  <2>6. QED BY <1>4, <2>1, <2>2, <2>3, <2>4, <2>5 DEF PanelStep
<1>5. CASE LeaveStep
  <2>1. CASE ChangeSetting \/ BackToMap \/ Relaunch
    BY <2>1, <1>h DEF ChangeSetting, BackToMap, Relaunch, NewViewController, ViewDidLoad
  <2>2. CASE ShowSettingView \/ HideSettingView \/ Tutorial
    BY <2>2, <1>f DEF ShowSettingView, HideSettingView, Tutorial
  <2>3. QED BY <1>5, <2>1, <2>2 DEF LeaveStep
<1>6. CASE UNCHANGED vars
  BY <1>6, <1>f DEF vars
<1>7. QED BY <1>1, <1>2, <1>3, <1>4, <1>5, <1>6 DEF Next

\* What was touched before a callout, a panel or the edit view is open.
TouchInv == PlaceIsChosen /\ PinWasTapped

LEMMA TouchStep ==
    ASSUME Inv, [Next]_vars
    PROVE  TouchInv'
<1>0. TouchInv /\ panels \in PanelState
  BY DEF Inv, TypeOK, TouchInv
<1> USE DEF store, pin, form, EditScreen
<1>a. ASSUME panels' = panels, selected' \in {selected, Nothing}, UNCHANGED pin,
             screen' \in EditScreen \cup {"deleteAlert"} =>
                 screen \in EditScreen \cup {"deleteAlert"}
      PROVE  TouchInv'
  BY <1>a, <1>0 DEF TouchInv, PlaceIsChosen, PinWasTapped, Nothing
\* Hiding panels and closing callouts cannot break it.
<1>b. ASSUME panels' \in {panels, HideBoth(panels), HideDetail(panels), HideDeleting(panels),
                          ShowDeleting(panels), NoPanels},
             selected' \in {selected, Nothing}, UNCHANGED pin,
             screen' \in EditScreen \cup {"deleteAlert"} => pincoordinate \in Place
      PROVE  TouchInv'
  <2>1. HasDetailButtons(panels') => HasDetailButtons(panels)
    BY <1>b, <1>0, HidingShowsNoButtons
  <2>2. HasDetailButtons(panels)' <=> HasDetailButtons(panels')
    BY DEF HasDetailButtons
  <2>3. QED
    BY <1>b, <1>0, <2>1, <2>2 DEF TouchInv, PlaceIsChosen, PinWasTapped, Nothing
<1>1. CASE MapStep
  <2>1. ASSUME NEW c \in Place, MapLongPressed(c) PROVE TouchInv'
    BY <2>1, <1>0 DEF MapLongPressed, TouchInv, PlaceIsChosen, PinWasTapped
  <2>2. ASSUME NEW c \in Coordinate, DidSelectPin(c) PROVE TouchInv'
    <3>1. realm[c] # <<>>
      BY <2>2 DEF DidSelectPin, Inv, MapShowsRealm
    <3>2. PICK p \in SavedPin : realm[c] = <<p>>
      BY <3>1 DEF Inv, RowsSettled
    <3>3. c \in Place
      BY <3>1 DEF Inv, NothingSavedAtOrigin, Coordinate
    <3>4. Head(realm[c]).title \in Title /\ Head(realm[c]).image \in Image
      <4>1. Head(realm[c]) = p
        BY <3>2
      <4>2. QED BY <4>1 DEF SavedPin
    <3>5. /\ pincoordinate' = c
          /\ pintitle' = Head(realm[c]).title
          /\ pinimage' = Head(realm[c]).image
      BY <2>2, <3>1 DEF DidSelectPin, DidSelect
    <3>6. QED BY <3>3, <3>4, <3>5 DEF TouchInv, PlaceIsChosen, PinWasTapped
  <2>3. CASE DidSelectMarker \/ \E c \in Place : DidSelectUser(c)
    <3>1. /\ panels' = HideBoth(panels)
          /\ selected' \in {Marker, UserDot}
          /\ UNCHANGED <<screen, pintitle, pinimage>>
      BY <2>3 DEF DidSelectMarker, DidSelectUser, DidSelect
    <3>2. pincoordinate' \in Place
      BY <2>3 DEF DidSelectMarker, DidSelectUser, DidSelect, Inv, TypeOK
    <3>3. ~ (selected'.kind = "pin")
      BY <3>1 DEF Marker, UserDot
    <3>4. HasDetailButtons(panels)' => HasDetailButtons(panels)
      BY <1>0, <3>1, HidingShowsNoButtons DEF HasDetailButtons
    <3>5. QED
      BY <1>0, <3>1, <3>2, <3>3, <3>4 DEF TouchInv, PlaceIsChosen, PinWasTapped
  <2>4. CASE Deselect
    BY <2>4, <1>a DEF Deselect
  <2>5. ASSUME NEW c \in Coordinate, ViewForPin(c) PROVE TouchInv'
    <3>1. PICK i \in DOMAIN onMap[c] : pintitle' = onMap[c][i].title
      BY <2>5 DEF ViewForPin
    <3>2. onMap[c] = realm[c]
      BY DEF Inv, MapShowsRealm
    <3>3. realm[c] # <<>>
      BY <3>1, <3>2
    <3>4. PICK p \in SavedPin : realm[c] = <<p>>
      BY <3>3 DEF Inv, RowsSettled
    <3>5. c \in Place
      BY <3>3 DEF Inv, NothingSavedAtOrigin, Coordinate
    <3>6. pintitle' \in Title
      <4>1. i = 1 /\ onMap[c][i] = p
        BY <3>1, <3>2, <3>4
      <4>2. QED BY <3>1, <4>1 DEF SavedPin
    <3>7. pincoordinate' = c /\ UNCHANGED <<selected, screen, pinimage, panels>>
      BY <2>5 DEF ViewForPin
    <3>8. QED BY <1>0, <3>5, <3>6, <3>7 DEF TouchInv, PlaceIsChosen, PinWasTapped
  <2>6. CASE ViewForMarker
    <3>1. marker \in Place /\ pincoordinate' = marker
      BY <2>6 DEF ViewForMarker, Inv, TypeOK
    <3>2. QED
      BY <2>6, <3>1, <1>0 DEF ViewForMarker, TouchInv, PlaceIsChosen, PinWasTapped
  <2>7. QED BY <1>1, <2>1, <2>2, <2>3, <2>4, <2>5, <2>6 DEF MapStep
<1>2. CASE SearchStep
  <2>1. CASE ReloadTable
    <3>1. screen' \in EditScreen \cup {"deleteAlert"} => pincoordinate \in Place
      BY <2>1, <1>0 DEF ReloadTable, TouchInv, PlaceIsChosen
    <3>2. QED BY <2>1, <3>1, <1>b DEF ReloadTable
  <2>2. QED BY <1>2, <2>1, <1>a DEF SearchStep, SearchMap, SearchDone, SearchFailed
<1>3. CASE EditStep
  <2>1. CASE PlusTapped \/ ModifyPlace
    <3>a. (selected.kind # "none" \/ HasDetailButtons(panels)) => pincoordinate \in Place
      BY <1>0 DEF TouchInv, PlaceIsChosen
    <3>b. PlusTapped => selected.kind # "none"
      BY DEF PlusTapped, Marker, UserDot
    <3>c. ModifyPlace => HasDetailButtons(panels)
      BY DEF ModifyPlace
    <3>1. pincoordinate \in Place
      BY <2>1, <3>a, <3>b, <3>c
    <3>2. QED BY <2>1, <3>1, <1>b DEF PlusTapped, ModifyPlace, ShowEditView
  <2>2. CASE Create
    BY <2>2, <1>a DEF Create, InitEditView, SelectedAfterRemoving
  <2>3. CASE (\E t \in Text : EditTitle(t)) \/ SelectPin \/ (\E i \in Image : ChoosePinImage(i))
    BY <2>3, <1>a DEF EditTitle, SelectPin, ChoosePinImage
  <2>4. CASE CloseChooser \/ HideEditView \/ ConfirmDiscard \/ CancelDiscard
    BY <2>4, <1>a DEF CloseChooser, HideEditView, ConfirmDiscard, CancelDiscard, InitEditView
  <2>5. QED BY <1>3, <2>1, <2>2, <2>3, <2>4 DEF EditStep
<1>4. CASE PanelStep
  <2>1. CASE DetailOpen
    BY <2>1, <1>0 DEF DetailOpen, TouchInv, PlaceIsChosen, PinWasTapped
  <2>2. CASE DeletePins \/ HideDeletingPanel \/ HideDetailPanel
    BY <2>2, <1>b DEF DeletePins, HideDeletingPanel, HideDetailPanel
  <2>3. CASE DeletePin
    <3>1. pincoordinate \in Place
      BY <2>3, <1>0 DEF DeletePin, TouchInv, PlaceIsChosen
    <3>2. QED BY <2>3, <3>1, <1>b DEF DeletePin
  <2>4. CASE ConfirmDelete
    BY <2>4, <1>b DEF ConfirmDelete, SelectedAfterRemoving
  <2>5. CASE ConfirmDeleteAll
    BY <2>5, <1>b DEF ConfirmDeleteAll
  <2>6. CASE DeleteAllPins \/ CancelAlert
    BY <2>6, <1>a DEF DeleteAllPins, CancelAlert
  <2>7. QED BY <1>4, <2>1, <2>2, <2>3, <2>4, <2>5, <2>6 DEF PanelStep
<1>5. CASE LeaveStep
  <2>1. CASE ChangeSetting
    BY <2>1, <1>b DEF ChangeSetting, ViewDidLoad
  <2>2. CASE BackToMap \/ Relaunch
    <3>1. screen' = "map" /\ selected' = Nothing /\ panels' = NoPanels
      BY <2>2 DEF BackToMap, Relaunch, NewViewController, ViewDidLoad
    <3>2. QED
      BY <3>1 DEF TouchInv, PlaceIsChosen, PinWasTapped, HasDetailButtons, NoPanels, Nothing
  <2>3. CASE ShowSettingView \/ HideSettingView \/ Tutorial
    BY <2>3, <1>a DEF ShowSettingView, HideSettingView, Tutorial
  <2>4. QED BY <1>5, <2>1, <2>2, <2>3 DEF LeaveStep
<1>6. CASE UNCHANGED vars
  BY <1>6, <1>a DEF vars
<1>7. QED BY <1>1, <1>2, <1>3, <1>4, <1>5, <1>6 DEF Next

LEMMA InvStep == Inv /\ [Next]_vars => Inv'
<1> SUFFICES ASSUME Inv, [Next]_vars PROVE Inv'
  OBVIOUS
<1>1. TypeOK'
  BY TypeStep DEF Inv
<1>2. FormInv' /\ PanelInv' /\ TouchInv'
  BY FormStep, PanelStepKeepsOrder, TouchStep
<1>3. OnePanelAtATime' /\ DetailCanBeClosed'
  BY <1>2 DEF PanelInv, PanelsInOrder, OnePanelAtATime, DetailCanBeClosed
<1>4. QED
  BY <1>1, <1>2, <1>3, StoreStep, TrapStep DEF Inv, FormInv, PanelInv, TouchInv

THEOREM Invariance == Spec => []Inv
BY InitInv, InvStep, PTL DEF Spec

-----------------------------------------------------------------------------
(* The safety properties                                                   *)

\* The map and the database hold the same pins.
THEOREM MapAlwaysShowsRealm == Spec => []MapShowsRealm
<1>1. Inv => MapShowsRealm
  BY DEF Inv
<1>2. QED BY <1>1, Invariance, PTL

LEMMA SettledRows ==
    ASSUME RowsSettled
    PROVE  OnePinPerPlace /\ NoUntitledPin /\ NoImagelessPin
<1>1. ASSUME NEW c \in Coordinate
      PROVE  /\ Len(realm[c]) <= 1
             /\ \A i \in DOMAIN realm[c] : /\ realm[c][i].title # NoTitle
                                           /\ realm[c][i].image \in Image
  <2>1. CASE realm[c] = <<>>
    BY <2>1
  <2>2. ASSUME NEW p \in SavedPin, realm[c] = <<p>> PROVE <1>1!2
    BY <2>2, ConstantsAreDistinct DEF SavedPin
  <2>3. QED BY <2>1, <2>2 DEF RowsSettled
<1>2. QED BY <1>1 DEF OnePinPerPlace, NoUntitledPin, NoImagelessPin

\* A coordinate never has two rows, so that Create's deletion of the first
\* one it finds is enough.
THEOREM AtMostOnePinPerPlace == Spec => []OnePinPerPlace
<1>1. Inv => OnePinPerPlace
  BY SettledRows DEF Inv
<1>2. QED BY <1>1, Invariance, PTL

\* No pin is saved without a title, in spite of the four handlers that write
\* the create button's state.
THEOREM EverySavedPinIsTitled == Spec => []NoUntitledPin
<1>1. Inv => NoUntitledPin
  BY SettledRows DEF Inv
<1>2. QED BY <1>1, Invariance, PTL

\* No pin is saved without an image of the chooser.
THEOREM EverySavedPinHasAnImage == Spec => []NoImagelessPin
<1>1. Inv => NoImagelessPin
  BY SettledRows DEF Inv
<1>2. QED BY <1>1, Invariance, PTL

\* pincoordinate is a real place before anything is saved at it.
THEOREM NoPinAtOrigin == Spec => []NothingSavedAtOrigin
<1>1. Inv => NothingSavedAtOrigin
  BY DEF Inv
<1>2. QED BY <1>1, Invariance, PTL

\* didSelect never unwraps a row that is not there.
THEOREM NeverTraps == Spec => []NoTrap
<1>1. Inv => NoTrap
  BY DEF Inv
<1>2. QED BY <1>1, Invariance, PTL

\* The edit form is empty whenever the edit view is closed.
THEOREM EditFormIsAlwaysReset == Spec => []EditFormIsReset
<1>1. Inv => EditFormIsReset
  BY DEF Inv
<1>2. QED BY <1>1, Invariance, PTL

\* The deleting panel and the detail panel exclude each other, and the detail
\* panel can be closed.
THEOREM PanelsExclude == Spec => [](OnePanelAtATime /\ DetailCanBeClosed)
<1>1. Inv => OnePanelAtATime /\ DetailCanBeClosed
  BY DEF Inv
<1>2. QED BY <1>1, Invariance, PTL

-----------------------------------------------------------------------------
(* MapScreen implements PinBook                                            *)

LEMMA FirstOfRows ==
    /\ First(<<>>) = NoPin
    /\ \A p : First(<<p>>) = p
<1>1. ASSUME NEW p PROVE <<p>> # <<>> /\ Head(<<p>>) = p
  OBVIOUS
<1>2. QED BY <1>1 DEF First

LEMMA InitRefines == Init => Book!Init
BY FirstOfRows, ConstantTypes DEF Init, NoRows, Book!Init, Book!Empty

\* Create is Save, ConfirmDelete is Erase, ConfirmDeleteAll is Clear, and
\* everything else, reloads and relaunches included, is a stutter.
LEMMA StepRefines == Inv /\ [Next]_vars => [Book!Next]_(Book!vars)
<1> SUFFICES ASSUME Inv, [Next]_vars PROVE [Book!Next]_(Book!vars)
  OBVIOUS
<1> DEFINE book == [c \in Place |-> First(realm[c])]
           shown == [c \in Place |-> First(onMap[c])]
<1>0. /\ realm \in [Coordinate -> Seq(Pin)]
      /\ onMap = realm
      /\ onMap' = realm'
      /\ shown' = book'
  <2>1. onMap' = realm'
    BY StoreStep DEF MapShowsRealm
  <2>2. QED BY <2>1 DEF Inv, TypeOK, MapShowsRealm
<1>1. CASE UNCHANGED store
  BY <1>1 DEF store, Book!vars
<1>2. CASE realm' = realm /\ onMap' = realm
  BY <1>2, <1>0 DEF Book!vars
<1>3. CASE Create
  <2>1. PICK p \in SavedPin :
            /\ pincoordinate \in Place
            /\ realm' = [realm EXCEPT ![pincoordinate] = <<p>>]
    BY <1>3, CreateWrites
  <2>2. book' = [book EXCEPT ![pincoordinate] = p]
    BY <1>0, <2>1, FirstOfRows, ConstantTypes
  <2>3. Book!Save(pincoordinate, p)
    BY <1>0, <2>2 DEF Book!Save
  <2>4. QED BY <2>1, <2>3 DEF Book!Next
<1>4. CASE ConfirmDelete
  <2>1. pincoordinate \in Place
    BY <1>4 DEF ConfirmDelete, Inv, PlaceIsChosen
  <2>2. realm' = [realm EXCEPT ![pincoordinate] = <<>>]
    BY <1>4 DEF ConfirmDelete
  <2>3. book' = [book EXCEPT ![pincoordinate] = NoPin]
    BY <1>0, <2>1, <2>2, FirstOfRows, ConstantTypes
  <2>4. Book!Erase(pincoordinate)
    BY <1>0, <2>3 DEF Book!Erase
  <2>5. QED BY <2>1, <2>4 DEF Book!Next
<1>5. CASE realm' = NoRows /\ onMap' = NoRows
  <2>1. book' = [c \in Place |-> NoPin]
    BY <1>5, FirstOfRows, ConstantTypes DEF NoRows
  <2>2. Book!Clear
    BY <1>0, <2>1 DEF Book!Clear, Book!Empty
  <2>3. QED BY <2>2 DEF Book!Next
<1>6. QED BY <1>1, <1>2, <1>3, <1>4, <1>5, StoreWrites

\* Whatever the order of touches and callbacks, the pins behave as the book
\* of PinBook: nothing but a saved form and a confirmed deletion changes
\* them, and the map follows the database in the same step.
THEOREM MapScreenImplementsPinBook == Spec => ImplementsPinBook
BY InitRefines, StepRefines, Invariance, PTL DEF Spec, ImplementsPinBook, Book!Spec

-----------------------------------------------------------------------------
(* TapHistory: what relates the taps to the map screen                     *)

\* What relates the history to the map screen.
Agrees == TapPlace /\ SelectedIsTapped /\ DetailShowsTappedPin /\ NoDetailUnderForm

\* A step of TapHistory is a step of MapScreen.
LEMMA HistoryStepIsStep == [HistoryNext]_allVars => [Next]_vars
BY DEF HistoryNext, TapStep, DisturbingStep, OpenStep, FreshStep, OtherStep, allVars,
       Next, MapStep, PanelStep, LeaveStep

LEMMA InitHistory == HistoryInit => HistoryInv
<1> SUFFICES ASSUME HistoryInit PROVE HistoryInv
  OBVIOUS
<1>1. Inv
  BY InitInv DEF HistoryInit
<1>2. HistoryTypeOK
  BY ConstantTypes DEF HistoryInit, NothingTapped, HistoryTypeOK
<1>3. TapPlace /\ SelectedIsTapped /\ DetailShowsTappedPin
  BY DEF HistoryInit, NothingTapped, TapPlace, SelectedIsTapped, DetailShowsTappedPin
<1>4. NoDetailUnderForm
  BY DEF HistoryInit, Init, NoDetailUnderForm, EditScreen
<1>5. QED BY <1>1, <1>2, <1>3, <1>4 DEF HistoryInv

LEMMA HistoryTypes ==
    ASSUME HistoryInv, HistoryNext
    PROVE  HistoryTypeOK'
<1>0. HistoryTypeOK /\ TypeOK
  BY DEF HistoryInv, Inv
<1> USE <1>0 DEF HistoryTypeOK
<1>1. CASE TapStep
  BY <1>1, ConstantTypes DEF TapStep, DidSelectMarker, TypeOK
<1>2. CASE DisturbingStep
  BY <1>2 DEF DisturbingStep
<1>3. CASE OpenStep
  BY <1>3 DEF OpenStep, TypeOK
<1>4. CASE FreshStep
  BY <1>4, ConstantTypes DEF FreshStep
<1>5. CASE OtherStep
  BY <1>5 DEF OtherStep, history
<1>6. QED BY <1>1, <1>2, <1>3, <1>4, <1>5 DEF HistoryNext

\* A step that writes neither the pins nor what the taps wrote, and that at
\* most closes callouts and panels.
LEMMA QuietStep ==
    ASSUME HistoryInv,
           UNCHANGED <<realm, pincoordinate, pintitle, history>>,
           selected' = selected \/ selected'.kind # "pin",
           panels'.detail => panels.detail,
           screen' \in EditScreen => screen \in EditScreen \/ ~ panels'.detail
    PROVE  Agrees'
BY DEF HistoryInv, Agrees, TapPlace, SelectedIsTapped, DetailShowsTappedPin, NoDetailUnderForm,
       history

\* The operations on the panels that show no detail panel.
LEMMA PanelsWithoutDetail ==
    \A p \in PanelState :
        /\ HideDeleting(p).detail = p.detail
        /\ ~ HideDetail(p).detail
        /\ ~ HideBoth(p).detail
        /\ ~ ShowDeleting(p).detail
        /\ ~ NoPanels.detail
BY DEF PanelState, HideDeleting, HideDetail, HideBoth, ShowDeleting, NoPanels

\* Without a selected pin and without a detail panel there is little to show.
LEMMA ClosedStep ==
    ASSUME HistoryInv,
           undisturbed' => pincoordinate' = tapped',
           selected'.kind # "pin",
           ~ panels'.detail
    PROVE  Agrees'
BY DEF Agrees, TapPlace, SelectedIsTapped, DetailShowsTappedPin, NoDetailUnderForm

LEMMA TapAgrees ==
    ASSUME HistoryInv, TapStep
    PROVE  Agrees'
<1>0. panels' = HideBoth(panels) /\ ~ panels'.detail
  BY PanelsWithoutDetail
     DEF HistoryInv, Inv, TypeOK, TapStep, DidSelectPin, DidSelectMarker, DidSelectUser, DidSelect
<1>1. ASSUME NEW c \in Coordinate, DidSelectPin(c), tapped' = c PROVE Agrees'
  <2>1. realm[c] # <<>>
    BY <1>1 DEF DidSelectPin, HistoryInv, Inv, MapShowsRealm
  <2>2. /\ realm' = realm
        /\ selected' = PinAt(c)
        /\ pincoordinate' = c
        /\ pintitle' = Head(realm[c]).title
    BY <1>1, <2>1 DEF DidSelectPin, DidSelect, store
  <2>3. QED
    BY <1>0, <1>1, <2>1, <2>2
       DEF Agrees, TapPlace, SelectedIsTapped, DetailShowsTappedPin, NoDetailUnderForm
<1>2. CASE DidSelectMarker /\ tapped' = marker
  BY <1>0, <1>2, ClosedStep DEF DidSelectMarker, DidSelect, Marker
<1>3. ASSUME NEW c \in Place, DidSelectUser(c), tapped' = c PROVE Agrees'
  BY <1>0, <1>3, ClosedStep DEF DidSelectUser, DidSelect, UserDot
<1>4. QED BY <1>1, <1>2, <1>3 DEF TapStep

\* A saved form replaces the tapped pin and closes its callout.
LEMMA CreateAgrees ==
    ASSUME HistoryInv, Create, UNCHANGED history
    PROVE  Agrees'
<1>1. /\ UNCHANGED <<pincoordinate, panels>>
      /\ ~ panels.detail
      /\ selected' = IF selected \in {Marker, PinAt(pincoordinate)} THEN Nothing ELSE selected
  BY DEF Create, pin, HistoryInv, NoDetailUnderForm, EditScreen, SelectedAfterRemoving
<1>2. undisturbed' => pincoordinate' = tapped'
  BY <1>1 DEF history, HistoryInv, TapPlace
<1>3. ~ undisturbed' \/ selected'.kind # "pin"
  BY <1>1 DEF history, HistoryInv, TapPlace, SelectedIsTapped, Nothing
<1>4. QED
  BY <1>1, <1>2, <1>3
     DEF Agrees, TapPlace, SelectedIsTapped, DetailShowsTappedPin, NoDetailUnderForm

\* So does a confirmed deletion, which closes the detail panel as well.
LEMMA ConfirmDeleteAgrees ==
    ASSUME HistoryInv, ConfirmDelete, UNCHANGED history
    PROVE  Agrees'
<1>1. /\ pincoordinate' = pincoordinate
      /\ ~ panels'.detail
      /\ selected' = Nothing \/ (selected' = selected /\ selected # PinAt(pincoordinate))
  BY PanelsWithoutDetail
     DEF ConfirmDelete, pin, HistoryInv, Inv, TypeOK, SelectedAfterRemoving
<1>2. undisturbed' => pincoordinate' = tapped'
  BY <1>1 DEF history, HistoryInv, TapPlace
<1>3. ~ undisturbed' \/ selected'.kind # "pin"
  BY <1>1 DEF history, HistoryInv, TapPlace, SelectedIsTapped, Nothing
<1>4. QED
  BY <1>1, <1>2, <1>3
     DEF Agrees, TapPlace, SelectedIsTapped, DetailShowsTappedPin, NoDetailUnderForm

LEMMA EditAgrees ==
    ASSUME HistoryInv, EditStep, UNCHANGED history
    PROVE  Agrees'
<1> USE DEF store, pin
<1>0. panels \in PanelState
  BY DEF HistoryInv, Inv, TypeOK
<1>1. CASE PlusTapped \/ ModifyPlace
  <2>1. ~ panels'.detail
    BY <1>0, <1>1, PanelsWithoutDetail DEF PlusTapped, ModifyPlace, ShowEditView
  <2>2. QED BY <1>1, <2>1, QuietStep DEF PlusTapped, ModifyPlace, ShowEditView
<1>2. CASE Create
  BY <1>2, CreateAgrees
<1>3. CASE (\E t \in Text : EditTitle(t)) \/ SelectPin \/ (\E i \in Image : ChoosePinImage(i))
  BY <1>3, QuietStep DEF EditTitle, SelectPin, ChoosePinImage, EditScreen
<1>4. CASE CloseChooser \/ HideEditView \/ ConfirmDiscard \/ CancelDiscard
  BY <1>4, QuietStep
     DEF CloseChooser, HideEditView, ConfirmDiscard, CancelDiscard, InitEditView, EditScreen
<1>5. QED BY <1>1, <1>2, <1>3, <1>4 DEF EditStep

LEMMA SearchAgrees ==
    ASSUME HistoryInv, SearchStep, UNCHANGED history
    PROVE  Agrees'
<1> USE DEF store, pin
<1>1. CASE ReloadTable
  <2>1. ~ panels'.detail
    BY <1>1, PanelsWithoutDetail DEF ReloadTable, HistoryInv, Inv, TypeOK
  <2>2. QED BY <1>1, <2>1, QuietStep DEF ReloadTable
<1>2. CASE SearchMap \/ (\E c \in Place : SearchDone(c)) \/ SearchFailed
  BY <1>2, QuietStep DEF SearchMap, SearchDone, SearchFailed
<1>3. QED BY <1>1, <1>2 DEF SearchStep

LEMMA PanelAgrees ==
    ASSUME HistoryInv, UNCHANGED history,
           \/ DeletePins \/ HideDeletingPanel \/ HideDetailPanel
           \/ DeletePin \/ ConfirmDelete \/ DeleteAllPins \/ ConfirmDeleteAll \/ CancelAlert
    PROVE  Agrees'
<1> USE DEF store, pin
<1>0. panels \in PanelState
  BY DEF HistoryInv, Inv, TypeOK
<1>1. CASE DeletePins \/ HideDeletingPanel \/ HideDetailPanel
  <2>1. panels'.detail => panels.detail
    BY <1>0, <1>1, PanelsWithoutDetail DEF DeletePins, HideDeletingPanel, HideDetailPanel
  <2>2. QED BY <1>1, <2>1, QuietStep DEF DeletePins, HideDeletingPanel, HideDetailPanel
<1>2. CASE DeletePin \/ DeleteAllPins \/ CancelAlert
  BY <1>2, QuietStep DEF DeletePin, DeleteAllPins, CancelAlert, EditScreen
<1>3. CASE ConfirmDelete
  BY <1>3, ConfirmDeleteAgrees
<1>4. CASE ConfirmDeleteAll
  <2>1. ~ panels'.detail
    BY <1>0, <1>4, PanelsWithoutDetail
       DEF ConfirmDeleteAll, HistoryInv, Inv, NoDetailUnderDeleteAll
  <2>2. selected'.kind # "pin" /\ pincoordinate' = pincoordinate
    BY <1>4 DEF ConfirmDeleteAll, UserDot, Nothing
  <2>3. undisturbed' => pincoordinate' = tapped'
    BY <2>2 DEF history, HistoryInv, TapPlace
  <2>4. QED BY <2>1, <2>2, <2>3, ClosedStep
<1>5. QED BY <1>1, <1>2, <1>3, <1>4

LEMMA OtherAgrees ==
    ASSUME HistoryInv, OtherStep
    PROVE  Agrees'
<1> USE DEF store, pin
<1>0. UNCHANGED history
  BY DEF OtherStep
<1>1. CASE Deselect
  BY <1>0, <1>1, QuietStep DEF Deselect, Nothing
<1>2. CASE ShowSettingView \/ HideSettingView \/ Tutorial
  BY <1>0, <1>2, QuietStep DEF ShowSettingView, HideSettingView, Tutorial, EditScreen
<1>3. CASE ChangeSetting
  <2>1. ~ panels'.detail /\ selected'.kind # "pin"
    BY <1>3 DEF ChangeSetting, ViewDidLoad, NoPanels, Nothing
  <2>2. QED BY <1>0, <1>3, <2>1, QuietStep DEF ChangeSetting
<1>4. QED
  BY <1>0, <1>1, <1>2, <1>3, EditAgrees, SearchAgrees, PanelAgrees DEF OtherStep

LEMMA HistoryStep == HistoryInv /\ [HistoryNext]_allVars => HistoryInv'
<1> SUFFICES ASSUME HistoryInv, [HistoryNext]_allVars PROVE HistoryInv'
  OBVIOUS
<1>1. Inv'
  BY InvStep, HistoryStepIsStep DEF HistoryInv
<1>2. CASE UNCHANGED allVars
  <2>1. Agrees'
    BY <1>2, QuietStep DEF allVars, vars
  <2>2. HistoryTypeOK'
    BY <1>2 DEF allVars, history, HistoryInv, HistoryTypeOK
  <2>3. QED BY <1>1, <2>1, <2>2 DEF HistoryInv, Agrees
<1>3. CASE HistoryNext
  <2>1. ASSUME TapStep PROVE Agrees'
    BY <2>1, TapAgrees
  <2>2. ASSUME DisturbingStep PROVE Agrees'
    <3>1. UNCHANGED <<screen, panels>> /\ ~ undisturbed'
      BY <2>2 DEF DisturbingStep, MapLongPressed, ViewForPin, ViewForMarker
    <3>2. QED
      BY <3>1 DEF HistoryInv, Agrees, TapPlace, SelectedIsTapped, DetailShowsTappedPin,
                  NoDetailUnderForm
  <2>3. ASSUME OpenStep PROVE Agrees'
    <3>1. /\ UNCHANGED <<realm, selected, pincoordinate, pintitle, tapped, undisturbed>>
          /\ screen' = "map"
          /\ selected.kind = "pin"
          /\ panelTitle' = pintitle
      BY <2>3 DEF OpenStep, DetailOpen, store, pin
    <3>2. QED
      BY <3>1 DEF HistoryInv, Agrees, TapPlace, SelectedIsTapped, DetailShowsTappedPin,
                  NoDetailUnderForm, EditScreen
  <2>4. ASSUME FreshStep PROVE Agrees'
    <3>1. ~ undisturbed' /\ screen' = "map"
      BY <2>4 DEF FreshStep, BackToMap, Relaunch, NewViewController, ViewDidLoad
    <3>2. QED
      BY <3>1 DEF Agrees, TapPlace, SelectedIsTapped, DetailShowsTappedPin, NoDetailUnderForm,
                  EditScreen
  <2>5. ASSUME OtherStep PROVE Agrees'
    BY <2>5, OtherAgrees
  <2>6. Agrees'
    BY <1>3, <2>1, <2>2, <2>3, <2>4, <2>5 DEF HistoryNext
  <2>7. HistoryTypeOK'
    BY <1>3, HistoryTypes
  <2>8. QED BY <1>1, <2>6, <2>7 DEF HistoryInv, Agrees
<1>4. QED BY <1>2, <1>3

\* The invariant of the map screen and what relates it to the taps.
THEOREM HistoryInvariance == HistorySpec => []HistoryInv
BY InitHistory, HistoryStep, PTL DEF HistorySpec

\* As long as only taps have chosen the pin, an open detail panel shows the
\* stored title of the tapped pin.
THEOREM DetailIsOfTappedPin == HistorySpec => []DetailShowsTappedPin
<1>1. HistoryInv => DetailShowsTappedPin
  BY DEF HistoryInv
<1>2. QED BY <1>1, HistoryInvariance, PTL

\* As long as only taps have chosen the pin, saving and deleting leave every
\* other place alone.
THEOREM OtherPlacesAreKept == HistorySpec => OnlyTappedPlaceChanges
<1>1. ASSUME HistoryInv
      PROVE  undisturbed /\ (Create \/ ConfirmDelete) =>
                 \A c \in Coordinate \ {tapped} : realm'[c] = realm[c]
  <2>1. realm \in [Coordinate -> Seq(Pin)] /\ (undisturbed => pincoordinate = tapped)
    BY <1>1 DEF HistoryInv, Inv, TypeOK, TapPlace
  <2>2. Create => \E p \in SavedPin : realm' = [realm EXCEPT ![pincoordinate] = <<p>>]
    BY <1>1, CreateWrites DEF HistoryInv
  <2>3. ConfirmDelete => realm' = [realm EXCEPT ![pincoordinate] = <<>>]
    BY DEF ConfirmDelete
  <2>4. QED BY <2>1, <2>2, <2>3
<1>2. QED BY <1>1, HistoryInvariance, PTL DEF OnlyTappedPlaceChanges
=============================================================================
