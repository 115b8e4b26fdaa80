----------------------------- MODULE TapHistory -----------------------------
(***************************************************************************)
(* MapScreen with a record of what the user saw and touched, to say what   *)
(* the detail panel, its delete button and its modify button ought to work *)
(* on.  The code has no such record: it works on pincoordinate and         *)
(* pintitle, which other handlers write too.                               *)
(***************************************************************************)
EXTENDS MapScreen

VARIABLES
    tapped,      \* the coordinate of the annotation that was tapped last
    undisturbed, \* nothing but taps has written pincoordinate since then
    panelTitle   \* the title on the newest detail panel

history == <<tapped, undisturbed, panelTitle>>
allVars == <<vars, history>>

HistoryTypeOK ==
    /\ tapped \in Coordinate
    /\ undisturbed \in BOOLEAN
    /\ panelTitle \in Text

NothingTapped == tapped = Origin /\ undisturbed = FALSE /\ panelTitle = NoTitle

HistoryInit == Init /\ NothingTapped

TapStep ==
    /\ \/ \E c \in Coordinate : DidSelectPin(c) /\ tapped' = c
       \/ DidSelectMarker /\ tapped' = marker
       \/ \E c \in Place : DidSelectUser(c) /\ tapped' = c
    /\ undisturbed' = TRUE
    /\ UNCHANGED panelTitle

DisturbingStep ==
    /\ \/ \E c \in Place : MapLongPressed(c)
       \/ \E c \in Coordinate : ViewForPin(c)
       \/ ViewForMarker
    /\ undisturbed' = FALSE
    /\ UNCHANGED <<tapped, panelTitle>>

\* detailOpen copies pintitle into the label of the panel it makes.
OpenStep ==
    /\ DetailOpen
    /\ panelTitle' = pintitle
    /\ UNCHANGED <<tapped, undisturbed>>

FreshStep ==
    /\ BackToMap \/ Relaunch
    /\ tapped' = Origin
    /\ undisturbed' = FALSE
    /\ panelTitle' = NoTitle

OtherStep ==
    /\ \/ Deselect
       \/ SearchStep
       \/ EditStep
       \/ DeletePins \/ HideDeletingPanel \/ HideDetailPanel
       \/ DeletePin \/ ConfirmDelete \/ DeleteAllPins \/ ConfirmDeleteAll \/ CancelAlert
       \/ ShowSettingView \/ HideSettingView \/ ChangeSetting \/ Tutorial
    /\ UNCHANGED history

HistoryNext == TapStep \/ DisturbingStep \/ OpenStep \/ FreshStep \/ OtherStep

HistorySpec == HistoryInit /\ [][HistoryNext]_allVars

-----------------------------------------------------------------------------

\* As long as only taps have chosen the pin, the detail panel on the screen
\* shows the title that the database has for the tapped pin: no edit, delete,
\* reload or table answer leaves a panel behind that describes another pin.
DetailShowsTappedPin ==
    undisturbed /\ panels.detail =>
        /\ realm[tapped] # <<>>
        /\ panelTitle = Head(realm[tapped]).title

\* As long as only taps have chosen the pin, saving the form and deleting a
\* pin touch no row but those at the tapped coordinate, whatever panels,
\* alerts, searches and settings came in between.
OnlyTappedPlaceChanges ==
    [][undisturbed /\ (Create \/ ConfirmDelete) =>
           \A c \in Coordinate \ {tapped} : realm'[c] = realm[c]]_allVars

\* ViewController.swift:688 says of the delete button of the detail panel:
\* "delete the pins at the same position as the tapped pin (= delete the
\* tapped pin)".  A long press or a call of viewFor between the tap and the
\* confirmation makes it another position.
DeleteRemovesTappedPin ==
    [][ConfirmDelete /\ panels.detail => realm'[tapped] = <<>>]_allVars

\* ViewController.swift:627 says of the modify button: "change the contents
\* of the pin".  Saving the form then leaves every other pin as it was.
ModifyChangesTappedPin ==
    [][Create /\ isExistingPin =>
           \A c \in Coordinate \ {tapped} : realm'[c] = realm[c]]_allVars

\* ViewController.swift:552 says that detailOpen hides the previous panel.
PreviousDetailPanelHidden == ~ panels.stale

\* ViewController.swift:269 says that deletePins hides the detail panel, if
\* there is one; its cross stays.
DeletePinsHidesDetailPanel ==
    [][DeletePins /\ panels.detail /\ ~ panels.orphan => ~ panels'.orphan]_allVars

-----------------------------------------------------------------------------
(* The inductive invariant                                                 *)

\* Taps and pincoordinate agree until another handler writes it.
TapPlace == undisturbed => pincoordinate = tapped

\* The selected pin is the tapped one, it is stored, and pintitle is its
\* title, until another handler writes them.
SelectedIsTapped ==
    undisturbed /\ selected.kind = "pin" =>
        /\ selected = PinAt(tapped)
        /\ realm[tapped] # <<>>
        /\ pintitle = Head(realm[tapped]).title

\* showEditView hides the detail panel, and nothing opens it below the form.
NoDetailUnderForm == screen \in EditScreen => ~ panels.detail

HistoryInv ==
    /\ Inv
    /\ HistoryTypeOK
    /\ TapPlace
    /\ SelectedIsTapped
    /\ DetailShowsTappedPin
    /\ NoDetailUnderForm

=============================================================================
