----------------------------- MODULE MapScreen -----------------------------
(***************************************************************************)
(* The map screen, ViewController, with the views it shows over the map    *)
(* (EditView, ChoosePin, the panels, the alerts), the database of pins and *)
(* the callbacks it gets from MapKit.  Everything runs on the main thread, *)
(* so each handler is one step; what interleaves is the order of the       *)
(* user's touches, of MapKit's calls to viewFor, of search answers and of  *)
(* the completer's answers.                                                *)
(*                                                                         *)
(* The memo of a pin is copied wherever its title is and no guard reads    *)
(* it, so the title stands for both.  The wording, the layout, the zoom    *)
(* and the animations are left out.                                        *)
(***************************************************************************)
EXTENDS Panels, Naturals, Sequences

CONSTANTS
    Place,         \* coordinates a finger, the GPS or a search can point at
    Origin,        \* CLLocationCoordinate2D(), the value before any other
    Title,         \* texts a title field can hold, the empty one excepted
    NoTitle,       \* the empty text
    Image,         \* the pin images of ChoosePin
    DefaultImage,  \* "redpin-1.png"
    NoImage,       \* String(), the value of pinimage before any other
    OffMap,        \* the shared marker is not on the map
    MaxSearches    \* bound: searches that are waiting for an answer

ASSUME ConstantsAreDistinct ==
    /\ Origin \notin Place
    /\ OffMap \notin Place
    /\ NoTitle \notin Title
    /\ NoImage \notin Image
    /\ DefaultImage \in Image

ASSUME MaxSearchesIsNat == MaxSearches \in Nat

Coordinate == Place \cup {Origin}
Text == Title \cup {NoTitle}
Picture == Image \cup {NoImage}

\* A PinItem row, and the CustomAnnotation made from one.
Pin == [title : Text, image : Picture]

\* What can be selected on the map.
Nothing == [kind |-> "none", at |-> Origin]
Marker == [kind |-> "marker", at |-> Origin]
UserDot == [kind |-> "user", at |-> Origin]
PinAt(c) == [kind |-> "pin", at |-> c]
Selectable == [kind : {"none", "marker", "user", "pin"}, at : Coordinate]

\* "edit" to "discardAlert" are the edit view and what covers it.
EditScreen == {"edit", "chooser", "discardAlert"}
Screen == EditScreen \cup {"map", "deleteAlert", "deleteAllAlert",
                           "settings", "tutorial", "crashed"}

VARIABLES
    realm,          \* the PinItem rows of each coordinate, oldest first
    onMap,          \* the CustomAnnotations of mapView at each coordinate
    marker,         \* where annotation, the one shared marker, is shown
    selected,       \* the annotation whose callout is open
    screen,         \* what takes the user's touches
    pincoordinate,  \* the coordinate Create and deletePin work on
    pintitle,       \* the title the detail panel shows and modifyPlace edits
    pinimage,       \* the image of the pin that was tapped last
    isExistingPin,  \* the edit view was opened by modifyPlace
    text,           \* editview.textField.text
    createEnabled,  \* editview.createBtn.isEnabled
    pinColor,       \* UserSetting.pinColor, the image of the edit view
    panels,         \* the sliding panels, a PanelState
    searches        \* MKLocalSearches that have not answered

store == <<realm, onMap>>
pin == <<pincoordinate, pintitle, pinimage>>
form == <<isExistingPin, text, createEnabled, pinColor>>
vars == <<realm, onMap, marker, selected, screen, pincoordinate, pintitle,
          pinimage, isExistingPin, text, createEnabled, pinColor, panels, searches>>

TypeOK ==
    /\ realm \in [Coordinate -> Seq(Pin)]
    /\ onMap \in [Coordinate -> Seq(Pin)]
    /\ marker \in Place \cup {OffMap}
    /\ selected \in Selectable
    /\ screen \in Screen
    /\ pincoordinate \in Coordinate
    /\ pintitle \in Text
    /\ pinimage \in Picture
    /\ isExistingPin \in BOOLEAN
    /\ text \in Text
    /\ createEnabled \in BOOLEAN
    /\ pinColor \in Picture
    /\ panels \in PanelState
    /\ searches \in 0 .. MaxSearches

NoRows == [c \in Coordinate |-> <<>>]

Init ==
    /\ realm = NoRows
    /\ onMap = NoRows
    /\ marker = OffMap
    /\ selected = Nothing
    /\ screen = "map"
    /\ pincoordinate = Origin
    /\ pintitle = NoTitle
    /\ pinimage = NoImage
    /\ isExistingPin = FALSE
    /\ text = NoTitle
    /\ createEnabled = TRUE
    /\ pinColor = DefaultImage
    /\ panels = NoPanels
    /\ searches = 0

\* MapKit calls its delegate whatever covers the map.
MapLoaded == screen \notin {"tutorial", "crashed"}

-----------------------------------------------------------------------------
(* Touches on the map and calls of MapKit                                  *)

\* The one marker jumps to the finger and becomes the place to work on; the
\* panels stay.
MapLongPressed(c) ==
    /\ screen = "map"
    /\ marker' = c
    /\ pincoordinate' = c
    /\ UNCHANGED <<store, selected, screen, pintitle, pinimage, form, panels, searches>>

\* Flawed: the coordinate is left to viewFor.
DidSelectKeepsCoordinate(a, c) ==
    /\ screen = "map"
    /\ selected # a
    /\ selected' = a
    /\ panels' = HideBoth(panels)
    /\ UNCHANGED pincoordinate

\* didSelect for an annotation of the map at coordinate c.
DidSelect(a, c) ==
    /\ screen = "map"
    /\ selected # a
    /\ selected' = a
    /\ panels' = HideBoth(panels)
    /\ pincoordinate' = c

\* Flawed: the image is left as it was, as setupCustomView leaves it.
DidSelectPinKeepsImage(c) ==
    /\ onMap[c] # <<>>
    /\ DidSelect(PinAt(c), c)
    /\ pintitle' = Head(realm[c]).title
    /\ UNCHANGED <<store, marker, screen, pinimage, form, searches>>

\* A pin: its row is looked up by coordinate and unwrapped by force.
DidSelectPin(c) ==
    /\ onMap[c] # <<>>
    /\ DidSelect(PinAt(c), c)
    /\ IF realm[c] = <<>>
       THEN /\ screen' = "crashed"
            /\ UNCHANGED <<pintitle, pinimage>>
       ELSE /\ pintitle' = Head(realm[c]).title
            /\ pinimage' = Head(realm[c]).image
            /\ UNCHANGED screen
    /\ UNCHANGED <<store, marker, form, searches>>

DidSelectMarker ==
    /\ marker # OffMap
    /\ DidSelect(Marker, marker)
    /\ UNCHANGED <<store, marker, screen, pintitle, pinimage, form, searches>>

\* The dot that shows where the user is, at the time of the tap.
DidSelectUser(c) ==
    /\ DidSelect(UserDot, c)
    /\ UNCHANGED <<store, marker, screen, pintitle, pinimage, form, searches>>

\* A touch on the empty map closes the callout; no code hears of it.
Deselect ==
    /\ screen = "map"
    /\ selected # Nothing
    /\ selected' = Nothing
    /\ UNCHANGED <<store, marker, screen, pin, form, panels, searches>>

\* MapKit asks for the view of a pin: when it was added, and again whenever
\* it scrolls into the visible region.  Views have no reuse identifier, so
\* each call runs setupCustomView, which overwrites the title and the
\* coordinate to work on, but not the image.
ViewForPin(c) ==
    /\ MapLoaded
    /\ \E i \in DOMAIN onMap[c] : pintitle' = onMap[c][i].title
    /\ pincoordinate' = c
    /\ UNCHANGED <<store, marker, selected, screen, pinimage, form, panels, searches>>

ViewForMarker ==
    /\ MapLoaded
    /\ marker # OffMap
    /\ pincoordinate' = marker
    /\ UNCHANGED <<store, marker, selected, screen, pintitle, pinimage, form, panels, searches>>

-----------------------------------------------------------------------------
(* The search bar, as far as the map screen's other state goes             *)

SearchMap ==
    /\ screen = "map"
    /\ searches < MaxSearches
    /\ searches' = searches + 1
    /\ UNCHANGED <<store, marker, selected, screen, pin, form, panels>>

\* The answer moves the marker, whatever is on the screen by then.
SearchDone(c) ==
    /\ MapLoaded
    /\ searches > 0
    /\ searches' = searches - 1
    /\ marker' = c
    /\ UNCHANGED <<store, selected, screen, pin, form, panels>>

SearchFailed ==
    /\ MapLoaded
    /\ searches > 0
    /\ searches' = searches - 1
    /\ UNCHANGED <<store, marker, selected, screen, pin, form, panels>>

\* The completer has answered: reloadData asks numberOfSections, which hides
\* both panels.
ReloadTable ==
    /\ MapLoaded
    /\ panels' = HideBoth(panels)
    /\ UNCHANGED <<store, marker, selected, screen, pin, form, searches>>

-----------------------------------------------------------------------------
(* The edit view                                                           *)

\* Flawed: the create button is left as it was.
ShowEditViewEnabled(title, existing) ==
    /\ screen' = "edit"
    /\ text' = title
    /\ isExistingPin' = existing
    /\ pinColor' = IF existing THEN pinimage ELSE pinColor
    /\ panels' = HideBoth(panels)
    /\ UNCHANGED <<store, marker, selected, pin, createEnabled, searches>>

\* Flawed: the panels stay below the edit view.
ShowEditViewOverPanels(title, existing) ==
    /\ screen' = "edit"
    /\ text' = title
    /\ isExistingPin' = existing
    /\ pinColor' = IF existing THEN pinimage ELSE pinColor
    /\ createEnabled' = (createEnabled /\ title # NoTitle)
    /\ UNCHANGED <<store, marker, selected, pin, panels, searches>>

\* showEditView: the create button is disabled for an empty title and left
\* as it is otherwise.
ShowEditView(title, existing) ==
    /\ screen' = "edit"
    /\ text' = title
    /\ isExistingPin' = existing
    /\ pinColor' = IF existing THEN pinimage ELSE pinColor
    /\ createEnabled' = (createEnabled /\ title # NoTitle)
    /\ panels' = HideBoth(panels)
    /\ UNCHANGED <<store, marker, selected, pin, searches>>

\* The plus button in the callout of the marker or of the user's dot.
PlusTapped ==
    /\ screen = "map"
    /\ selected \in {Marker, UserDot}
    /\ ShowEditView(text, isExistingPin)

\* The modify button of a detail panel.
ModifyPlace ==
    /\ screen = "map"
    /\ HasDetailButtons(panels)
    /\ ShowEditView(pintitle, TRUE)

\* The user types: textFieldEditingChanged.
EditTitle(t) ==
    /\ screen = "edit"
    /\ t # text
    /\ text' = t
    /\ createEnabled' = (t # NoTitle)
    /\ UNCHANGED <<store, marker, selected, screen, pin, isExistingPin, pinColor, panels, searches>>

SelectPin ==
    /\ screen = "edit"
    /\ screen' = "chooser"
    /\ UNCHANGED <<store, marker, selected, pin, form, panels, searches>>

ChoosePinImage(i) ==
    /\ screen = "chooser"
    /\ pinColor # i
    /\ pinColor' = i
    /\ UNCHANGED <<store, marker, selected, screen, pin, isExistingPin, text,
                   createEnabled, panels, searches>>

\* The chooser's button has a second target, a ViewController that is gone
\* by then: changePin runs on the ViewController of the screen or not at all.
CloseChooser ==
    /\ screen = "chooser"
    /\ screen' = "edit"
    /\ createEnabled' \in {createEnabled, createEnabled /\ text # NoTitle}
    /\ UNCHANGED <<store, marker, selected, pin, isExistingPin, text, pinColor, panels, searches>>

\* Flawed: the next pin is taken for a change of the last one.
InitEditViewStaysExisting ==
    /\ screen' = "map"
    /\ text' = NoTitle
    /\ pinColor' = DefaultImage
    /\ UNCHANGED <<isExistingPin, createEnabled>>

\* initEditView: the form is emptied, the button is not touched.
InitEditView ==
    /\ screen' = "map"
    /\ isExistingPin' = FALSE
    /\ text' = NoTitle
    /\ pinColor' = DefaultImage
    /\ UNCHANGED createEnabled

\* MapKit closes the callout of an annotation that leaves the map.
SelectedAfterRemoving(removed) ==
    IF selected \in removed THEN Nothing ELSE selected

\* Flawed: while the marker is shown the pin goes to where the marker is.
CreateAtMarker ==
    /\ screen = "edit"
    /\ createEnabled
    /\ LET new == [title |-> text, image |-> pinColor]
           at == IF marker = OffMap THEN pincoordinate ELSE marker
       IN  /\ onMap' = [onMap EXCEPT ![at] = <<new>>]
           /\ realm' = [realm EXCEPT ![at] = <<new>>]
           /\ selected' = SelectedAfterRemoving({Marker, PinAt(at)})
    /\ marker' = OffMap
    /\ InitEditView
    /\ UNCHANGED <<pin, panels, searches>>

\* The create button: on the map every annotation at the coordinate goes, in
\* the database the first row at it goes; the new pin takes their place.
Create ==
    /\ screen = "edit"
    /\ createEnabled
    /\ LET new == [title |-> text, image |-> pinColor]
           rest == IF realm[pincoordinate] = <<>> THEN <<>> ELSE Tail(realm[pincoordinate])
       IN  /\ onMap' = [onMap EXCEPT ![pincoordinate] = <<new>>]
           /\ realm' = [realm EXCEPT ![pincoordinate] = Append(rest, new)]
    /\ marker' = OffMap
    /\ selected' = SelectedAfterRemoving({Marker, PinAt(pincoordinate)})
    /\ InitEditView
    /\ UNCHANGED <<pin, panels, searches>>

\* The cross of the edit view: with a title in the form it asks first.
HideEditView ==
    /\ screen = "edit"
    /\ IF text # NoTitle
       THEN screen' = "discardAlert" /\ UNCHANGED form
       ELSE InitEditView
    /\ UNCHANGED <<store, marker, selected, pin, panels, searches>>

ConfirmDiscard ==
    /\ screen = "discardAlert"
    /\ InitEditView
    /\ UNCHANGED <<store, marker, selected, pin, panels, searches>>

CancelDiscard ==
    /\ screen = "discardAlert"
    /\ screen' = "edit"
    /\ UNCHANGED <<store, marker, selected, pin, form, panels, searches>>

-----------------------------------------------------------------------------
(* The panels and the two ways to delete                                   *)

\* The detail button in the callout of a pin.
DetailOpen ==
    /\ screen = "map"
    /\ selected.kind = "pin"
    /\ panels' = ShowDetail(panels)
    /\ UNCHANGED <<store, marker, selected, screen, pin, form, searches>>

DeletePins ==
    /\ screen = "map"
    /\ ~ panels.deleting
    /\ panels' = ShowDeleting(panels)
    /\ UNCHANGED <<store, marker, selected, screen, pin, form, searches>>

HideDeletingPanel ==
    /\ screen = "map"
    /\ panels.closer = "deleting"
    /\ panels' = HideDeleting(panels)
    /\ UNCHANGED <<store, marker, selected, screen, pin, form, searches>>

\* Also the action of a cross that an earlier detail panel left behind.
HideDetailPanel ==
    /\ screen = "map"
    /\ panels.closer = "detail" \/ panels.orphan
    /\ panels' = HideDetail(panels)
    /\ UNCHANGED <<store, marker, selected, screen, pin, form, searches>>

DeletePin ==
    /\ screen = "map"
    /\ HasDetailButtons(panels)
    /\ screen' = "deleteAlert"
    /\ UNCHANGED <<store, marker, selected, pin, form, panels, searches>>

\* Flawed: the row is deleted, the annotation stays.
ConfirmDeleteRowOnly ==
    /\ screen = "deleteAlert"
    /\ screen' = "map"
    /\ panels' = HideDetail(panels)
    /\ realm' = [realm EXCEPT ![pincoordinate] = <<>>]
    /\ UNCHANGED <<onMap, marker, selected, pin, form, searches>>

\* Whatever pincoordinate is by now: annotations and rows at it go.
ConfirmDelete ==
    /\ screen = "deleteAlert"
    /\ screen' = "map"
    /\ panels' = HideDetail(panels)
    /\ onMap' = [onMap EXCEPT ![pincoordinate] = <<>>]
    /\ realm' = [realm EXCEPT ![pincoordinate] = <<>>]
    /\ IF marker = pincoordinate
       THEN /\ marker' = OffMap
            /\ selected' = SelectedAfterRemoving({Marker, PinAt(pincoordinate)})
       ELSE /\ selected' = SelectedAfterRemoving({PinAt(pincoordinate)})
            /\ UNCHANGED marker
    /\ UNCHANGED <<pin, form, searches>>

DeleteAllPins ==
    /\ screen = "map"
    /\ panels.deleting
    /\ screen' = "deleteAllAlert"
    /\ UNCHANGED <<store, marker, selected, pin, form, panels, searches>>

\* MapKit keeps the user's dot when all annotations are removed.
ConfirmDeleteAll ==
    /\ screen = "deleteAllAlert"
    /\ screen' = "map"
    /\ panels' = HideDeleting(panels)
    /\ realm' = NoRows
    /\ onMap' = NoRows
    /\ marker' = OffMap
    /\ selected' = IF selected = UserDot THEN selected ELSE Nothing
    /\ UNCHANGED <<pin, form, searches>>

CancelAlert ==
    /\ screen \in {"deleteAlert", "deleteAllAlert"}
    /\ screen' = "map"
    /\ UNCHANGED <<store, marker, selected, pin, form, panels, searches>>

-----------------------------------------------------------------------------
(* Leaving the map: settings, tutorial, a new launch                       *)

ShowSettingView ==
    /\ screen = "map"
    /\ screen' = "settings"
    /\ UNCHANGED <<store, marker, selected, pin, form, panels, searches>>

HideSettingView ==
    /\ screen = "settings"
    /\ screen' = "map"
    /\ UNCHANGED <<store, marker, selected, pin, form, panels, searches>>

\* viewDidLoad on an empty map: a row becomes an annotation.
ViewDidLoad ==
    /\ screen' = "map"
    /\ onMap' = realm
    /\ marker' = OffMap
    /\ selected' = Nothing
    /\ panels' = NoPanels

\* Flawed: the pins of before stay on the map.
ChangeSettingKeepsAnnotations ==
    /\ screen = "settings"
    /\ screen' = "map"
    /\ onMap' = [c \in Coordinate |-> onMap[c] \o realm[c]]
    /\ panels' = NoPanels
    /\ text' = NoTitle
    /\ createEnabled' = TRUE
    /\ UNCHANGED <<realm, marker, selected, pin, isExistingPin, pinColor, searches>>

\* The view is loaded again and there is a new EditView, in the same object.
ChangeSetting ==
    /\ screen = "settings"
    /\ ViewDidLoad
    /\ text' = NoTitle
    /\ createEnabled' = TRUE
    /\ UNCHANGED <<realm, pin, isExistingPin, pinColor, searches>>

Tutorial ==
    /\ screen = "map"
    /\ screen' = "tutorial"
    /\ UNCHANGED <<store, marker, selected, pin, form, panels, searches>>

\* A ViewController that was just made has its properties' initial values.
NewViewController ==
    /\ ViewDidLoad
    /\ pincoordinate' = Origin
    /\ pintitle' = NoTitle
    /\ pinimage' = NoImage
    /\ isExistingPin' = FALSE
    /\ text' = NoTitle
    /\ createEnabled' = TRUE
    /\ searches' = 0
    /\ UNCHANGED realm

\* The goBack segue presents a new ViewController; the old one stays below
\* and is never seen again.
BackToMap ==
    /\ screen = "tutorial"
    /\ NewViewController
    /\ UNCHANGED pinColor

\* The application is killed, at any moment, and launched again.
Relaunch ==
    /\ NewViewController
    /\ pinColor' = DefaultImage

-----------------------------------------------------------------------------

MapStep ==
    \/ \E c \in Place : MapLongPressed(c)
    \/ \E c \in Coordinate : DidSelectPin(c)
    \/ DidSelectMarker
    \/ \E c \in Place : DidSelectUser(c)
    \/ Deselect
    \/ \E c \in Coordinate : ViewForPin(c)
    \/ ViewForMarker

SearchStep ==
    \/ SearchMap
    \/ \E c \in Place : SearchDone(c)
    \/ SearchFailed
    \/ ReloadTable

EditStep ==
    \/ PlusTapped
    \/ ModifyPlace
    \/ \E t \in Text : EditTitle(t)
    \/ SelectPin
    \/ \E i \in Image : ChoosePinImage(i)
    \/ CloseChooser
    \/ Create
    \/ HideEditView
    \/ ConfirmDiscard
    \/ CancelDiscard

PanelStep ==
    \/ DetailOpen
    \/ DeletePins
    \/ HideDeletingPanel
    \/ HideDetailPanel
    \/ DeletePin
    \/ ConfirmDelete
    \/ DeleteAllPins
    \/ ConfirmDeleteAll
    \/ CancelAlert

LeaveStep ==
    \/ ShowSettingView
    \/ HideSettingView
    \/ ChangeSetting
    \/ Tutorial
    \/ BackToMap
    \/ Relaunch

Next == MapStep \/ SearchStep \/ EditStep \/ PanelStep \/ LeaveStep

Spec == Init /\ [][Next]_vars

-----------------------------------------------------------------------------
(* What must hold                                                          *)

\* The map shows exactly the pins of the database, in every order of edits,
\* deletions and reloads: Create, deletePin, deleteAllPins and viewDidLoad
\* write the two one after the other.
MapShowsRealm == onMap = realm

\* A place has at most one row, although Create deletes only the first row
\* it finds at the coordinate before it adds one.
OnePinPerPlace == \A c \in Coordinate : Len(realm[c]) <= 1

\* No pin without a title is ever saved, although only the create button's
\* isEnabled, which four handlers write, stands between an empty field and
\* the database.
NoUntitledPin ==
    \A c \in Coordinate : \A i \in DOMAIN realm[c] : realm[c][i].title # NoTitle

\* No pin is saved with an image that the chooser does not offer; pinimage,
\* which the edit view of an existing pin starts from, is first written when
\* a pin is tapped.
NoImagelessPin ==
    \A c \in Coordinate : \A i \in DOMAIN realm[c] : realm[c][i].image \in Image

\* No pin is saved at the coordinate (0, 0) that pincoordinate has before
\* any annotation was touched.
NothingSavedAtOrigin == realm[Origin] = <<>>

\* The force unwrap of the tapped pin's row in didSelect never traps.
NoTrap == screen # "crashed"

\* Whatever way the edit view was left (saved, discarded, by a reload or by
\* a kill), the next pin starts from an empty form, the default image and
\* not as the change of an existing pin.
EditFormIsReset ==
    screen \notin EditScreen =>
        text = NoTitle /\ pinColor = DefaultImage /\ ~ isExistingPin

\* The two sliding panels, which share their closing button, are never on
\* the screen together.
OnePanelAtATime == ~ (panels.deleting /\ panels.detail)

\* The detail panel on the screen can always be closed: the button that
\* hidePanelBtn refers to is its cross.
DetailCanBeClosed == panels.detail => panels.closer = "detail"

\* The pins as PinBook sees them.
SavedPin == [title : Title, image : Image]
NoPin == [title |-> NoTitle, image |-> NoImage]
First(rows) == IF rows = <<>> THEN NoPin ELSE Head(rows)

Book ==
    INSTANCE PinBook WITH
        Pin <- SavedPin,
        NoPin <- NoPin,
        book <- [c \in Place |-> First(realm[c])],
        shown <- [c \in Place |-> First(onMap[c])]

\* The map screen implements the book of pins: only saving and the two ways
\* to delete change what is stored or shown, both at once, one place or all.
ImplementsPinBook == Book!Spec

-----------------------------------------------------------------------------
(* The inductive invariant                                                 *)

\* An annotation or a button that leads to pincoordinate is on the screen
\* only after some annotation was touched.
PlaceIsChosen ==
    (selected.kind # "none" \/ HasDetailButtons(panels)
        \/ screen \in EditScreen \cup {"deleteAlert"})
      => pincoordinate \in Place

\* A pin is selected, or a detail panel on the screen, only after some pin
\* was tapped.
PinWasTapped ==
    (selected.kind = "pin" \/ HasDetailButtons(panels)) =>
        pinimage \in Image /\ pintitle \in Title

\* The alert for deleting all pins was opened from the deleting panel.
NoDetailUnderDeleteAll == screen = "deleteAllAlert" => ~ panels.detail

\* The enabled create button of an open edit view vouches for a title.
EnabledMeansTitled ==
    screen \in EditScreen /\ createEnabled => text # NoTitle

\* The edit view offers the image of a pin or one that was chosen.
PinColorIsImage == pinColor \in Image

\* The rows of a coordinate: none, or one whole pin.
RowsSettled ==
    \A c \in Coordinate : realm[c] = <<>> \/ \E p \in SavedPin : realm[c] = <<p>>

Inv ==
    /\ TypeOK
    /\ MapShowsRealm
    /\ RowsSettled
    /\ NothingSavedAtOrigin
    /\ NoTrap
    /\ EditFormIsReset
    /\ OnePanelAtATime
    /\ DetailCanBeClosed
    /\ PlaceIsChosen
    /\ PinWasTapped
    /\ NoDetailUnderDeleteAll
    /\ EnabledMeansTitled
    /\ PinColorIsImage

=============================================================================
