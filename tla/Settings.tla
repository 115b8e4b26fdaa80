------------------------------ MODULE Settings ------------------------------
(***************************************************************************)
(* The theme: three colours and the image of the user's dot.  They live in *)
(* three places: the database, the statics of UserSetting and the buttons  *)
(* of the SettingView that each ViewController makes for itself.           *)
(* changeSetting writes the database in five transactions; the process can *)
(* be killed between two of them, and the next launch reads what is there. *)
(*                                                                         *)
(* A colour is whatever the palette or the three sliders can make; it is   *)
(* stored as three numbers of seven digits and read as Float, which        *)
(* Rounded stands for.                                                     *)
(***************************************************************************)
EXTENDS Naturals, Sequences

CONSTANTS
    Color,         \* the colours
    Rounded,       \* what a colour is after it was stored and read again
    DefaultTheme,  \* the three colours of a first launch
    PinName,       \* "hitoB.png", "hitoY.png" and "hitoP.png"
    DefaultPin,    \* "hitoB.png"
    Unset          \* UIColor(), which has no cgColor

Slot == 1 .. 3

ASSUME ThemeConstants ==
    /\ DefaultTheme \in [Slot -> Color]
    /\ DefaultPin \in PinName
    /\ Unset \notin Color

\* Storing what was read back stores the same digits.
ASSUME RoundedOnce ==
    /\ Rounded \in [Color -> Color]
    /\ \A c \in Color : Rounded[Rounded[c]] = Rounded[c]

VARIABLES
    themeRows,       \* the ThemeColor rows
    pinRows,         \* the UserPin rows
    theme,           \* UserSetting.color1, color2 and color3
    pinImage,        \* UserSetting.pinImage
    buttons,         \* the colours of btn1, btn2 and btn3 of the SettingView
    selectedButton,  \* which of them the palette changes
    selectedPin,     \* SettingView.selectedPin
    saved,           \* the colours that changeSetting's loop has stored
    status           \* where the application is, see Status

database == <<themeRows, pinRows>>
statics == <<theme, pinImage>>
view == <<buttons, selectedButton, selectedPin>>
vars == <<themeRows, pinRows, theme, pinImage, buttons, selectedButton, selectedPin, saved, status>>

\* The three statuses between open and closed are inside of changeSetting;
\* trapped is a launch that ended in a runtime error.
Saving == {"clearing", "adding", "naming"}
Status == Saving \cup {"closed", "open", "killed", "trapped"}

TypeOK ==
    /\ themeRows \in Seq(Color)
    /\ pinRows \in Seq(PinName)
    /\ theme \in [Slot -> Color \cup {Unset}]
    /\ pinImage \in PinName
    /\ buttons \in [Slot -> Color \cup {Unset}]
    /\ selectedButton \in Slot
    /\ selectedPin \in PinName
    /\ saved \in 0 .. 3
    /\ status \in Status

Init ==
    /\ themeRows = <<>>
    /\ pinRows = <<>>
    /\ theme = DefaultTheme
    /\ pinImage = DefaultPin
    /\ buttons = DefaultTheme
    /\ selectedButton = 1
    /\ selectedPin = DefaultPin
    /\ saved = 0
    /\ status = "closed"

-----------------------------------------------------------------------------
(* The panel                                                               *)

ShowSettingView ==
    /\ status = "closed"
    /\ status' = "open"
    /\ UNCHANGED <<database, statics, view, saved>>

PinBtnSelected(p) ==
    /\ status = "open"
    /\ selectedPin # p
    /\ selectedPin' = p
    /\ UNCHANGED <<database, statics, buttons, selectedButton, saved, status>>

ColorBtnSelected(i) ==
    /\ status = "open"
    /\ selectedButton # i
    /\ selectedButton' = i
    /\ UNCHANGED <<database, statics, buttons, selectedPin, saved, status>>

\* The palette or the sliders.
ChangeColor(c) ==
    /\ status = "open"
    /\ buttons[selectedButton] # c
    /\ buttons' = [buttons EXCEPT ![selectedButton] = c]
    /\ UNCHANGED <<database, statics, selectedButton, selectedPin, saved, status>>

\* The cancel button only slides the panel away.
HideSettingView ==
    /\ status = "open"
    /\ status' = "closed"
    /\ UNCHANGED <<database, statics, view, saved>>

\* A ViewController made when the tutorial ends has a SettingView made from
\* the statics.
NewSettingView(colors, name) ==
    /\ buttons' = colors
    /\ selectedButton' = 1
    /\ selectedPin' = name

BackToMap ==
    /\ status = "closed"
    /\ NewSettingView(theme, pinImage)
    /\ UNCHANGED <<database, statics, saved, status>>

-----------------------------------------------------------------------------
(* changeSetting, one transaction at a time                                *)

ChangeSetting ==
    /\ status = "open"
    /\ theme' = buttons
    /\ status' = "clearing"
    /\ UNCHANGED <<database, pinImage, view, saved>>

\* Flawed: the rows of before stay.
ClearThemeNot ==
    /\ status = "clearing"
    /\ status' = "adding"
    /\ saved' = 0
    /\ UNCHANGED <<database, statics, view>>

ClearTheme ==
    /\ status = "clearing"
    /\ themeRows' = <<>>
    /\ status' = "adding"
    /\ saved' = 0
    /\ UNCHANGED <<pinRows, statics, view>>

\* Flawed: the loop ends one colour early.
AddColorTwice ==
    /\ status = "adding"
    /\ themeRows' = Append(themeRows, Rounded[theme[saved + 1]])
    /\ saved' = saved + 1
    /\ status' = IF saved = 1 THEN "naming" ELSE "adding"
    /\ UNCHANGED <<pinRows, statics, view>>

\* The loop over the three colours: one row and one transaction each.
AddColor ==
    /\ status = "adding"
    /\ themeRows' = Append(themeRows, Rounded[theme[saved + 1]])
    /\ saved' = saved + 1
    /\ status' = IF saved = 2 THEN "naming" ELSE "adding"
    /\ UNCHANGED <<pinRows, statics, view>>

\* Flawed: the old name stays, and it is the one that first finds.
SaveUserPinAppends ==
    /\ status = "naming"
    /\ pinImage' = selectedPin
    /\ pinRows' = Append(pinRows, selectedPin)
    /\ status' = "closed"
    /\ UNCHANGED <<themeRows, theme, view, saved>>

\* The old name goes and the new one comes in one transaction; then the view
\* is loaded again, with the same SettingView.
SaveUserPin ==
    /\ status = "naming"
    /\ pinImage' = selectedPin
    /\ pinRows' = <<selectedPin>>
    /\ status' = "closed"
    /\ UNCHANGED <<themeRows, theme, view, saved>>

-----------------------------------------------------------------------------
(* The process                                                             *)

\* Killed by the user or by the system, between any two transactions.
Kill ==
    /\ status # "killed"
    /\ status' = "killed"
    /\ UNCHANGED <<database, statics, view, saved>>

StoredTheme ==
    IF themeRows = <<>>
    THEN DefaultTheme
    ELSE [i \in Slot |-> IF i <= Len(themeRows) THEN themeRows[i] ELSE Unset]

StoredPin == IF pinRows = <<>> THEN DefaultPin ELSE Head(pinRows)

\* didFinishLaunching fills the statics, one slot for each row, and then the
\* first ViewController makes its SettingView, which asks the third colour
\* for its cgColor.  A fourth row has no slot.
Launch ==
    /\ status = "killed"
    /\ IF Len(themeRows) > 3
       THEN status' = "trapped" /\ UNCHANGED <<statics, view>>
       ELSE /\ theme' = StoredTheme
            /\ pinImage' = StoredPin
            /\ NewSettingView(StoredTheme, StoredPin)
            /\ status' = IF StoredTheme[3] = Unset THEN "trapped" ELSE "closed"
    /\ UNCHANGED <<database, saved>>

PanelStep ==
    \/ ShowSettingView
    \/ \E p \in PinName : PinBtnSelected(p)
    \/ \E i \in Slot : ColorBtnSelected(i)
    \/ \E c \in Color : ChangeColor(c)
    \/ HideSettingView
    \/ BackToMap

SaveStep == ChangeSetting \/ ClearTheme \/ AddColor \/ SaveUserPin

ProcessStep == Kill \/ Launch

Next == PanelStep \/ SaveStep \/ ProcessStep

Spec == Init /\ [][Next]_vars

-----------------------------------------------------------------------------
(* What must hold                                                          *)

Stored(colors) == [i \in Slot |-> Rounded[colors[i]]]

\* While no save is under way the database holds the theme that the
\* application shows, up to the digits a row keeps, or nothing and the
\* application shows the default: another launch shows the same.
ThemeIsStored ==
    status \in {"closed", "open"} =>
        /\ \/ themeRows = <<>> /\ theme = DefaultTheme
           \/ themeRows = Stored(theme)
        /\ pinImage = StoredPin

\* However often saves are cut off, launches repeated and saves started
\* again, there is no fourth colour for which a launch has no slot.
AtMostThreeColors == Len(themeRows) <= 3

\* When the last of the five transactions is done, the database holds what
\* the panel showed when the button was pressed.
SaveStoresThePanel ==
    [][SaveUserPin =>
           /\ themeRows' = Stored(buttons)
           /\ StoredPin' = selectedPin]_vars

\* ViewController.swift:371 says of the loop: "save the new colours".  The
\* next launch finds colours it can use, whenever the process was killed.
LaunchNeverTraps == status # "trapped"

\* SettingView.swift:154 calls the button "cancel": what was chosen since the
\* panel opened is not there the next time.
CancelForgetsTheChoice ==
    [][HideSettingView => buttons' = theme /\ selectedPin' = pinImage]_vars

-----------------------------------------------------------------------------
(* The inductive invariant                                                 *)

\* A running application has three colours.
ColorsAreSet ==
    status \notin {"killed", "trapped"} =>
        theme \in [Slot -> Color] /\ buttons \in [Slot -> Color]

\* How far changeSetting has come.
SaveProgress ==
    /\ status \in Saving => theme = buttons
    /\ status = "adding" =>
           saved \in 0 .. 2 /\ themeRows = [i \in 1 .. saved |-> Rounded[theme[i]]]
    /\ status = "naming" => themeRows = Stored(theme)

\* Every row holds digits that survive another round.
RowsAreRounded ==
    \A i \in DOMAIN themeRows : Rounded[themeRows[i]] = themeRows[i]

Inv ==
    /\ TypeOK
    /\ ThemeIsStored
    /\ AtMostThreeColors
    /\ ColorsAreSet
    /\ SaveProgress
    /\ RowsAreRounded

=============================================================================
