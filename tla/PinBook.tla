------------------------------ MODULE PinBook ------------------------------
(***************************************************************************)
(* What the application promises its user about pins: a book that holds at *)
(* most one titled pin for each place, and a map that always shows exactly *)
(* the pins of the book.  Only three things change it: saving the edit     *)
(* form, deleting one pin and deleting them all.  Selecting, searching,    *)
(* panels, settings, the tutorial and a killed and relaunched application  *)
(* leave it alone.  MapScreen is shown to implement this module.           *)
(***************************************************************************)

CONSTANTS
    Place,  \* the coordinates a pin can be put at
    Pin,    \* the pins: a title (never empty) and an image
    NoPin   \* stands for the absence of a pin

VARIABLES
    book,   \* the stored pin of each place: the rows of the database
    shown   \* the pin the map shows at each place

vars == <<book, shown>>

Empty == [c \in Place |-> NoPin]

Init == book = Empty /\ shown = Empty

\* The edit form is saved: the new pin replaces whatever the place had.
Save(c, p) ==
    /\ book' = [book EXCEPT ![c] = p]
    /\ shown' = book'

\* One pin is deleted.
Erase(c) ==
    /\ book' = [book EXCEPT ![c] = NoPin]
    /\ shown' = book'

\* All pins are deleted.
Clear ==
    /\ book' = Empty
    /\ shown' = book'

Next ==
    \/ \E c \in Place, p \in Pin : Save(c, p)
    \/ \E c \in Place : Erase(c)
    \/ Clear

Spec == Init /\ [][Next]_vars

=============================================================================
