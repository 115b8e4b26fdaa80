------------------------------- MODULE Panels -------------------------------
(***************************************************************************)
(* The two panels that slide over the map of ViewController: panel1, the   *)
(* "delete pins" panel at the top, and panel2, the detail panel of a pin   *)
(* at the bottom.  Both are closed by a cross button, and both keep it in  *)
(* the same property, hidePanelBtn; a panel or a cross that is replaced    *)
(* while it is on the screen stays there, with its actions, and nothing    *)
(* refers to it any more.  A frame is abstracted to "on screen" or not:    *)
(* the code tests frames only for that.  The layer's frame is final as     *)
(* soon as an animation starts, so an animated move is one step.           *)
(*                                                                         *)
(* A record of PanelState has                                              *)
(*   deleting   panel1 is on screen; deletePinsBtn is disabled exactly then*)
(*   detail     panel2 is on screen                                        *)
(*   closer     the panel whose cross is hidePanelBtn, if that cross is on *)
(*              screen                                                     *)
(*   stale      a detail panel that panel2 no longer refers to is on screen*)
(*   orphan     a cross of a detail panel that hidePanelBtn no longer      *)
(*              refers to is on screen                                     *)
(***************************************************************************)

PanelState ==
    [deleting : BOOLEAN, detail : BOOLEAN,
     closer : {"none", "deleting", "detail"}, stale : BOOLEAN, orphan : BOOLEAN]

\* A view that was just loaded.
NoPanels ==
    [deleting |-> FALSE, detail |-> FALSE, closer |-> "none",
     stale |-> FALSE, orphan |-> FALSE]

\* hideDeletingPanel moves panel1 and whatever hidePanelBtn refers to away.
HideDeleting(p) == [p EXCEPT !.deleting = FALSE, !.closer = "none"]

\* hideDetailPanel does the same with panel2.
HideDetail(p) == [p EXCEPT !.detail = FALSE, !.closer = "none"]

\* The handlers that call both of them, in either order.
HideBoth(p) == [p EXCEPT !.deleting = FALSE, !.detail = FALSE, !.closer = "none"]

\* deletePins takes the detail panel and its two buttons off the view, but
\* not its cross, and gives hidePanelBtn a new one.
ShowDeleting(p) ==
    [p EXCEPT !.deleting = TRUE, !.detail = FALSE, !.closer = "deleting",
              !.orphan = @ \/ p.closer # "none"]

\* Flawed: the deleting panel is hidden after the new cross was assigned.
ShowDetailThenHide(p) ==
    [deleting |-> FALSE, detail |-> TRUE,
     closer |-> IF p.deleting THEN "none" ELSE "detail",
     stale |-> p.stale \/ p.detail,
     orphan |-> p.orphan \/ p.closer # "none"]

\* detailOpen hides the deleting panel, and with it the cross that was
\* there.  Its test for a previous detail panel compares the height with half
\* of the screen's WIDTH, which no panel has: a previous panel stays where it
\* is, and so does its cross.
ShowDetail(p) ==
    [deleting |-> FALSE, detail |-> TRUE, closer |-> "detail",
     stale |-> p.stale \/ p.detail,
     orphan |-> p.orphan \/ (~ p.deleting /\ p.closer # "none")]

\* Some detail panel's delete and modify buttons can be pressed.
HasDetailButtons(p) == p.detail \/ p.stale

=============================================================================
