---------------------------- MODULE SearchTable ----------------------------
(***************************************************************************)
(* The search bar of ViewController and the table of candidates below it:  *)
(* first the saved pins whose title contains the text, then what the       *)
(* completer offers.  The pins are read while the user types, the results  *)
(* change when the completer answers, the number of rows is taken at each  *)
(* reload, a cell is filled when its row comes into view, and a selection  *)
(* reads all of them again by the number of the row.  An index that is out *)
(* of range ends the program.                                              *)
(*                                                                         *)
(* Rows are numbered from 0, as in the code.  Which saved pins contain a   *)
(* text is left open, the database may hold any pins by then.              *)
(*                                                                         *)
(* The table is a part of the ViewController, as Settings is; its Init,    *)
(* Next and Spec have names of their own, to be read beside that module's. *)
(***************************************************************************)
EXTENDS Naturals, Sequences

CONSTANTS
    Pin,         \* the saved pins
    Text,        \* texts of the search bar and titles of completions
    NoText,      \* the empty one
    MaxPins,     \* bound: saved pins that contain one text
    MaxResults,  \* bound: completions of one answer
    Window       \* rows of the table that fit on the screen

ASSUME SearchConstants ==
    /\ NoText \in Text
    /\ MaxPins \in Nat
    /\ MaxResults \in Nat
    /\ Window \in Nat \ {0}

VARIABLES
    bar,        \* searchBar.text
    query,      \* the completer: "answered", "waiting" or "failed"
    results,    \* searchCompleter.results
    pins,       \* Pins, the saved pins among the candidates
    pincount,   \* how many there were
    rows,       \* the rows the table has since it was last reloaded
    cells,      \* what the rows in view show
    visible,    \* the table, with its rows, is on the screen
    goal,       \* what the last search or selection led to
    trapped     \* an index was out of range

answer == <<query, results>>
found == <<pins, pincount>>
table == <<rows, cells, visible>>
searchVars == <<bar, query, results, pins, pincount, rows, cells, visible, goal, trapped>>

\* A candidate, as a row shows it or as a selection takes it: a saved pin or
\* a text to search for.
PinRow(p) == [kind |-> "pin", what |-> p]
TextRow(t) == [kind |-> "text", what |-> t]
Candidate == {PinRow(p) : p \in Pin} \cup {TextRow(t) : t \in Text}

NoGoal == [kind |-> "none"]

UpTo(n, S) == UNION {[1 .. k -> S] : k \in 0 .. n}

\* A query of the database finds each pin once.
FoundPins ==
    {s \in UpTo(MaxPins, Pin) : \A i, j \in DOMAIN s : s[i] = s[j] => i = j}

SearchTypeOK ==
    /\ bar \in Text
    /\ query \in {"answered", "waiting", "failed"}
    /\ results \in Seq(Text)
    /\ pins \in Seq(Pin)
    /\ pincount \in Nat
    /\ rows \in Nat
    /\ DOMAIN cells \subseteq 0 .. rows - 1
    /\ \A r \in DOMAIN cells : cells[r] \in Candidate
    /\ visible \in BOOLEAN
    /\ goal \in Candidate \cup {NoGoal}
    /\ trapped \in BOOLEAN

NoCells == [r \in {} |-> NoGoal]

SearchInit ==
    /\ bar = NoText
    /\ query = "answered"
    /\ results = <<>>
    /\ pins = <<>>
    /\ pincount = 0
    /\ rows = 0
    /\ cells = NoCells
    /\ visible = FALSE
    /\ goal = NoGoal
    /\ trapped = FALSE

-----------------------------------------------------------------------------
(* Filling cells                                                           *)

\* cellForRowAt: a row below pincount takes its pin, another one its result.
InRange(r, res) ==
    IF r < pincount THEN r < Len(pins) ELSE r - pincount < Len(res)

Cell(r, res) ==
    IF r < pincount THEN PinRow(pins[r + 1]) ELSE TextRow(res[r - pincount + 1])

\* The rows of an n-row table that are in view when row f is the first one.
InView(f, n) == {r \in 0 .. n - 1 : f <= r /\ r < f + Window}

-----------------------------------------------------------------------------
(* The search bar                                                          *)

\* shouldChangeTextIn: the completer and the database are asked for the text
\* that was there before the change; the table is not reloaded.
ChangeText(t, s) ==
    /\ t # bar
    /\ bar' = t
    /\ query' = "waiting"
    /\ pins' = s
    /\ pincount' = Len(s)
    /\ UNCHANGED <<results, table, goal, trapped>>

SearchButtonClicked ==
    /\ visible' = FALSE
    /\ goal' = TextRow(bar)
    /\ UNCHANGED <<bar, answer, found, rows, cells, trapped>>

\* The cancel button of the search bar, or the button below the table.
HideTable ==
    /\ visible
    /\ visible' = FALSE
    /\ UNCHANGED <<bar, answer, found, rows, cells, goal, trapped>>

-----------------------------------------------------------------------------
(* The completer and the table                                             *)

\* Flawed: the rows in view keep what they show.
CompleterDidUpdateResultsKeepsCells(res) ==
    /\ query = "waiting"
    /\ query' = "answered"
    /\ results' = res
    /\ rows' = Len(res) + pincount
    /\ LET new == InView(0, rows') \ DOMAIN cells
       IN  IF \A r \in new : InRange(r, res)
           THEN /\ cells' = [r \in InView(0, rows') |-> IF r \in new THEN Cell(r, res) ELSE cells[r]]
                /\ UNCHANGED trapped
           ELSE cells' = NoCells /\ trapped' = TRUE
    /\ visible' = (rows' > 0)
    /\ UNCHANGED <<bar, found, goal>>

\* completerDidUpdateResults reloads the table: the rows are counted, those
\* at the top are filled, and filling one shows the table.
CompleterDidUpdateResults(res) ==
    /\ query = "waiting"
    /\ query' = "answered"
    /\ results' = res
    /\ rows' = Len(res) + pincount
    /\ IF \A r \in InView(0, rows') : InRange(r, res)
       THEN /\ cells' = [r \in InView(0, rows') |-> Cell(r, res)]
            /\ UNCHANGED trapped
       ELSE cells' = NoCells /\ trapped' = TRUE
    /\ visible' = (rows' > 0)
    /\ UNCHANGED <<bar, found, goal>>

\* didFailWithError does nothing.
CompleterDidFail ==
    /\ query = "waiting"
    /\ query' = "failed"
    /\ UNCHANGED <<bar, results, found, table, goal, trapped>>

\* Scrolling fills the rows that come into view; the others keep what they
\* show.
Scroll(f) ==
    /\ visible
    /\ f + Window <= rows
    /\ LET new == InView(f, rows) \ DOMAIN cells
       IN  /\ new # {}
           /\ IF \A r \in new : InRange(r, results)
              THEN /\ cells' = [r \in InView(f, rows) |->
                                    IF r \in new THEN Cell(r, results) ELSE cells[r]]
                   /\ UNCHANGED trapped
              ELSE trapped' = TRUE /\ UNCHANGED cells
    /\ UNCHANGED <<bar, answer, found, rows, visible, goal>>

\* Flawed: the table stays on the screen.
SelectRowKeepsTable(r) ==
    /\ visible
    /\ r \in DOMAIN cells
    /\ IF r >= Len(results) \/ (r < pincount /\ r >= Len(pins))
       THEN /\ trapped' = TRUE
            /\ UNCHANGED <<bar, found, goal>>
       ELSE /\ bar' = results[r + 1]
            /\ goal' = IF r < pincount THEN PinRow(pins[r + 1]) ELSE TextRow(bar')
            /\ pins' = <<>>
            /\ UNCHANGED <<pincount, trapped>>
    /\ UNCHANGED <<answer, table>>

\* Flawed: the pins are taken to come after the results.
SelectRowPinsLast(r) ==
    /\ visible
    /\ r \in DOMAIN cells
    /\ visible' = FALSE
    /\ IF r >= Len(results) + Len(pins)
       THEN /\ trapped' = TRUE
            /\ UNCHANGED <<bar, found, goal>>
       ELSE /\ IF r < Len(results)
               THEN bar' = results[r + 1] /\ goal' = TextRow(bar')
               ELSE goal' = PinRow(pins[r - Len(results) + 1]) /\ UNCHANGED bar
            /\ pins' = <<>>
            /\ UNCHANGED <<pincount, trapped>>
    /\ UNCHANGED <<answer, rows, cells>>

\* didSelectRowAt: the text is that of the result with the number of the row,
\* whether pins come first or not; then the map moves to the row's pin, or
\* the text is searched for.  Pins is emptied, pincount is not.
SelectRow(r) ==
    /\ visible
    /\ r \in DOMAIN cells
    /\ visible' = FALSE
    /\ IF r >= Len(results) \/ (r < pincount /\ r >= Len(pins))
       THEN /\ trapped' = TRUE
            /\ UNCHANGED <<bar, found, goal>>
       ELSE /\ bar' = results[r + 1]
            /\ goal' = IF r < pincount THEN PinRow(pins[r + 1]) ELSE TextRow(bar')
            /\ pins' = <<>>
            /\ UNCHANGED <<pincount, trapped>>
    /\ UNCHANGED <<answer, rows, cells>>

\* changeSetting loads the view again, without the table.
LoadViewAgain ==
    /\ visible
    /\ visible' = FALSE
    /\ UNCHANGED <<bar, answer, found, rows, cells, goal, trapped>>

\* Another launch, or the ViewController that the tutorial goes back to.
NewViewController ==
    /\ bar' = NoText
    /\ query' = "answered"
    /\ results' = <<>>
    /\ pins' = <<>>
    /\ pincount' = 0
    /\ rows' = 0
    /\ cells' = NoCells
    /\ visible' = FALSE
    /\ goal' = NoGoal
    /\ trapped' = FALSE

BarStep ==
    /\ ~ trapped
    /\ \/ \E t \in Text, s \in FoundPins : ChangeText(t, s)
       \/ SearchButtonClicked
       \/ HideTable
       \/ LoadViewAgain

CompleterStep ==
    /\ ~ trapped
    /\ \/ \E res \in UpTo(MaxResults, Text \ {NoText}) : CompleterDidUpdateResults(res)
       \/ CompleterDidFail

RowStep ==
    /\ ~ trapped
    /\ \/ \E f \in 0 .. rows - 1 : Scroll(f)
       \/ \E r \in DOMAIN cells : SelectRow(r)

SearchNext == BarStep \/ CompleterStep \/ RowStep \/ NewViewController

SearchSpec == SearchInit /\ [][SearchNext]_searchVars

-----------------------------------------------------------------------------
(* What must hold                                                          *)

\* A table on the screen has the pins it counted: didSelectRowAt, which
\* empties Pins and leaves pincount, hides the table, and nothing shows it
\* again before both are read anew.
VisibleTableHasItsPins == visible /\ ~ trapped => Len(pins) = pincount

\* The candidates: the pins and, after them, the results.
RowsOf(ps, res) ==
    [i \in 1 .. Len(ps) |-> PinRow(ps[i])] \o [i \in 1 .. Len(res) |-> TextRow(res[i])]

Candidates == RowsOf(pins, results)

\* Once the completer has answered for the last change, the table on the
\* screen has a row for each candidate and each row in view shows its own,
\* whatever was typed, scrolled, selected and answered before.
AnsweredTableShowsCandidates ==
    visible /\ ~ trapped /\ query = "answered" =>
        /\ rows = Len(Candidates)
        /\ \A r \in DOMAIN cells : cells[r] = Candidates[r + 1]

\* A selection in such a table leads to the pin the row shows; to the text
\* the row shows, if the table has no pins.
AnsweredRowsLead ==
    [][\A r \in DOMAIN cells :
           SelectRow(r) /\ ~ trapped' /\ query = "answered" /\ (cells[r].kind = "pin" \/ pincount = 0)
               => goal' = cells[r]]_searchVars

\* ViewController.swift:1022 says of completerDidUpdateResults: "when the
\* results were updated normally".  Reloading the table then fills it.
UpdatedResultsAreShown ==
    [][\A res \in UpTo(MaxResults, Text \ {NoText}) : CompleterDidUpdateResults(res) => ~ trapped']_searchVars

\* ViewController.swift:1013 says of a row that is not a pin: "ordinary
\* search".  What is searched for is what the row shows.
TextRowIsSearched ==
    [][\A r \in DOMAIN cells :
           SelectRow(r) /\ cells[r].kind = "text" => goal' = cells[r]]_searchVars

-----------------------------------------------------------------------------
(* The inductive invariant                                                 *)

\* Pins is what was found, or empty since a selection.
FoundOrEmptied == Len(pins) = pincount \/ pins = <<>>

SearchInv ==
    /\ SearchTypeOK
    /\ FoundOrEmptied
    /\ VisibleTableHasItsPins
    /\ AnsweredTableShowsCandidates

=============================================================================
