----------------------------- MODULE DeepChanges ------------------------------
(***************************************************************************)
(* When an object counts as modified for a notifier: if it was modified    *)
(* itself, or one that it links to, over at most PathSize - 1 links        *)
(* (CollectionNotifier::get_modification_checker and DeepChangeChecker of  *)
(* impl/collection_notifier.cpp).  One checker is asked for many rows and  *)
(* remembers which it found not to be modified.  It must not remember that *)
(* of a row where it has stopped too early: at the end of the path, or at  *)
(* a row that it was in the middle of.                                     *)
(*                                                                         *)
(* A schema gives each table its columns with links: the target, and       *)
(* whether it has a list of them or one at most.  An object graph g has    *)
(* the rows that each row links to in each of these columns, and the rows  *)
(* that were modified.                                                     *)
(***************************************************************************)
EXTENDS Integers, Sequences, SequencesExt

CONSTANTS
    PathSize, \* the size of m_current_path: 4
    Schemas,  \* the schemas that are tried
    TableOf   \* bound: the rows that there are, with the table of each

ASSUME DeepChangesAssumption ==
    /\ PathSize \in Nat \ {0}
    /\ \A schema \in Schemas : /\ schema \in Seq(Seq([target : DOMAIN schema, list : BOOLEAN]))
                               /\ TableOf \in Seq(DOMAIN schema)

Row == DOMAIN TableOf

-----------------------------------------------------------------------------
(* find_related_tables: out with table and what can be reached from it.    *)
(* The search goes no deeper than there are tables left that are not out.  *)
FindRelatedTables(schema, table) ==
    LET find[left \in 0 .. Len(schema)] ==
            [t \in DOMAIN schema |-> [out \in SUBSET DOMAIN schema |->
                IF left = 0 \/ t \in out THEN out
                ELSE LET upTo[k \in 0 .. Len(schema[t])] ==
                             IF k = 0 THEN out \cup {t} ELSE find[left - 1][schema[t][k].target][upTo[k - 1]]
                     IN  upTo[Len(schema[t])]]]
    IN  find[Len(schema)][table][{}]

(* What a checker has: its path, whose first levels are in use, the rows   *)
(* known not to be modified, and whether it has found a modified one.      *)
Path == [0 .. PathSize - 1 -> [row : Nat, col : Nat, exceeded : BOOLEAN]]
CheckerState == [path : Path, notModified : SUBSET Row, found : BOOLEAN]

Exceeded(c, levels) == [c EXCEPT !.path = [d \in DOMAIN c.path |-> [c.path[d] EXCEPT !.exceeded = @ \/ d \in levels]]]

AlreadyChecking(c, row, col, depth) ==
    {d \in 0 .. depth - 1 : c.path[d].row = row /\ c.path[d].col = col}

(* Checks what is in s, each by a function of how the checker comes to it, *)
(* until a modified row is found.                                          *)
AnyOf(check, c, s) ==
    LET upTo[k \in 0 .. Len(s)] ==
            IF k = 0 THEN c ELSE LET r == upTo[k - 1] IN IF r.found THEN r ELSE check[s[k]][r]
    IN  upTo[Len(s)]

(* linked_object_changed: a column that is on the path is not gone into    *)
(* again, and what lies between is not known in full.  The rows it links   *)
(* to are checked a level below.                                           *)
LinkedObjectChanged(below, c, g, row, col, depth) ==
    LET K == AlreadyChecking(c, row, col, depth)
        on == [c EXCEPT !.path[depth] = [row |-> row, col |-> col, exceeded |-> FALSE]]
    IN  IF K # {} THEN Exceeded(c, {d \in 0 .. depth - 1 : \E k \in K : k <= d})
        ELSE AnyOf(below, on, g.links[row][col])

CheckOutgoingLinks(below, c, g, row, depth) ==
    AnyOf([col \in DOMAIN g.links[row] |-> [r \in CheckerState |-> LinkedObjectChanged(below, r, g, row, col, depth)]],
          c, [k \in DOMAIN g.links[row] |-> k])

(* Mutant: a row is remembered although not all of it was seen.            *)
RememberAll(c, row, depth) == [c EXCEPT !.notModified = @ \cup {row}]

Remember(c, row, depth) ==
    IF depth = 0 \/ ~c.path[depth - 1].exceeded
    THEN [c EXCEPT !.notModified = @ \cup {row}] ELSE c

CheckRow(below, c, g, row, depth) ==
    LET r == CheckOutgoingLinks(below, c, g, row, depth)
    IN  IF depth > 0 /\ row \in g.modified THEN [c EXCEPT !.found = TRUE]
        ELSE IF row \in c.notModified THEN c
        ELSE IF r.found THEN r ELSE Remember(r, row, depth)

(* check_row with the levels of the path that are left for it.             *)
CheckRowIn(g) ==
    LET check[left \in 0 .. PathSize] ==
            [row \in Row |-> [c \in CheckerState |->
                IF left = 0 THEN Exceeded(c, DOMAIN c.path)
                ELSE CheckRow(check[left - 1], c, g, row, PathSize - left)]]
    IN  check

(* operator().                                                             *)
Asked(c, g, row) ==
    IF row \in g.modified THEN [c EXCEPT !.found = TRUE]
    ELSE CheckRowIn(g)[PathSize][row][[c EXCEPT !.found = FALSE]]

(* get_modification_checker has shorter ways where no table was modified   *)
(* or there is only one.                                                   *)
ModificationChecker(c, g, schema, row) ==
    LET related == FindRelatedTables(schema, TableOf[row])
    IN  IF \A m \in g.modified : TableOf[m] \notin related THEN [c EXCEPT !.found = FALSE]
        ELSE IF related = {TableOf[row]} THEN [c EXCEPT !.found = row \in g.modified]
        ELSE Asked(c, g, row)

-----------------------------------------------------------------------------
(* What that is to compute: the rows that have a modified one within a     *)
(* number of links.                                                        *)
LinksTo(g, row, S) == \E col \in DOMAIN g.links[row] : ToSet(g.links[row][col]) \cap S # {}

ModifiedWithin(g) ==
    LET within[n \in 0 .. PathSize - 1] ==
            IF n = 0 THEN g.modified
            ELSE LET nearer == within[n - 1] IN nearer \cup {row \in Row : LinksTo(g, row, nearer)}
    IN  within

Affected(g) == ModifiedWithin(g)[PathSize - 1]

-----------------------------------------------------------------------------
Links(link) ==
    LET targets == {r \in Row : TableOf[r] = link.target}
    IN  {<<>>} \cup {<<r>> : r \in targets}
        \cup (IF link.list THEN {<<r, q>> : r \in targets, q \in targets} ELSE {})

LinksOf(schema, table) ==
    LET columns == schema[table]
        any == UNION {Links(columns[k]) : k \in DOMAIN columns}
    IN  {s \in [DOMAIN columns -> any] : \A k \in DOMAIN columns : s[k] \in Links(columns[k])}

Graphs(schema) ==
    LET any == UNION {LinksOf(schema, table) : table \in DOMAIN schema}
    IN  [links : {s \in [Row -> any] : \A r \in Row : s[r] \in LinksOf(schema, TableOf[r])}, modified : SUBSET Row]

(* The shorter way for one table is taken although its rows link to each   *)
(* other: those links are not followed.                                    *)
LinksOnlyToItself(schema, table) ==
    schema[table] # <<>> /\ \A k \in DOMAIN schema[table] : schema[table][k].target = table

(* Beyond the levels in use the path holds anything: nobody initializes    *)
(* it, and the last question has left its traces.                          *)
AnyPath == [d \in 0 .. PathSize - 1 |-> [row |-> 1, col |-> 1, exceeded |-> TRUE]]

(* Whatever a checker has been asked before, it finds a row modified if    *)
(* and only if one within its reach was, and remembers no row that is:     *)
(* any rows that it may remember rightly are tried as what it knows.       *)
CheckersAgree ==
    \A schema \in Schemas : \A g \in Graphs(schema) :
        LET affected == Affected(g)
        IN  \A known \in SUBSET (Row \ affected) : \A row \in Row :
                ~LinksOnlyToItself(schema, TableOf[row]) =>
                    LET c == ModificationChecker([path |-> AnyPath, notModified |-> known, found |-> FALSE], g, schema, row)
                    IN  c.found = (row \in affected) /\ c.notModified \cap affected = {}
=============================================================================
