------------------------------ MODULE MCCfgDoc ------------------------------
(* Two sections, a list and a single value, two items.                      *)
EXTENDS CfgDoc

CONSTANTS s1, s2, serials, chipset, x1, x2

MCSections == {s1, s2}
MCLists == {serials}
MCScalars == {chipset}
MCItems == {x1, x2}

\* There is a ":" in the notes of every second line, and a "=" in those of the next but one.
MCNotesWith == [q \in Separators |-> IF q = ":" THEN {2, 4, 6} ELSE {3, 4}]

\* Shapes of which a block of items is made, with what can be around it.
Blocks == {KeyLine(serials, NoItem, 1), ItemLine(x1, 1), ItemLine(x1, 0), ItemLine(x2, 1),
           Label(1), Blank, Header(s2)}

MCSizes == {[lines |-> 3, shapes |-> Shapes, edits |-> 1],
            [lines |-> 5, shapes |-> Blocks, edits |-> 1],
            [lines |-> 2, shapes |-> Shapes, edits |-> 2]}
=============================================================================
