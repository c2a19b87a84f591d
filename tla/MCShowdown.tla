----------------------------- MODULE MCShowdown -----------------------------
(***************************************************************************)
(* Four players with four different stacks, for three nested side pots;    *)
(* two of them post blinds, the others have nothing in the pot at first.    *)
(***************************************************************************)
EXTENDS Showdown

Vector(a, b, c, d) == [p \in 0 .. 3 |-> <<a, b, c, d>>[p + 1]]
Blinds4p    == Vector(1, 2, 0, 0)
First4p     == [r \in 0 .. 1 |-> IF r = 0 THEN 2 ELSE 0]
Raises4p    == [r \in 0 .. 1 |-> IF r = 0 THEN 3 ELSE 0]
NoRaiseSize == [r \in 0 .. 1 |-> 0]
Ranks4p     == -1 .. 2
Stacks4p    == {Vector(5, 2, 3, 5), Vector(1, 3, 2, 4), Vector(4, 9, 6, 9)}

=============================================================================
