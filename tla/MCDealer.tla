------------------------------ MODULE MCDealer ------------------------------
(***************************************************************************)
(* A match of two hands of Kuhn poker: two players, an ante of one chip,   *)
(* one bet of one chip.                                                    *)
(***************************************************************************)
EXTENDS Dealer

Ante2       == [p \in 0 .. 1 |-> 1]
FirstRound  == [r \in 0 .. 0 |-> 0]
OneRaise    == [r \in 0 .. 0 |-> 1]
RaiseByOne  == [r \in 0 .. 0 |-> 1]
DeepStacks  == {[p \in 0 .. 1 |-> 5]}

(* Player 1 holds the better hand, then player 0; the deal after the last   *)
(* hand is made too.                                                        *)
Deals2 == [n \in 0 .. 2 |-> [p \in 0 .. 1 |-> IF (n = 0) = (p = 1) THEN 1 ELSE 0]]

=============================================================================
