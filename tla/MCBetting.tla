----------------------------- MODULE MCBetting -----------------------------
(***************************************************************************)
(* Small games for Betting, and configurations of the abstract game.        *)
(***************************************************************************)
EXTENDS ActionAbs

(* Three players, blinds 1 and 2, one of them short.                        *)
Blind3       == <<1, 2, 0>>
Blinds3p     == [p \in 0 .. 2 |-> Blind3[p + 1]]
First3p      == [r \in 0 .. 1 |-> IF r = 0 THEN 2 ELSE 0]
Raises3p     == [r \in 0 .. 1 |-> 3]
NoRaiseSize  == [r \in 0 .. 1 |-> 0]
Stack(a, b, c) == [p \in 0 .. 2 |-> <<a, b, c>>[p + 1]]
Stacks3p     == {Stack(9, 4, 7), Stack(1, 6, 6), Stack(5, 2, 3), Stack(8, 8, 8)}

(* Limit betting, two rounds, everybody with the same stack: deep, and      *)
(* short enough that the last raise is cut off at the stack.                *)
BlindsLimit   == [p \in 0 .. 2 |-> 1]
FirstLimit    == [r \in 0 .. 1 |-> 0]
RaisesLimit   == [r \in 0 .. 1 |-> 3]
RaiseSizes24  == [r \in 0 .. 1 |-> 2 * (r + 1)]
EqualStacks   == {Stack(90, 90, 90), Stack(8, 8, 8)}
UnequalStacks == {Stack(90, 90, 2)}

(* Ratios as in config/engine/builder_*.json, and their order; one that goes *)
(* on with raises after one that may take everything.                       *)
RaiseConf(mode, ratio, begin, end) == [mode |-> mode, ratio |-> ratio, begin |-> begin, end |-> end]

NetOrX == [mode |-> "net_or_x", filter |-> <<17, 20>>,
           raises |-> <<RaiseConf("net", <<1, 4>>, 0, 1), RaiseConf("net", <<1, 1>>, 0, 1),
                        RaiseConf("net", AllIn, 0, 1), RaiseConf("x", <<5, 2>>, 0, 2),
                        RaiseConf("x", <<3, 1>>, 0, 3), RaiseConf("x", AllIn, 1, 4)>>]
AfterCall == [mode |-> "after_call", filter |-> <<1, 1>>,
              raises |-> <<RaiseConf("after_call", <<1, 2>>, 0, 3),
                           RaiseConf("after_call", <<3, 1>>, 0, 3),
                           RaiseConf("after_call", <<1, 1>>, 0, 3)>>]
ActionConfs3p == {NetOrX, AfterCall}

=============================================================================
