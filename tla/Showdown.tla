------------------------------ MODULE Showdown ------------------------------
(***************************************************************************)
(* The payoff of every final state the betting can reach, for every order  *)
(* of the hands at the showdown.                                           *)
(***************************************************************************)
EXTENDS Betting, Payoff

CONSTANT Ranks   \* hand ranks, larger is better; -1 is a hand whose hole cards are not known

ASSUME RanksAssumption == Ranks \subseteq Nat \cup {-1}

VARIABLES
  rank,    \* by player, the rank of the cards each one holds
  value    \* by player, valueOfState once the hand has been scored; else << >>

showdownVars == <<state, rank, value>>

-----------------------------------------------------------------------------
ShowdownInit == Init /\ rank = << >> /\ value = << >>

Bet == PlayerActs /\ UNCHANGED <<rank, value>>

(* gameLoop adds up valueOfState of every seat when the hand is finished.   *)
ScoreHand ==
  /\ state.finished /\ value = << >>
  /\ rank' \in [Players -> Ranks]
  /\ value' = [p \in Players |-> ValueOfState(state, rank', p)]
  /\ UNCHANGED state

DealNext ==
  /\ value # << >>
  /\ NewHand
  /\ rank' = << >> /\ value' = << >>

ShowdownNext == Bet \/ ScoreHand \/ DealNext

ShowdownSpec == ShowdownInit /\ [][ShowdownNext]_showdownVars

Scored == value # << >>

-----------------------------------------------------------------------------
(***************************************************************************)
(* Invariants                                                              *)
(***************************************************************************)

(* valueOfState leaves players with nothing in the pot out of its list and  *)
(* then looks up in it the player it scores (playerIdx, -1 when it is not   *)
(* there), having asserted that the list has two players (game.c:1387): at  *)
(* a showdown everybody still in has put in chips, blind or no blind.       *)
ShowdownHasContestants ==
  state.finished /\ NumFolded(state) + 1 < NumPlayers =>
    \A p \in Unfolded(state) : state.spent[p] > 0

(* Chips in the pot beyond what anybody who shows a hand put in: no side    *)
(* pot that has a winner reaches them.                                      *)
Unclaimed(s, rk) ==
  IF NumFolded(s) + 1 = NumPlayers THEN 0
  ELSE LET top == Max({0} \cup {s.spent[p] : p \in Shown(s, rk)})
       IN  SumOver([p \in Players |-> Larger(0, s.spent[p] - top)], Players \ Shown(s, rk))

(* A fold that answers no bet; isValidAction accepts it as PREMATURE_FOLD.  *)
PrematureFolds(s) ==
  {e \in Rounds \X (1 .. MaxNumActions) :
     LET r == e[1]
         i == e[2]
     IN  /\ i \in DOMAIN s.action[r]
         /\ s.action[r][i].type = "fold"
         /\ s.spent[s.action[r][i].player] >= BetBefore(s, r, i)}

(* Whoever wins, what the losers pay is what the winners get, down to the   *)
(* split of a pot.  Only chips out of reach of every hand shown vanish, and *)
(* there are none when all who are in show their hands, unless somebody     *)
(* folded without facing a bet.                                             *)
PotIsPaidOut ==
  Scored =>
    /\ SumOver(value, Players) = -(Scale * Unclaimed(state, rank))
    /\ PrematureFolds(state) = {} /\ Shown(state, rank) = Unfolded(state) =>
         SumOver(value, Players) = 0

(* The side pots taken together are the rules of table stakes chip by chip: *)
(* the k-th chip of every player who put in k goes, in equal parts, to the  *)
(* best hands shown among those players.                                    *)
SidePotsAreTableStakes ==
  Scored => \A p \in Players :
    value[p] = SumOver([k \in 1 .. state.spent[p] |-> ChipShare(state, rank, p, k)]
                       , 1 .. state.spent[p])
               \/ NumFolded(state) + 1 = NumPlayers

(* Nobody loses more than its own stake or wins more from an opponent than  *)
(* it risked itself, unless that opponent folded to it.                     *)
NobodyWinsMoreThanItRisked ==
  Scored => \A p \in Players :
    /\ value[p] >= -(Scale * state.spent[p])
    /\ NumFolded(state) + 1 < NumPlayers =>
         value[p] <= Scale * SumOver([q \in Players |-> Smaller(state.spent[p], state.spent[q])],
                                     Players \ {p})

=============================================================================
