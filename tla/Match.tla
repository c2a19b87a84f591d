------------------------------- MODULE Match -------------------------------
(***************************************************************************)
(* What a match of src/modules/agent/src/dealer.c is meant to be, without  *)
(* the process that runs it: hands played one after the other by players   *)
(* who rotate around the seats, every valid action taken once, every       *)
(* finished hand added to the totals of the seats.  Dealer.tla models the  *)
(* process and is checked to implement this.                               *)
(***************************************************************************)
EXTENDS Payoff

CONSTANTS
  NumHands,    \* #Hands on the dealer's command line
  FixedSeats,  \* option -f
  Deal         \* by deal number, the rank of each player's hand at the showdown

ASSUME MatchAssumption ==
  /\ NumHands \in Nat \ {0}
  /\ FixedSeats \in BOOLEAN
  /\ Deal \in [0 .. NumHands -> [Players -> Nat]]

VARIABLE match   \* the locals of gameLoop: hand, seats, cards dealt and totals

Seats == Players

TableStack == CHOOSE st \in Stacks : TRUE   \* game->stack

-----------------------------------------------------------------------------
SeatToPlayer(m, seat)   == (seat + NumPlayers - m.player0Seat) % NumPlayers
PlayerToSeat(m, player) == (player + m.player0Seat) % NumPlayers

ActingSeat(m) == PlayerToSeat(m, CurrentPlayer(m.hand))

(* dealt is the number of times dealCards has advanced the generator: the   *)
(* cards on the table are Deal[dealt].                                      *)
FirstMatch ==
  [hand        |-> InitState(0, TableStack),
   player0Seat |-> 0,
   dealt       |-> 0,
   total       |-> [seat \in Seats |-> 0]]

SetUpNewHand(m) ==
  [m EXCEPT !.hand        = InitState(m.hand.handId + 1, TableStack),
            !.player0Seat = IF FixedSeats THEN @ ELSE (@ + 1) % NumPlayers,
            !.dealt       = @ + 1]

Value(m, player) == ValueOfState(m.hand, Deal[m.dealt], player)

(* Mutant: the values stay with the players, who move on to other seats.    *)
AddValuesByPlayer(m) ==
  [m EXCEPT !.total = [p \in Players |-> @[p] + Value(m, p)]]

AddValues(m) ==
  [m EXCEPT !.total = [seat \in Seats |-> @[seat] + Value(m, SeatToPlayer(m, seat))]]

DoHandAction(m, a) == [m EXCEPT !.hand = DoAction(@, a)]

(* A match whose hand is over goes on to the next one.                      *)
Completed(m) == IF m.hand.finished THEN SetUpNewHand(AddValues(m)) ELSE m

MatchOver(m) == m.hand.handId >= NumHands

-----------------------------------------------------------------------------
MatchInit == match = FirstMatch

(* The player to act makes a move the rules allow.                          *)
Actions == [type : {"fold", "call", "raise"}, size : 0 .. Max({TableStack[p] : p \in Players})]

MovesFrom(m) ==
  {Completed(DoHandAction(m, a)) :
     a \in {b \in Actions : b = FixedAction(m.hand, b) /\ IsValidAction(m.hand, FALSE, b)}}

Move == ~MatchOver(match) /\ match' \in MovesFrom(match)

MatchSpec == MatchInit /\ [][Move]_match

=============================================================================
