------------------------------ MODULE Betting ------------------------------
(***************************************************************************)
(* One table's betting as a state machine: hands are dealt one after the   *)
(* other, and the player to act answers with an action that isValidAction  *)
(* accepts (tryFixing on, as the dealer calls it) and doAction applies.    *)
(***************************************************************************)
EXTENDS Game

CONSTANTS
  HandIds,    \* the hand numbers a hand may be dealt with
  RaiseSizes  \* the sizes players ask for in a raise, valid or not

ASSUME BettingAssumption == HandIds \subseteq Nat /\ RaiseSizes \subseteq Int

VARIABLE state

vars == <<state>>

(* initState on a fresh table; in a game with use_state_stack the stacks    *)
(* are whatever the players sat down with.                                  *)
Init == \E h \in HandIds, st \in Stacks : state = InitState(h, st)

Take(a) ==
  /\ IsValidAction(state, TRUE, a)
  /\ state' = DoAction(state, FixedAction(state, a))

Fold  == Take([type |-> "fold", size |-> 0])
Call  == Take([type |-> "call", size |-> 0])
Raise == \E n \in (IF NoLimit THEN RaiseSizes ELSE {0}) :
           Take([type |-> "raise", size |-> n])

(* The next hand, once this one is over (setUpNewHand calls initState).     *)
NewHand ==
  /\ state.finished
  /\ \E h \in HandIds, st \in Stacks : state' = InitState(h, st)

PlayerActs == Fold \/ Call \/ Raise

Next == Fold \/ Call \/ Raise \/ NewHand

Spec == Init /\ [][Next]_vars

(* The dealer asks the player to act for one action per turn of its loop,   *)
(* so an unfinished hand never waits for ever on the table itself.          *)
FairSpec == Spec /\ WF_vars(PlayerActs)

-----------------------------------------------------------------------------
(***************************************************************************)
(* Invariants                                                              *)
(***************************************************************************)

(* The fields of struct State keep their types.                             *)
TypeOK == state \in State

(* maxSpent is "largest bet so far, including all previous rounds"          *)
(* (game.h:147): nobody has more in the pot, and somebody has that much.    *)
MaxSpentIsLargest ==
  /\ \A p \in Players : state.spent[p] <= state.maxSpent
  /\ \E p \in Players : state.spent[p] = state.maxSpent

(* Nobody has more in the pot than it sat down with, whatever sizes are     *)
(* asked for and however the raise of a short stack is cut off.             *)
BetsAreCovered == \A p \in Players : state.spent[p] <= state.stackPlayer[p]

(* nextPlayer's loop terminates whenever currentPlayer may be called: an    *)
(* unfinished hand has a player who is neither folded nor all-in.           *)
SomeoneCanAct == ~state.finished => Acting(state) # {}

(* Whatever a player asks for, an action isValidAction lets through meets   *)
(* the three assertions of doAction (game.c:1196, 1228, 1229).              *)
AcceptedActionMeetsAsserts ==
  \A n \in RaiseSizes :
    LET a == [type |-> "raise", size |-> n]
        f == FixedAction(state, a)
    IN  NoLimit /\ IsValidAction(state, TRUE, a) =>
          /\ f.size > state.maxSpent
          /\ f.size <= state.stackPlayer[CurrentPlayer(state)]

(* raiseIsValid stops raising early enough: a round that is still open has  *)
(* room for one more action, so the calls that must follow a raise fit.     *)
RoundLogHasRoom == ~state.finished => Len(RoundLog(state)) < MaxNumActions

(* A client that reads the betting string the table prints accepts every    *)
(* action in it and arrives at the same state, all derived fields included. *)
ReadBackAgrees ==
  LET r == ReadBetting(InitState(state.handId, state.stackPlayer), Betting(state))
  IN  r.ok /\ r.state = state

(* What the raise base X_LAST_RAISE (game.c:2413-2417) relies on: whoever   *)
(* can still act has matched every earlier round's bet, so two such players *)
(* have the same, non-zero totals in sum_round_spent of every past round.   *)
PastRoundsAreSquare ==
  ~state.finished =>
    \A p, q \in Acting(state), r \in Rounds :
      r < state.round => /\ state.sumRoundSpent[r][p] = state.sumRoundSpent[r][q]
                         /\ state.sumRoundSpent[r][p] >= BigBlind

(* The largest total anyone had put in when entry i of round r was made.    *)
BetBefore(s, r, i) ==
  LET sizes == {s.action[r][j].size : j \in {k \in 1 .. i - 1 : s.action[r][k].type = "raise"}}
      older == UNION {{s.action[q][k].size : k \in {j \in DOMAIN s.action[q] :
                         s.action[q][j].type = "raise"}} : q \in 0 .. r - 1}
      bets  == sizes \cup older \cup {BigBlind}
  IN  CHOOSE b \in bets : \A c \in bets : c <= b

RaiseEntries(s, r) == {i \in DOMAIN s.action[r] : s.action[r][i].type = "raise"}

(* "next raise must call this bet, and raise by at least this much"         *)
(* (game.c:1231): after a raise, every later raise of the round goes at     *)
(* least as far beyond it as it went beyond the bet it raised, unless the   *)
(* raiser is all-in.                                                        *)
RaisesStepUp ==
  NoLimit =>
    \A r \in Rounds : \A i, j \in RaiseEntries(state, r) :
      LET first == state.action[r][i]
          later == state.action[r][j]
      IN  i < j => \/ later.size >= 2 * first.size - BetBefore(state, r, i)
                   \/ later.size = state.stackPlayer[later.player]

(* "it does not open up the action again to you unless the shortstacked     *)
(* player's raise is at least a full raise" (game.c:1069): a player who has *)
(* acted raises again in the round only over some raise that was full.      *)
FullRaise(s, r, i) ==
  \A j \in RaiseEntries(s, r) :
    j < i => s.action[r][i].size - BetBefore(s, r, i) >= s.action[r][j].size - BetBefore(s, r, j)

ShortAllInDoesNotReopen ==
  NoLimit =>
    \A r \in Rounds : \A i \in DOMAIN state.action[r], k \in RaiseEntries(state, r) :
      i < k /\ state.action[r][i].player = state.action[r][k].player =>
        \E j \in RaiseEntries(state, r) : i < j /\ j < k /\ FullRaise(state, r, j)

-----------------------------------------------------------------------------
(***************************************************************************)
(* Action properties                                                       *)
(***************************************************************************)

(* When betting on a round is closed with a showdown or another round to    *)
(* come, everyone who still has chips behind has matched the bet and has    *)
(* answered since the last raise of that round.                             *)
Answered(s, r, p) ==
  \E i \in DOMAIN s.action[r] :
    /\ s.action[r][i].player = p
    /\ \A j \in DOMAIN s.action[r] : j > i => s.action[r][j].type # "raise"

ClosedBetsAreAnswered ==
  [][ PlayerActs
      /\ (state'.round # state.round \/ state'.finished)
      /\ NumFolded(state') + 1 < NumPlayers
      => \A p \in Acting(state') :
           state'.spent[p] = state'.maxSpent /\ Answered(state', state.round, p) ]_vars

(* StepBackAction by one step undoes exactly the last action ("precisely    *)
(* one step backward from the reference state", game.h:245), as long as it  *)
(* is not the first of the hand.                                            *)
StepBackUndoes ==
  [][ PlayerActs /\ TotalAction(state') > 1
      => StepBackAction(state', state.stackPlayer, 1) = state ]_vars

(* Every hand ends.                                                         *)
HandEnds == ~state.finished ~> state.finished

=============================================================================
