-------------------------------- MODULE Game --------------------------------
(***************************************************************************)
(* The rules engine of src/modules/core/src/game.c as pure operators on a  *)
(* record that stands for the C struct State (game.h:144-191): who acts    *)
(* next, which actions are valid, what an action does to the hand, and the *)
(* replay of a hand up to an earlier action.  Cards are left out here; no  *)
(* betting decision of the code looks at them.                             *)
(*                                                                         *)
(* The dealer, the connectors and the engine all keep such a State and     *)
(* drive it with these same functions, so the other modules use these      *)
(* operators rather than a model of their own.                             *)
(***************************************************************************)
EXTENDS Integers, Sequences, FiniteSets, SequencesExt

CONSTANTS
  NumPlayers,     \* game->numPlayers
  NumRounds,      \* game->numRounds
  Blind,          \* game->blind, by player
  FirstPlayer,    \* game->firstPlayer by round, zero based as readGame leaves it
  MaxRaises,      \* game->maxRaises, by round
  RaiseSize,      \* game->raiseSize by round, limit games only
  NoLimit,        \* game->bettingType = noLimitBetting
  Stacks,         \* the stack vectors a hand may be played with
  MaxNumActions,  \* MAX_NUM_ACTIONS, the length of one round's action array
  MaxInt          \* INT32_MAX

Players == 0 .. NumPlayers - 1
Rounds  == 0 .. NumRounds - 1

(***************************************************************************)
(* What readGame (game.c:386-489) has checked of a game definition before  *)
(* any hand is played; a blind never exceeds its player's stack.           *)
(***************************************************************************)
ASSUME GameAssumption ==
  /\ NumPlayers \in Nat /\ NumPlayers >= 2
  /\ NumRounds \in Nat /\ NumRounds >= 1
  /\ Blind \in [Players -> Nat]
  /\ FirstPlayer \in [Rounds -> Players]
  /\ MaxRaises \in [Rounds -> Nat]
  /\ RaiseSize \in [Rounds -> Nat]
  /\ NoLimit \in BOOLEAN
  /\ MaxNumActions \in Nat /\ MaxNumActions >= NumPlayers
  /\ MaxInt \in Nat /\ MaxInt >= 1
  /\ Stacks \subseteq [Players -> 0 .. MaxInt]
  /\ \A st \in Stacks : \A p \in Players : Blind[p] <= st[p]

(***************************************************************************)
(* Actions and states                                                      *)
(***************************************************************************)
Action   == [type : {"fold", "call", "raise", "invalid"}, size : Int]
LogEntry == [type : {"fold", "call", "raise"}, size : Int, player : Players]

State == [handId            : Nat,
          round             : Rounds,
          maxSpent          : Int,
          minNoLimitRaiseTo : Int,
          spent             : [Players -> Int],
          stackPlayer       : [Players -> Int],
          sumRoundSpent     : [Rounds -> [Players -> Int]],
          action            : [Rounds -> Seq(LogEntry)],
          finished          : BOOLEAN,
          playerFolded      : [Players -> BOOLEAN]]

(* Two's complement arithmetic on int32_t, as the build computes it. *)
Wrap(x) == IF x > MaxInt THEN x - 2 * (MaxInt + 1) ELSE x

Smaller(a, b) == IF a < b THEN a ELSE b
Larger(a, b)  == IF a > b THEN a ELSE b

BigBlind == Max({Blind[p] : p \in Players})

(* initState: post the blinds; the stacks come from the game definition or  *)
(* from the table (use_state_stack).                                        *)
InitState(handId, stack) ==
  [handId            |-> handId,
   round             |-> 0,
   maxSpent          |-> BigBlind,
   minNoLimitRaiseTo |-> CASE ~NoLimit               -> 0
                           [] NoLimit /\ BigBlind = 0 -> 1
                           [] NoLimit /\ BigBlind # 0 -> Wrap(2 * BigBlind),
   spent             |-> Blind,
   stackPlayer       |-> stack,
   sumRoundSpent     |-> [r \in Rounds |-> [p \in Players |-> IF r = 0 THEN Blind[p] ELSE 0]],
   action            |-> [r \in Rounds |-> << >>],
   finished          |-> FALSE,
   playerFolded      |-> [p \in Players |-> FALSE]]

(***************************************************************************)
(* Counting players and actions                                            *)
(***************************************************************************)
RoundLog(s) == s.action[s.round]

Owes(s, p) == s.spent[p] < s.stackPlayer[p]   \* has chips behind: not all-in

CanAct(s, p) == ~s.playerFolded[p] /\ Owes(s, p)

Folded(s)    == {p \in Players : s.playerFolded[p]}
Acting(s)    == {p \in Players : CanAct(s, p)}
NumFolded(s) == Cardinality(Folded(s))
NumActing(s) == Cardinality(Acting(s))

NumRaises(s) == Cardinality({i \in DOMAIN RoundLog(s) : RoundLog(s)[i].type = "raise"})

(* Mutant: the scan does not stop at the last raise.                        *)
CallersOfAnyBet(s) ==
  {i \in DOMAIN RoundLog(s) :
     RoundLog(s)[i].type \in {"call", "raise"} /\ Owes(s, RoundLog(s)[i].player)}

(* The entries numCalled counts: scanning back from the last action of the  *)
(* round, the calls, and the raise that ends the scan, of players that are  *)
(* not all-in.                                                              *)
Callers(s) ==
  {i \in DOMAIN RoundLog(s) :
     /\ RoundLog(s)[i].type \in {"call", "raise"}
     /\ Owes(s, RoundLog(s)[i].player)
     /\ \A j \in DOMAIN RoundLog(s) : j > i => RoundLog(s)[j].type # "raise"}

NumCalled(s) == Cardinality(Callers(s))

(***************************************************************************)
(* Whose turn it is.  nextPlayer walks round the table until it meets a    *)
(* player who can act; Distances(s, p) holds the steps at which it could   *)
(* stop, and when that set is empty the C loop does not terminate.         *)
(***************************************************************************)
Distances(s, p) == {d \in 1 .. NumPlayers : CanAct(s, (p + d) % NumPlayers)}

NextPlayer(s, p) ==
  (p + CHOOSE d \in Distances(s, p) : \A e \in Distances(s, p) : d <= e) % NumPlayers

CurrentPlayer(s) ==
  IF RoundLog(s) # << >>
  THEN NextPlayer(s, RoundLog(s)[Len(RoundLog(s))].player)
  ELSE NextPlayer(s, FirstPlayer[s.round] + NumPlayers - 1)

(***************************************************************************)
(* Which actions are valid                                                 *)
(***************************************************************************)
(* Mutant: room is left for one reply too few.                              *)
RaiseIsValidOneLater(s) ==
  /\ NumRaises(s) < MaxRaises[s.round]
  /\ Len(RoundLog(s)) + NumPlayers - 1 <= MaxNumActions
  /\ NumActing(s) > 1
  /\ NoLimit => \/ s.minNoLimitRaiseTo <= s.stackPlayer[CurrentPlayer(s)]
                \/ s.maxSpent < s.stackPlayer[CurrentPlayer(s)]

(* raiseIsValid's return value, and the smallest and largest size it hands *)
(* back in a no-limit game.                                                *)
RaiseIsValid(s) ==
  /\ NumRaises(s) < MaxRaises[s.round]
  /\ Len(RoundLog(s)) + NumPlayers <= MaxNumActions
  /\ NumActing(s) > 1
  /\ NoLimit => \/ s.minNoLimitRaiseTo <= s.stackPlayer[CurrentPlayer(s)]
                \/ s.maxSpent < s.stackPlayer[CurrentPlayer(s)]

MaxRaiseTo(s) == s.stackPlayer[CurrentPlayer(s)]
MinRaiseTo(s) == Smaller(s.minNoLimitRaiseTo, MaxRaiseTo(s))

(* isValidAction's return value.  A fold by a player who owes nothing is   *)
(* answered with PREMATURE_FOLD, which is non-zero and so accepted.        *)
IsValidAction(s, tryFixing, a) ==
  /\ ~s.finished
  /\ a.type # "invalid"
  /\ a.type = "raise" =>
       /\ RaiseIsValid(s)
       /\ NoLimit /\ ~tryFixing => a.size \in MinRaiseTo(s) .. MaxRaiseTo(s)

(* Mutant: an out of range size is accepted as it is.                       *)
UnfixedAction(s, a) == a

(* The action isValidAction leaves behind when it accepts with tryFixing:  *)
(* a no-limit size moved to the nearest valid one.  Any other action has   *)
(* size 0: readAction parses it so, and isValidAction resets it.           *)
FixedAction(s, a) ==
  [a EXCEPT !.size = IF a.type = "raise" /\ NoLimit
                     THEN Smaller(Larger(a.size, MinRaiseTo(s)), MaxRaiseTo(s))
                     ELSE 0]

(***************************************************************************)
(* doAction                                                                *)
(***************************************************************************)
(* Mutants: a call is booked as the chips it adds; a limit raise is not cut *)
(* off at the stack.                                                        *)
NewSpentByCallOnly(s, a) ==
  LET p == CurrentPlayer(s)
  IN  CASE a.type = "fold"  -> s.spent[p]
        [] a.type = "call"  -> Smaller(s.maxSpent, s.stackPlayer[p]) - s.spent[p]
        [] a.type = "raise" -> a.size

NewSpentBeyondStack(s, a) ==
  LET p == CurrentPlayer(s)
  IN  CASE a.type = "fold"  -> s.spent[p]
        [] a.type = "call"  -> Smaller(s.maxSpent, s.stackPlayer[p])
        [] a.type = "raise" -> s.maxSpent + RaiseSize[s.round]

(* The total the acting player has in the pot after action a.              *)
NewSpent(s, a) ==
  LET p == CurrentPlayer(s)
  IN  CASE a.type = "fold"  -> s.spent[p]
        [] a.type = "call"  -> Smaller(s.maxSpent, s.stackPlayer[p])
        [] a.type = "raise" ->
             IF NoLimit THEN a.size
             ELSE Smaller(s.maxSpent + RaiseSize[s.round], s.stackPlayer[p])

(* Mutants: a raise leaves the minimum alone; the next raise only has to    *)
(* exceed it.                                                               *)
NewMinRaiseToStale(s, a) == s.minNoLimitRaiseTo
NewMinRaiseToByOne(s, a) ==
  IF a.type = "raise" THEN Larger(s.minNoLimitRaiseTo, a.size + 1) ELSE s.minNoLimitRaiseTo

NewMinRaiseTo(s, a) ==
  IF a.type = "raise" /\ NoLimit
  THEN Larger(s.minNoLimitRaiseTo, Wrap(2 * a.size - s.maxSpent))
  ELSE s.minNoLimitRaiseTo

(* Mutants: every action sets maxSpent; sum_round_spent holds the chips an  *)
(* action adds; numActions is not incremented.                              *)
RecordActionAnySetsMax(s, a) ==
  LET p == CurrentPlayer(s)
      n == NewSpent(s, a)
  IN  [s EXCEPT !.action[s.round] = Append(@, [type |-> a.type, size |-> a.size, player |-> p]),
                !.playerFolded[p] = @ \/ a.type = "fold",
                !.spent[p] = n,
                !.sumRoundSpent[s.round][p] = IF a.type = "fold" THEN @ ELSE n,
                !.maxSpent = n,
                !.minNoLimitRaiseTo = NewMinRaiseTo(s, a)]
RecordActionAddsOnly(s, a) ==
  LET p == CurrentPlayer(s)
      n == NewSpent(s, a)
  IN  [s EXCEPT !.action[s.round] = Append(@, [type |-> a.type, size |-> a.size, player |-> p]),
                !.playerFolded[p] = @ \/ a.type = "fold",
                !.spent[p] = n,
                !.sumRoundSpent[s.round][p] = IF a.type = "fold" THEN @ ELSE n - s.spent[p],
                !.maxSpent = IF a.type = "raise" THEN n ELSE @,
                !.minNoLimitRaiseTo = NewMinRaiseTo(s, a)]

RecordActionOverwrites(s, a) ==
  LET r == RecordActionAnySetsMax(s, a)
      p == CurrentPlayer(s)
  IN  [r EXCEPT !.action[s.round] = <<[type |-> a.type, size |-> a.size, player |-> p]>>,
                !.maxSpent = Larger(s.maxSpent, @)]

(* doAction up to the end of its switch: log the action, move the chips.   *)
RecordAction(s, a) ==
  LET p == CurrentPlayer(s)
      n == NewSpent(s, a)
  IN  [s EXCEPT !.action[s.round] = Append(@, [type |-> a.type, size |-> a.size, player |-> p]),
                !.playerFolded[p] = @ \/ a.type = "fold",
                !.spent[p] = n,
                !.sumRoundSpent[s.round][p] = IF a.type = "fold" THEN @ ELSE n,
                !.maxSpent = IF a.type = "raise" THEN n ELSE @,
                !.minNoLimitRaiseTo = NewMinRaiseTo(s, a)]

(* The next round's minimum: a raise by the largest blind, or by one chip.   *)
MinRaiseOfNextRound(s) == Wrap(Larger(1, BigBlind) + s.maxSpent)

(* Mutants: the round counter moves on when the last round ends; betting is *)
(* not closed when everybody left is all-in.                                *)
SettleRoundPastEnd(s) ==
  CASE NumFolded(s) + 1 >= NumPlayers -> [s EXCEPT !.finished = TRUE]
    [] NumFolded(s) + 1 < NumPlayers /\ NumCalled(s) < NumActing(s) -> s
    [] OTHER -> [s EXCEPT !.round = @ + 1,
                          !.finished = s.round + 1 = NumRounds \/ NumActing(s) <= 1,
                          !.minNoLimitRaiseTo = MinRaiseOfNextRound(s)]
SettleNotWhenAllIn(s) ==
  CASE NumFolded(s) + 1 >= NumPlayers -> [s EXCEPT !.finished = TRUE]
    [] NumFolded(s) + 1 < NumPlayers /\ (NumCalled(s) < NumActing(s) \/ NumActing(s) = 0) -> s
    [] OTHER -> [s EXCEPT !.finished = s.round + 1 = NumRounds \/ NumActing(s) = 1,
                          !.round = IF NumActing(s) = 1 THEN NumRounds - 1
                                    ELSE Smaller(@ + 1, NumRounds - 1),
                          !.minNoLimitRaiseTo = MinRaiseOfNextRound(s)]

(* The rest of doAction: has the round or the game ended?                  *)
Settle(s) ==
  CASE NumFolded(s) + 1 >= NumPlayers ->
         [s EXCEPT !.finished = TRUE]
    [] NumFolded(s) + 1 < NumPlayers /\ NumCalled(s) < NumActing(s) ->
         s
    [] NumFolded(s) + 1 < NumPlayers /\ NumCalled(s) >= NumActing(s) ->
         CASE NumActing(s) <= 1 ->
                [s EXCEPT !.finished = TRUE, !.round = NumRounds - 1]
           [] NumActing(s) > 1 /\ s.round + 1 < NumRounds ->
                [s EXCEPT !.round = @ + 1,
                          !.minNoLimitRaiseTo = MinRaiseOfNextRound(s)]
           [] NumActing(s) > 1 /\ s.round + 1 >= NumRounds ->
                [s EXCEPT !.finished = TRUE]

DoAction(s, a) == Settle(RecordAction(s, a))

(***************************************************************************)
(* Replaying a betting sequence                                            *)
(***************************************************************************)
(* The actions of the hand so far, in the order they were made.            *)
Betting(s) == FlattenSeq([i \in 1 .. s.round + 1 |-> s.action[i - 1]])

TotalAction(s) == Len(Betting(s))

(* doAction on every action of log, starting from s.                       *)
Replay(s, log) == FoldLeft(DoAction, s, log)

(* What printAction writes and readAction gets back: only a no-limit raise *)
(* carries its size.                                                       *)
PrintedAction(e) ==
  [type |-> e.type, size |-> IF e.type = "raise" /\ NoLimit THEN e.size ELSE 0]

(* readBetting: apply the printed actions one by one, giving up (-1) on    *)
(* the first one isValidAction refuses without fixing.                     *)
ReadOne(b, e) ==
  IF b.ok /\ IsValidAction(b.state, FALSE, PrintedAction(e))
  THEN [b EXCEPT !.state = DoAction(b.state, PrintedAction(e))]
  ELSE [b EXCEPT !.ok = FALSE]

ReadBetting(s, log) == FoldLeft(ReadOne, [ok |-> TRUE, state |-> s], log)

(* Mutant: only the actions of the current round are counted.               *)
StepBackActionInRound(s, oldStack, back) ==
  LET keep == Len(RoundLog(s)) - back
  IN  IF keep <= 0 THEN InitState(0, oldStack)
      ELSE Replay(InitState(s.handId, s.stackPlayer), SubSeq(Betting(s), 1, keep))

(* StepBackAction into a target whose stacks were oldStack: the hand with  *)
(* its last back actions undone.  Stacks and hand are copied from the      *)
(* reference only when there is an action to redo.                         *)
StepBackAction(s, oldStack, back) ==
  LET keep == TotalAction(s) - back
  IN  IF keep = 0 THEN InitState(0, oldStack)
      ELSE Replay(InitState(s.handId, s.stackPlayer), SubSeq(Betting(s), 1, keep))

=============================================================================
