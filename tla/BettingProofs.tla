--------------------------- MODULE BettingProofs ---------------------------
(***************************************************************************)
(* Proofs about Betting for any number of players, rounds, blinds, stacks  *)
(* and raise sizes: currentPlayer is defined in every hand that is not     *)
(* over, nobody bets beyond its stack, maxSpent is the largest bet, an     *)
(* accepted action meets doAction's assertions, a hand is the same when it *)
(* is read back or stepped back, rounds are closed when every bet is       *)
(* answered, raises step up, and the children of the abstract game         *)
(* (ActionAbs) are actions the hand can go on with.  Of a finished hand    *)
(* (Showdown), for any ranks: valueOfState pays out what was put in and no *)
(* more, by the rules of table stakes.                                     *)
(*                                                                         *)
(* The module goes from the two inductive invariants ChipsInv and BetInv,  *)
(* which GameProofs shows doAction to keep, to the theorems on chips, and  *)
(* from there to those on the log of actions, the rounds, the raises, the  *)
(* children and the payoff.                                                *)
(***************************************************************************)
EXTENDS ActionAbs, Showdown, GameProofs

USE DEF Players, Rounds

(***************************************************************************)
(* The inductive invariants.  ChipsInv is what keeps the hand going and    *)
(* needs PlayableStacks only; BetInv adds what maxSpent and the minimum    *)
(* raise mean, and needs BetsFit as well.                                  *)
(***************************************************************************)
ChipsInv ==
  /\ TypeOK
  /\ state.stackPlayer \in Stacks
  /\ BetsAreCovered
  /\ SomeoneCanAct

BetInv ==
  /\ MaxSpentIsLargest
  /\ state.maxSpent >= 0
  /\ NoLimit => state.minNoLimitRaiseTo > state.maxSpent

-----------------------------------------------------------------------------
(***************************************************************************)
(* A player's action, by the lemmas about doAction.                        *)
(***************************************************************************)
LEMMA HandInvariants ==
  /\ ChipsInv <=> HandChips(state)
  /\ ChipsInv' <=> HandChips(state')
  /\ BetInv <=> HandBets(state)
  /\ BetInv' <=> HandBets(state')
  BY DEF ChipsInv, BetInv, HandChips, HandBets, TypeOK, BetsAreCovered, SomeoneCanAct,
         MaxSpentIsLargest

(* What was to act and what RecordAction and Settle did.                    *)
LEMMA TakeEffect ==
  ASSUME ChipsInv, NEW a \in Action, Take(a)
  PROVE  Moved(state, a, state')
  BY HandInvariants, ActionEffect DEF Take

(* No action puts in more than the stack.                                   *)
LEMMA TakeKeepsChips ==
  ASSUME ChipsInv, NEW a \in Action, Take(a)
  PROVE  ChipsInv'
  BY HandInvariants, ActionKeepsChips DEF Take

(* Only a raise moves maxSpent, to the raiser's own, larger total.          *)
LEMMA TakeKeepsBets ==
  ASSUME ChipsInv, BetInv, BetsFit, NEW a \in Action, Take(a)
  PROVE  BetInv'
  BY HandInvariants, ActionKeepsBets DEF Take

-----------------------------------------------------------------------------
(* A player folds, calls or raises; and the actions of Next, one by one.    *)
LEMMA PlayerTakes ==
  ASSUME PlayerActs
  PROVE  \E a \in Action : Take(a)
<1>1. CASE Fold
  <2>1. [type |-> "fold", size |-> 0] \in Action
    BY DEF Action
  <2> QED BY <1>1, <2>1 DEF Fold
<1>2. CASE Call
  <2>1. [type |-> "call", size |-> 0] \in Action
    BY DEF Action
  <2> QED BY <1>2, <2>1 DEF Call
<1>3. CASE Raise
  <2>1. PICK n \in (IF NoLimit THEN RaiseSizes ELSE {0}) : Take([type |-> "raise", size |-> n])
    BY <1>3 DEF Raise
  <2>2. [type |-> "raise", size |-> n] \in Action
    BY BettingAssumption DEF Action
  <2> QED BY <2>1, <2>2
<1> QED
  BY <1>1, <1>2, <1>3 DEF PlayerActs

(* A step is an action of the player to act or a new hand.                  *)
LEMMA StepsOfNext ==
  ASSUME Next
  PROVE  \/ \E a \in Action : Take(a)
         \/ \E h \in HandIds, st \in Stacks : state' = InitState(h, st)
<1>1. CASE PlayerActs
  BY <1>1, PlayerTakes
<1>2. CASE NewHand
  BY <1>2 DEF NewHand
<1> QED
  BY <1>1, <1>2 DEF Next, PlayerActs

(* ChipsInv is inductive.                                                   *)
LEMMA ChipsHold ==
  ASSUME PlayableStacks
  PROVE  Spec => []ChipsInv
<1>1. Init => ChipsInv
  BY InitStateEffect, BettingAssumption DEF Init, ChipsInv, TypeOK, BetsAreCovered, SomeoneCanAct
<1>2. ChipsInv /\ [Next]_vars => ChipsInv'
  <2>1. ASSUME ChipsInv, NEW a \in Action, Take(a) PROVE ChipsInv'
    BY <2>1, TakeKeepsChips
  <2>2. ASSUME NEW h \in HandIds, NEW st \in Stacks, state' = InitState(h, st) PROVE ChipsInv'
    BY <2>2, InitStateEffect, BettingAssumption DEF ChipsInv, TypeOK, BetsAreCovered, SomeoneCanAct
  <2>3. ASSUME ChipsInv, UNCHANGED vars PROVE ChipsInv'
    BY <2>3 DEF ChipsInv, TypeOK, BetsAreCovered, SomeoneCanAct, vars
  <2> QED BY <2>1, <2>2, <2>3, StepsOfNext
<1> QED
  BY <1>1, <1>2, PTL DEF Spec

(* So is ChipsInv /\ BetInv, when the sizes and stacks fit.                *)
LEMMA BetsHold ==
  ASSUME PlayableStacks, BetsFit
  PROVE  Spec => []BetInv
<1>1. Init => BetInv
  BY InitBets, BettingAssumption DEF Init, BetInv, MaxSpentIsLargest
<1>2. ChipsInv /\ BetInv /\ [Next]_vars => BetInv'
  <2>1. ASSUME ChipsInv, BetInv, NEW a \in Action, Take(a) PROVE BetInv'
    BY <2>1, TakeKeepsBets
  <2>2. ASSUME NEW h \in HandIds, NEW st \in Stacks, state' = InitState(h, st) PROVE BetInv'
    BY <2>2, InitBets, BettingAssumption DEF BetInv, MaxSpentIsLargest
  <2>3. ASSUME BetInv, UNCHANGED vars PROVE BetInv'
    BY <2>3 DEF BetInv, MaxSpentIsLargest, vars
  <2> QED BY <2>1, <2>2, <2>3, StepsOfNext
<1>3. Spec => []ChipsInv
  BY ChipsHold
<1> QED
  BY <1>1, <1>2, <1>3, PTL DEF Spec

(* Nobody's stake is negative.                                              *)
StakesInv == Stakes(state)

(* An action takes from a stack no more than is in it.                      *)
LEMMA TakeKeepsStakes ==
  ASSUME ChipsInv, BetInv, BetsFit, StakesInv, NEW a \in Action, Take(a)
  PROVE  StakesInv'
<1>1. Stakes(state')
  BY HandInvariants, ActionKeepsStakes DEF StakesInv, Take
<1> QED
  BY <1>1 DEF StakesInv, Stakes

(* The stakes are counts in every state of a hand.                          *)
LEMMA StakesHold ==
  ASSUME PlayableStacks, BetsFit
  PROVE  Spec => []StakesInv
<1>1. Init => StakesInv
  BY DealtStakes DEF Init, StakesInv
<1>2. ChipsInv /\ BetInv /\ StakesInv /\ [Next]_vars => StakesInv'
  <2>1. ASSUME NEW h \in HandIds, NEW st \in Stacks, state' = InitState(h, st) PROVE StakesInv'
    <3>1. Stakes(state')
      BY <2>1, DealtStakes
    <3> QED BY <3>1 DEF StakesInv, Stakes
  <2>2. ASSUME StakesInv, UNCHANGED vars PROVE StakesInv'
    BY <2>2 DEF StakesInv, Stakes, vars
  <2> QED BY <2>1, <2>2, TakeKeepsStakes, StepsOfNext
<1> QED
  BY <1>1, <1>2, ChipsHold, BetsHold, PTL DEF Spec

(* The hand on the table is always the one its betting tells.               *)
LEMMA TakeIsRetold ==
  ASSUME ChipsInv, Retold(state), NEW a \in Action, Take(a)
  PROVE  /\ Retold(state') /\ Betting(state) \in Seq(LogEntry)
         /\ Dealt(state') = Dealt(state)
         /\ \E e \in LogEntry : Betting(state') = Append(Betting(state), e)
<1> DEFINE f == FixedAction(state, a)
<1>1. HandChips(state) /\ Playable(state, f) /\ state' = DoAction(state, f)
  BY HandInvariants, FixedIsPlayable DEF Take
<1> HIDE DEF f
<1> QED
  BY <1>1, PlayedIsRetold, PlayedHand DEF Dealt

RetoldInv == Retold(state)

(* Replaying the betting of a hand leads to its state, always.              *)
LEMMA RetoldHolds ==
  ASSUME PlayableStacks
  PROVE  Spec => []RetoldInv
<1>1. Init => RetoldInv
  BY DealtIsRetold, BettingAssumption DEF Init, RetoldInv
<1>2. ChipsInv /\ RetoldInv /\ [Next]_vars => RetoldInv'
  <2>1. ASSUME ChipsInv, Retold(state), NEW a \in Action, Take(a) PROVE Retold(state')
    BY <2>1, TakeIsRetold
  <2>2. ASSUME NEW h \in HandIds, NEW st \in Stacks, state' = InitState(h, st)
        PROVE  Retold(state')
    BY <2>2, DealtIsRetold, BettingAssumption
  <2>3. ASSUME Retold(state), UNCHANGED vars PROVE Retold(state')
    BY <2>3 DEF vars
  <2> QED BY <2>1, <2>2, <2>3, StepsOfNext DEF RetoldInv
<1>3. Spec => []ChipsInv
  BY ChipsHold
<1> QED
  BY <1>1, <1>2, <1>3, PTL DEF Spec

-----------------------------------------------------------------------------
(***************************************************************************)
(* The theorems                                                            *)
(***************************************************************************)

(* Whatever is asked for, struct State stays a hand: rounds, actions and    *)
(* amounts keep their types.                                                *)
THEOREM TypesHold ==
  ASSUME PlayableStacks
  PROVE  Spec => []TypeOK
<1>1. ChipsInv => TypeOK
  BY DEF ChipsInv
<1> QED
  BY <1>1, ChipsHold, PTL

(* nextPlayer's loop terminates in every hand that is not over: doAction    *)
(* closes the betting no later than when nobody is left to act.             *)
THEOREM TurnsAreDefined ==
  ASSUME PlayableStacks
  PROVE  Spec => []SomeoneCanAct
<1>1. ChipsInv => SomeoneCanAct
  BY DEF ChipsInv
<1> QED
  BY <1>1, ChipsHold, PTL

(* Nobody ever has more in the pot than it sat down with.                   *)
THEOREM StacksCoverBets ==
  ASSUME PlayableStacks
  PROVE  Spec => []BetsAreCovered
<1>1. ChipsInv => BetsAreCovered
  BY DEF ChipsInv
<1> QED
  BY <1>1, ChipsHold, PTL

(* maxSpent is the largest bet, in no-limit games whose amounts fit an      *)
(* int32_t and in limit games with equal stacks.  (Without the second       *)
(* hypothesis it is not: a short stack's limit raise lowers it.)            *)
THEOREM MaxSpentHolds ==
  ASSUME PlayableStacks, BetsFit
  PROVE  Spec => []MaxSpentIsLargest
<1>1. BetInv => MaxSpentIsLargest
  BY DEF BetInv
<1> QED
  BY <1>1, BetsHold, PTL

(* doAction's assertions on a no-limit raise never fail for an action that  *)
(* isValidAction has let through and fixed.                                 *)
THEOREM AssertsHold ==
  ASSUME PlayableStacks, BetsFit
  PROVE  Spec => []AcceptedActionMeetsAsserts
<1>1. ChipsInv /\ BetInv => AcceptedActionMeetsAsserts
  <2> SUFFICES ASSUME ChipsInv, BetInv, NEW n \in RaiseSizes, NoLimit,
                      IsValidAction(state, TRUE, [type |-> "raise", size |-> n])
               PROVE  /\ FixedAction(state, [type |-> "raise", size |-> n]).size > state.maxSpent
                      /\ FixedAction(state, [type |-> "raise", size |-> n]).size
                           <= state.stackPlayer[CurrentPlayer(state)]
    BY DEF AcceptedActionMeetsAsserts
  <2> DEFINE a == [type |-> "raise", size |-> n]
  <2>1. a \in Action /\ a.type = "raise"
    BY BettingAssumption DEF Action
  <2>2. state \in State /\ state.minNoLimitRaiseTo > state.maxSpent
    BY DEF ChipsInv, TypeOK, BetInv
  <2>3. CurrentPlayer(state) \in Players
    <3>1. Acting(state) # {}
      BY DEF ChipsInv, SomeoneCanAct, IsValidAction
    <3> QED BY <2>2, <3>1, TurnIsAnActingPlayers DEF Acting
  <2> HIDE DEF a
  <2>4. IsValidAction(state, TRUE, a)
    BY DEF a
  <2> QED BY <2>1, <2>2, <2>3, <2>4, FixedActionIsPlayable, RaiseExceedsBet DEF a
<1> QED
  BY <1>1, ChipsHold, BetsHold, PTL

(* A client that reads the betting a table prints, checking every action as *)
(* readBetting does, accepts all of it and has the table's own state.       *)
THEOREM ReadBackHolds ==
  ASSUME PlayableStacks
  PROVE  Spec => []ReadBackAgrees
<1>1. RetoldInv => ReadBackAgrees
  BY DEF RetoldInv, Retold, Dealt, ReadBackAgrees
<1> QED
  BY <1>1, RetoldHolds, PTL

(* StepBackAction, which deals the hand again and replays it but for the    *)
(* last action, arrives at the state that action was taken in.              *)
THEOREM StepBackHolds ==
  ASSUME PlayableStacks
  PROVE  Spec => StepBackUndoes
<1>1. ASSUME ChipsInv, Retold(state), PlayerActs, TotalAction(state') > 1
      PROVE  StepBackAction(state', state.stackPlayer, 1) = state
  <2> DEFINE b == Betting(state)
  <2>1. PICK a \in Action : Take(a)
    BY <1>1, PlayerTakes
  <2>2. /\ b \in Seq(LogEntry) /\ Dealt(state') = Dealt(state)
        /\ \E e \in LogEntry : Betting(state') = Append(b, e)
    BY <1>1, <2>1, TakeIsRetold
  <2>3. PICK e \in LogEntry : Betting(state') = Append(b, e)
    BY <2>2
  <2>4. Replay(Dealt(state), b) = state
    BY <1>1 DEF Retold
  <2> HIDE DEF b
  <2>5. Len(Append(b, e)) = Len(b) + 1 /\ Len(b) \in Nat /\ SubSeq(Append(b, e), 1, Len(b)) = b
    BY <2>2
  <2>6. TotalAction(state') - 1 = Len(b) /\ Len(b) # 0
    BY <1>1, <2>3, <2>5 DEF TotalAction
  <2> QED BY <2>2, <2>3, <2>4, <2>5, <2>6 DEF StepBackAction, Dealt
<1>2. ChipsInv /\ RetoldInv /\ [Next]_vars
        => [PlayerActs /\ TotalAction(state') > 1
              => StepBackAction(state', state.stackPlayer, 1) = state]_vars
  BY <1>1 DEF RetoldInv
<1> QED
  BY <1>2, ChipsHold, RetoldHolds, PTL DEF Spec, StepBackUndoes

-----------------------------------------------------------------------------
(***************************************************************************)
(* The rounds.  Players act in turn, each at most once after a raise, so   *)
(* that a round is closed when and only when every player with chips       *)
(* behind has matched the bet and answered it.                             *)
(***************************************************************************)

(***************************************************************************)
(* The part of a round's log that counts                                   *)
(***************************************************************************)
Who(s, i) == RoundLog(s)[i].player

(* The last raise of the round and what came after it.                      *)
SinceRaise(s) ==
    {i \in DOMAIN RoundLog(s) :
        \A j \in DOMAIN RoundLog(s) : j > i => RoundLog(s)[j].type # "raise"}

Called(s) == {Who(s, i) : i \in Callers(s)}

(* How many seats q is ahead of p, once round the table for p itself.       *)
Ahead(p, q) == IF q > p THEN q - p ELSE q + NumPlayers - p

Distinct(s)  == \A i, j \in SinceRaise(s) : Who(s, i) = Who(s, j) => i = j
FoldsStay(s) == \A i \in SinceRaise(s) :
                    RoundLog(s)[i].type = "fold" => s.playerFolded[Who(s, i)]
Matched(s)   == \A p \in Called(s) : /\ ~s.playerFolded[p]
                                     /\ s.spent[p] = s.maxSpent
                                     /\ s.sumRoundSpent[s.round][p] = s.maxSpent

(* Those who have called are the last before the one who acted last.        *)
InOrder(s) ==
    RoundLog(s) # << >> =>
        LET l == Who(s, Len(RoundLog(s))) IN
        \A p \in Called(s), q \in Acting(s) : Ahead(l, q) >= Ahead(l, p) => q \in Called(s)

OnePass(s) == Distinct(s) /\ FoldsStay(s) /\ Matched(s) /\ InOrder(s)
Open(s)    == NumCalled(s) < NumActing(s)

(* A raise leaves room for the answers to it.                               *)
Room(s) == \A i \in DOMAIN RoundLog(s) :
               RoundLog(s)[i].type = "raise" => i + NumPlayers - 1 <= MaxNumActions

-----------------------------------------------------------------------------
(* The types of a hand and of its round's log, in the form the lemmas need. *)
LEMMA LogTypes ==
  ASSUME NEW s \in State
  PROVE  /\ s.round \in Rounds /\ RoundLog(s) \in Seq(LogEntry)
         /\ Len(RoundLog(s)) \in Nat /\ DOMAIN RoundLog(s) = 1 .. Len(RoundLog(s))
         /\ \A i \in DOMAIN RoundLog(s) :
              Who(s, i) \in Players /\ RoundLog(s)[i].type \in Played
         /\ Callers(s) \subseteq SinceRaise(s) /\ SinceRaise(s) \subseteq DOMAIN RoundLog(s)
         /\ IsFiniteSet(SinceRaise(s)) /\ IsFiniteSet(Callers(s)) /\ IsFiniteSet(Acting(s))
<1>1. s.round \in Rounds /\ RoundLog(s) \in Seq(LogEntry)
  BY DEF State, RoundLog
<1>2. Len(RoundLog(s)) \in Nat /\ DOMAIN RoundLog(s) = 1 .. Len(RoundLog(s))
  BY <1>1
<1>3. \A i \in DOMAIN RoundLog(s) : RoundLog(s)[i] \in LogEntry
  BY <1>1, <1>2
<1>4. \A i \in DOMAIN RoundLog(s) : Who(s, i) \in Players /\ RoundLog(s)[i].type \in Played
  BY <1>3 DEF LogEntry, Who, Played
<1>5. Callers(s) \subseteq SinceRaise(s) /\ SinceRaise(s) \subseteq DOMAIN RoundLog(s)
  BY DEF Callers, SinceRaise
<1>6. IsFiniteSet(DOMAIN RoundLog(s))
  BY <1>2, FS_Interval
<1>7. IsFiniteSet(SinceRaise(s)) /\ IsFiniteSet(Callers(s))
  BY <1>5, <1>6, FS_Subset
<1>8. IsFiniteSet(Acting(s))
  BY PlayersFinite, FS_Subset DEF Acting
<1> QED
  BY <1>1, <1>2, <1>4, <1>5, <1>7, <1>8

(* With one entry a caller, the count of the callers is that of the players *)
(* who have called; doAction's comparison asks whether these are all.       *)
LEMMA CallersAreCounted ==
  ASSUME NEW s \in State, Distinct(s), Matched(s)
  PROVE  /\ Called(s) \subseteq Acting(s)
         /\ NumCalled(s) \in Nat /\ NumActing(s) \in Nat
         /\ NumCalled(s) >= NumActing(s) <=> Called(s) = Acting(s)
<1> DEFINE f == [i \in Callers(s) |-> Who(s, i)]
<1>1. Called(s) \subseteq Acting(s)
  <2>1. ASSUME NEW i \in Callers(s) PROVE Who(s, i) \in Acting(s)
    <3>1. Who(s, i) \in Players /\ Who(s, i) \in Called(s)
      BY LogTypes DEF Called
    <3>2. Owes(s, Who(s, i))
      BY DEF Callers, Who
    <3> QED BY <3>1, <3>2 DEF Matched, Acting, CanAct
  <2> QED BY <2>1 DEF Called
<1>2. f \in Bijection(Callers(s), Called(s))
  <2>1. f \in [Callers(s) -> Called(s)]
    BY DEF Called
  <2>2. \A i, j \in Callers(s) : f[i] = f[j] => i = j
    BY LogTypes DEF Distinct
  <2>3. \A p \in Called(s) : \E i \in Callers(s) : f[i] = p
    BY DEF Called
  <2> HIDE DEF f
  <2> QED BY <2>1, <2>2, <2>3 DEF Bijection, Injection, Surjection, IsInjective
<1>3. IsFiniteSet(Called(s)) /\ Cardinality(Called(s)) = NumCalled(s)
  <2>1. ExistsBijection(Callers(s), Called(s))
    BY <1>2 DEF ExistsBijection
  <2> QED BY <2>1, LogTypes, FS_Bijection DEF NumCalled
<1>4. NumCalled(s) \in Nat /\ NumActing(s) \in Nat
  BY <1>3, LogTypes, FS_CardinalityType DEF NumActing
<1>5. /\ Cardinality(Called(s)) <= Cardinality(Acting(s))
      /\ Cardinality(Acting(s)) = Cardinality(Called(s)) => Acting(s) = Called(s)
  BY <1>1, LogTypes, FS_Subset
<1> QED
  BY <1>1, <1>3, <1>4, <1>5 DEF NumActing

(***************************************************************************)
(* Whose turn it is                                                        *)
(***************************************************************************)
(* Ahead is the number of steps of nextPlayer's walk from p to q.           *)
LEMMA AheadIsDistance ==
  ASSUME NEW p \in Players, NEW q \in Players
  PROVE  /\ Ahead(p, q) \in 1 .. NumPlayers
         /\ (p + Ahead(p, q)) % NumPlayers = q
         /\ \A d \in 1 .. NumPlayers : (p + d) % NumPlayers = q => d = Ahead(p, q)
<1>1. NumPlayers \in Nat \ {0} /\ p \in 0 .. NumPlayers - 1 /\ q \in 0 .. NumPlayers - 1
  BY Sizes
<1>2. Ahead(p, q) \in 1 .. NumPlayers
  BY <1>1 DEF Ahead
<1>3. p + Ahead(p, q) = q \/ p + Ahead(p, q) = q + NumPlayers
  BY <1>1 DEF Ahead
<1>4. (p + Ahead(p, q)) % NumPlayers = q
  BY <1>1, <1>3, ModWrap
<1>5. ASSUME NEW d \in 1 .. NumPlayers, (p + d) % NumPlayers = q
      PROVE  d = Ahead(p, q)
  <2>1. CASE p + d < NumPlayers
    <3>1. (p + d) % NumPlayers = p + d
      BY <1>1, <2>1, ModWrap
    <3> QED BY <1>1, <1>5, <3>1 DEF Ahead
  <2>2. CASE p + d >= NumPlayers
    <3>1. p + d - NumPlayers \in 0 .. NumPlayers - 1
      BY <1>1, <2>2
    <3>2. (p + d - NumPlayers + NumPlayers) % NumPlayers = p + d - NumPlayers
      BY <1>1, <3>1, ModWrap
    <3>3. p + d - NumPlayers + NumPlayers = p + d
      BY <1>1
    <3>4. q = p + d - NumPlayers
      BY <1>5, <3>2, <3>3
    <3> QED BY <1>1, <3>4 DEF Ahead
  <2> QED BY <1>1, <2>1, <2>2
<1> QED
  BY <1>2, <1>4, <1>5

(* nextPlayer stops at the first player who can act.                        *)
LEMMA NextPlayerIsNearest ==
  ASSUME NEW s, NEW p \in Players, NEW q \in Acting(s)
  PROVE  Ahead(p, NextPlayer(s, p)) <= Ahead(p, q)
<1> DEFINE best(d) == \A e \in Distances(s, p) : d <= e
<1>1. q \in Players /\ CanAct(s, q)
  BY DEF Acting
<1>2. Ahead(p, q) \in Distances(s, p)
  BY <1>1, AheadIsDistance DEF Distances
<1>3. Distances(s, p) \in SUBSET Nat
  BY Sizes DEF Distances
<1>4. \E d \in Distances(s, p) : best(d)
  BY <1>2, <1>3, Reader!LeastNatural
<1>5. PICK d \in Distances(s, p) : best(d) /\ NextPlayer(s, p) = (p + d) % NumPlayers
  BY <1>4 DEF NextPlayer
<1>6. d \in 1 .. NumPlayers
  BY <1>5 DEF Distances
<1>7. NextPlayer(s, p) \in Players
  BY <1>5, <1>6, ModRange, Sizes
<1>8. d = Ahead(p, NextPlayer(s, p))
  BY <1>5, <1>6, <1>7, AheadIsDistance
<1> QED
  BY <1>2, <1>5, <1>8

(* While a round is open, the player whose turn it is has not acted since   *)
(* the last raise.                                                          *)
LEMMA TurnIsNew ==
  ASSUME NEW s \in State, OnePass(s), Open(s), Acting(s) # {}
  PROVE  /\ CurrentPlayer(s) \in Acting(s)
         /\ \A i \in SinceRaise(s) : Who(s, i) # CurrentPlayer(s)
         /\ RoundLog(s) # << >> =>
              \A q \in Acting(s) : Ahead(Who(s, Len(RoundLog(s))), CurrentPlayer(s))
                                     <= Ahead(Who(s, Len(RoundLog(s))), q)
<1> DEFINE p == CurrentPlayer(s)
           l == Who(s, Len(RoundLog(s)))
<1>1. p \in Acting(s)
  BY TurnIsAnActingPlayers
<1>2. ASSUME RoundLog(s) # << >>
      PROVE  l \in Players /\ \A q \in Acting(s) : Ahead(l, p) <= Ahead(l, q)
  <2>1. l \in Players
    BY <1>2, LogTypes
  <2>2. p = NextPlayer(s, l)
    BY <1>2 DEF CurrentPlayer, Who
  <2> HIDE DEF p, l
  <2> QED BY <2>1, <2>2, NextPlayerIsNearest
<1>3. ASSUME NEW i \in SinceRaise(s), Who(s, i) = p
      PROVE  FALSE
  <2>1. i \in DOMAIN RoundLog(s) /\ RoundLog(s) # << >>
    BY <1>3, LogTypes
  <2>2. ~s.playerFolded[p] /\ Owes(s, p)
    BY <1>1 DEF Acting, CanAct
  <2>3. RoundLog(s)[i].type \in {"call", "raise"}
    BY <1>3, <2>1, <2>2, LogTypes DEF OnePass, FoldsStay, Played
  <2>4. i \in Callers(s)
    BY <1>3, <2>1, <2>2, <2>3 DEF Callers, SinceRaise, Who
  <2>5. p \in Called(s)
    BY <1>3, <2>4 DEF Called
  <2>6. \A q \in Acting(s) : Ahead(l, q) >= Ahead(l, p)
    <3>0. l \in Players /\ p \in Players /\ NumPlayers \in Nat /\ NumPlayers >= 2
      BY <1>1, <1>2, <2>1, Sizes DEF Acting
    <3>1. \A q \in Acting(s) : Ahead(l, q) \in Int /\ Ahead(l, p) \in Int
      <4> HIDE DEF p, l
      <4>1. \A q \in Players : Ahead(l, q) \in Int
        BY <3>0, AheadIsDistance
      <4>2. Acting(s) \subseteq Players
        BY DEF Acting
      <4> QED BY <3>0, <4>1, <4>2
    <3> HIDE DEF p, l
    <3> QED BY <1>2, <2>1, <3>1
  <2>7. Acting(s) \subseteq Called(s)
    BY <2>1, <2>5, <2>6 DEF OnePass, InOrder
  <2>8. NumCalled(s) >= NumActing(s)
    BY <2>7, CallersAreCounted DEF OnePass
  <2> QED BY <2>8, CallersAreCounted DEF Open, OnePass
<1> QED
  BY <1>1, <1>2, <1>3

(***************************************************************************)
(* RecordAction                                                            *)
(***************************************************************************)
(* The hand r that a, taken by p, makes of s; m is the number of its entry. *)
Recorded(s, a, p, r, m) ==
    /\ r \in State /\ r.round = s.round /\ r.finished = s.finished
    /\ r.stackPlayer = s.stackPlayer
    /\ DOMAIN RoundLog(r) = DOMAIN RoundLog(s) \cup {m} /\ m \notin DOMAIN RoundLog(s)
    /\ m = Len(RoundLog(r))
    /\ \A i \in DOMAIN RoundLog(s) : RoundLog(r)[i] = RoundLog(s)[i] /\ i < m
    /\ Who(r, m) = p /\ RoundLog(r)[m].type = a.type
    /\ \A q \in Rounds : q # s.round =>
         /\ r.action[q] = s.action[q]
         /\ r.sumRoundSpent[q] = s.sumRoundSpent[q]
    /\ \A q \in Players : q # p =>
         /\ r.playerFolded[q] = s.playerFolded[q] /\ r.spent[q] = s.spent[q]
         /\ r.sumRoundSpent[s.round][q] = s.sumRoundSpent[s.round][q]
    /\ r.playerFolded[p] = (s.playerFolded[p] \/ a.type = "fold")
    /\ r.spent[p] = NewSpent(s, a)
    /\ r.sumRoundSpent[s.round][p] =
         IF a.type = "fold" THEN s.sumRoundSpent[s.round][p] ELSE NewSpent(s, a)
    /\ r.maxSpent = IF a.type = "raise" THEN NewSpent(s, a) ELSE s.maxSpent

(* RecordAction, with an action that isValidAction accepts, is Recorded.    *)
LEMMA RecordedLog ==
  ASSUME NEW s \in State, NEW a \in Action, a.type \in Played,
         NEW p \in Players, p = CurrentPlayer(s),
         NEW r, r = RecordAction(s, a), NEW m, m = Len(RoundLog(s)) + 1
  PROVE  Recorded(s, a, p, r, m)
<1> DEFINE n     == NewSpent(s, a)
           entry == [type |-> a.type, size |-> a.size, player |-> p]
           t     == IF a.type = "fold" THEN s.sumRoundSpent[s.round][p] ELSE n
<1>1. /\ r \in State /\ r.spent = [s.spent EXCEPT ![p] = n] /\ r.stackPlayer = s.stackPlayer
      /\ r.maxSpent = IF a.type = "raise" THEN n ELSE s.maxSpent
  BY RecordActionEffect
<1>2. r.round = s.round /\ r.finished = s.finished
  BY DEF RecordAction, State
<1>3. r.action = [s.action EXCEPT ![s.round] = Append(s.action[s.round], entry)]
  BY DEF RecordAction, State
<1>4. r.playerFolded = [s.playerFolded EXCEPT ![p] = s.playerFolded[p] \/ a.type = "fold"]
  BY DEF RecordAction, State
<1>5. r.sumRoundSpent = [s.sumRoundSpent EXCEPT
                           ![s.round] = [s.sumRoundSpent[s.round] EXCEPT ![p] = t]]
  BY DEF RecordAction, State
<1>6. /\ s.round \in Rounds /\ s.action[s.round] \in Seq(LogEntry)
      /\ s.action \in [Rounds -> Seq(LogEntry)] /\ s.spent \in [Players -> Int]
      /\ s.playerFolded \in [Players -> BOOLEAN]
      /\ s.sumRoundSpent \in [Rounds -> [Players -> Int]]
      /\ s.sumRoundSpent[s.round] \in [Players -> Int]
  BY DEF State
<1>7. entry \in LogEntry /\ entry.type = a.type /\ entry.player = p
  BY DEF LogEntry, Action, Played
<1> HIDE DEF entry
<1>8. RoundLog(r) = Append(RoundLog(s), entry) /\ RoundLog(s) \in Seq(LogEntry)
  BY <1>2, <1>3, <1>6 DEF RoundLog
<1>9. /\ Len(RoundLog(s)) \in Nat /\ DOMAIN RoundLog(s) = 1 .. Len(RoundLog(s))
      /\ Len(RoundLog(r)) = m /\ DOMAIN RoundLog(r) = 1 .. m
      /\ RoundLog(r)[m] = entry
      /\ \A i \in 1 .. Len(RoundLog(s)) : RoundLog(r)[i] = RoundLog(s)[i]
  BY <1>7, <1>8
<1>10. /\ DOMAIN RoundLog(r) = DOMAIN RoundLog(s) \cup {m} /\ m \notin DOMAIN RoundLog(s)
       /\ \A i \in DOMAIN RoundLog(s) : i < m
  BY <1>9
<1>11. Who(r, m) = p /\ RoundLog(r)[m].type = a.type
  BY <1>7, <1>9 DEF Who
<1>12. \A q \in Rounds : q # s.round => /\ r.action[q] = s.action[q]
                                        /\ r.sumRoundSpent[q] = s.sumRoundSpent[q]
  BY <1>3, <1>5, <1>6
<1>13. r.sumRoundSpent[s.round] = [s.sumRoundSpent[s.round] EXCEPT ![p] = t]
  BY <1>5, <1>6
<1>14. /\ r.sumRoundSpent[s.round][p] = t
       /\ \A q \in Players : q # p => r.sumRoundSpent[s.round][q] = s.sumRoundSpent[s.round][q]
  BY <1>6, <1>13
<1>15. /\ r.playerFolded[p] = (s.playerFolded[p] \/ a.type = "fold")
       /\ \A q \in Players : q # p => r.playerFolded[q] = s.playerFolded[q]
  BY <1>4, <1>6
<1>16. r.spent[p] = n /\ \A q \in Players : q # p => r.spent[q] = s.spent[q]
  BY <1>1, <1>6
<1> QED
  BY <1>1, <1>2, <1>9, <1>10, <1>11, <1>12, <1>14, <1>15, <1>16 DEF Recorded

(* What an action does to the part of the log that counts: a raise starts   *)
(* it anew.                                                                 *)
LEMMA RecordedSince ==
  ASSUME NEW s \in State, NEW a \in Action, a.type \in Played,
         NEW p \in Players, NEW r, NEW m, m = Len(RoundLog(s)) + 1,
         Recorded(s, a, p, r, m), \A i \in SinceRaise(s) : Who(s, i) # p
  PROVE  /\ SinceRaise(r) = IF a.type = "raise" THEN {m} ELSE SinceRaise(s) \cup {m}
         /\ m \in Callers(r) => a.type \in {"call", "raise"} /\ Owes(r, p)
         /\ a.type \in {"call", "raise"} /\ Owes(r, p) => m \in Callers(r)
         /\ Callers(r) \ {m} = IF a.type = "raise" THEN {} ELSE Callers(s)
<1>1. /\ DOMAIN RoundLog(r) = DOMAIN RoundLog(s) \cup {m} /\ m \notin DOMAIN RoundLog(s)
      /\ \A i \in DOMAIN RoundLog(s) : RoundLog(r)[i] = RoundLog(s)[i] /\ i < m
      /\ Who(r, m) = p /\ RoundLog(r)[m].type = a.type
      /\ r.stackPlayer = s.stackPlayer
      /\ \A q \in Players : q # p => r.spent[q] = s.spent[q]
  BY DEF Recorded
<1>2. /\ \A i \in DOMAIN RoundLog(s) : i \in Nat
      /\ m \in Nat
  BY LogTypes
<1>3. SinceRaise(r) = IF a.type = "raise" THEN {m} ELSE SinceRaise(s) \cup {m}
  BY <1>1, <1>2 DEF SinceRaise
<1>4. ASSUME NEW i \in SinceRaise(s)
      PROVE  Who(r, i) = Who(s, i) /\ (Owes(r, Who(s, i)) <=> Owes(s, Who(s, i)))
  <2>1. i \in DOMAIN RoundLog(s) /\ Who(s, i) \in Players /\ Who(s, i) # p
    BY LogTypes
  <2> QED BY <1>1, <2>1 DEF Who, Owes
<1>5. Callers(r) = {i \in SinceRaise(r) : RoundLog(r)[i].type \in {"call", "raise"}
                                          /\ Owes(r, Who(r, i))}
  BY DEF Callers, SinceRaise, Who
<1>6. Callers(s) = {i \in SinceRaise(s) : RoundLog(s)[i].type \in {"call", "raise"}
                                          /\ Owes(s, Who(s, i))}
  BY DEF Callers, SinceRaise, Who
<1>7. SinceRaise(s) \subseteq DOMAIN RoundLog(s)
  BY LogTypes
<1>8. Callers(r) \ {m} = IF a.type = "raise" THEN {} ELSE Callers(s)
  BY <1>1, <1>3, <1>4, <1>5, <1>6, <1>7
<1>9. m \in SinceRaise(r)
  BY <1>3
<1> QED
  BY <1>1, <1>3, <1>5, <1>8, <1>9

(* What lies ahead of p as seen from l, the player before it.               *)
LEMMA AheadAdds ==
  ASSUME NEW l \in Players, NEW p \in Players, NEW q \in Players
  PROVE  /\ Ahead(l, p) \in Int /\ Ahead(p, p) = NumPlayers
         /\ q # p => Ahead(p, q) < NumPlayers
         /\ q # p /\ Ahead(l, p) <= Ahead(l, q) => Ahead(p, q) = Ahead(l, q) - Ahead(l, p)
  BY Sizes DEF Ahead

(* An action goes on with the pass round the table or starts a new one.     *)
LEMMA RecordedPass ==
  ASSUME NEW s \in State, OnePass(s), Open(s), Acting(s) # {},
         NEW a \in Action, a.type \in Played,
         NEW p \in Players, p = CurrentPlayer(s),
         NEW r, NEW m, m = Len(RoundLog(s)) + 1, Recorded(s, a, p, r, m)
  PROVE  OnePass(r) /\ Acting(r) \subseteq Acting(s)
<1>1. /\ p \in Acting(s) /\ \A i \in SinceRaise(s) : Who(s, i) # p
      /\ RoundLog(s) # << >> =>
           \A q \in Acting(s) : Ahead(Who(s, Len(RoundLog(s))), p)
                                  <= Ahead(Who(s, Len(RoundLog(s))), q)
  BY TurnIsNew
<1>2. /\ SinceRaise(r) = IF a.type = "raise" THEN {m} ELSE SinceRaise(s) \cup {m}
      /\ m \in Callers(r) => a.type \in {"call", "raise"} /\ Owes(r, p)
      /\ a.type \in {"call", "raise"} /\ Owes(r, p) => m \in Callers(r)
      /\ Callers(r) \ {m} = IF a.type = "raise" THEN {} ELSE Callers(s)
  BY <1>1, RecordedSince
<1>3. /\ \A i \in DOMAIN RoundLog(s) : /\ RoundLog(r)[i] = RoundLog(s)[i] /\ i # m
                                       /\ Who(r, i) = Who(s, i)
      /\ Who(r, m) = p /\ RoundLog(r)[m].type = a.type /\ m = Len(RoundLog(r))
      /\ r.stackPlayer = s.stackPlayer /\ r.round = s.round
  BY DEF Recorded, Who
<1>4. /\ \A q \in Players : q # p =>
           /\ r.playerFolded[q] = s.playerFolded[q] /\ r.spent[q] = s.spent[q]
           /\ r.sumRoundSpent[s.round][q] = s.sumRoundSpent[s.round][q]
      /\ r.playerFolded[p] = (s.playerFolded[p] \/ a.type = "fold")
      /\ r.spent[p] = NewSpent(s, a)
      /\ r.sumRoundSpent[s.round][p] =
         IF a.type = "fold" THEN s.sumRoundSpent[s.round][p] ELSE NewSpent(s, a)
      /\ r.maxSpent = IF a.type = "raise" THEN NewSpent(s, a) ELSE s.maxSpent
  BY DEF Recorded
<1>5. /\ SinceRaise(s) \subseteq DOMAIN RoundLog(s) /\ Callers(s) \subseteq SinceRaise(s)
      /\ \A i \in DOMAIN RoundLog(s) : Who(s, i) \in Players
  BY LogTypes
<1>6. ~s.playerFolded[p] /\ Owes(s, p)
  BY <1>1 DEF Acting, CanAct
<1>7. Acting(r) \subseteq Acting(s)
  <2>1. ASSUME NEW q \in Acting(r), q # p PROVE q \in Acting(s)
    BY <1>3, <1>4, <2>1 DEF Acting, CanAct, Owes
  <2> QED BY <1>1, <2>1
<1>8. Called(s) \subseteq Acting(s) /\ p \notin Called(s)
  <2>1. Called(s) \subseteq Acting(s)
    BY CallersAreCounted DEF OnePass
  <2> QED BY <1>1, <1>5, <2>1 DEF Called
<1>9. /\ Called(r) \ {p} = IF a.type = "raise" THEN {} ELSE Called(s)
      /\ p \in Called(r) => a.type \in {"call", "raise"} /\ Owes(r, p)
      /\ a.type \in {"call", "raise"} /\ Owes(r, p) => p \in Called(r)
  <2>1. ASSUME NEW i \in Callers(r), i # m PROVE Who(r, i) = Who(s, i) /\ i \in Callers(s)
                                                 /\ a.type # "raise" /\ Who(r, i) # p
    BY <1>1, <1>2, <1>3, <1>5, <2>1
  <2>2. ASSUME a.type # "raise", NEW i \in Callers(s)
        PROVE  Who(r, i) = Who(s, i) /\ i \in Callers(r)
    BY <1>2, <1>3, <1>5, <2>2
  <2>3. p \in Called(r) <=> m \in Callers(r)
    BY <1>3, <2>1 DEF Called
  <2>4. Called(r) \ {p} = {Who(r, i) : i \in Callers(r) \ {m}}
    BY <1>3, <2>1 DEF Called
  <2>5. CASE a.type = "raise"
    BY <1>2, <2>3, <2>4, <2>5
  <2>6. CASE a.type # "raise"
    <3>1. Callers(r) \ {m} = Callers(s)
      BY <1>2, <2>6
    <3>2. {Who(r, i) : i \in Callers(s)} = Called(s)
      BY <2>2, <2>6 DEF Called
    <3> QED BY <1>2, <2>3, <2>4, <2>6, <3>1, <3>2
  <2> QED BY <2>5, <2>6
<1>10. Distinct(r)
  BY <1>1, <1>2, <1>3, <1>5 DEF OnePass, Distinct
<1>11. FoldsStay(r)
  <2>1. ASSUME NEW i \in SinceRaise(r), RoundLog(r)[i].type = "fold"
        PROVE  r.playerFolded[Who(r, i)]
    <3>1. CASE i = m
      BY <1>3, <1>4, <2>1, <3>1
    <3>2. CASE i # m
      <4>1. i \in SinceRaise(s) /\ Who(r, i) = Who(s, i) /\ RoundLog(s)[i].type = "fold"
        BY <1>2, <1>3, <1>5, <2>1, <3>2
      <4>2. Who(s, i) \in Players /\ Who(s, i) # p /\ s.playerFolded[Who(s, i)]
        BY <1>1, <1>5, <4>1 DEF OnePass, FoldsStay
      <4> QED BY <1>4, <4>1, <4>2
    <3> QED BY <3>1, <3>2
  <2> QED BY <2>1 DEF FoldsStay
<1>12. Matched(r)
  <2>1. ASSUME NEW q \in Called(r), q # p
        PROVE  /\ ~r.playerFolded[q] /\ r.spent[q] = r.maxSpent
               /\ r.sumRoundSpent[s.round][q] = r.maxSpent
    <3>1. q \in Called(s) /\ a.type # "raise" /\ q \in Players
      BY <1>8, <1>9, <2>1 DEF Acting
    <3> QED BY <1>4, <2>1, <3>1 DEF OnePass, Matched
  <2>2. ASSUME p \in Called(r)
        PROVE  /\ ~r.playerFolded[p] /\ r.spent[p] = r.maxSpent
               /\ r.sumRoundSpent[s.round][p] = r.maxSpent
    <3>1. a.type \in {"call", "raise"} /\ Owes(r, p)
      BY <1>9, <2>2
    <3>2. NewSpent(s, a) = r.maxSpent
      <4>1. CASE a.type = "raise"
        BY <1>4, <4>1
      <4>2. CASE a.type = "call"
        <5>1. NewSpent(s, a) = Smaller(s.maxSpent, s.stackPlayer[p]) /\ r.maxSpent = s.maxSpent
          BY <1>4, <4>2 DEF NewSpent
        <5>2. NewSpent(s, a) < s.stackPlayer[p]
          BY <1>3, <1>4, <3>1 DEF Owes
        <5>3. s.maxSpent \in Int /\ s.stackPlayer[p] \in Int
          BY DEF State
        <5> QED BY <5>1, <5>2, <5>3 DEF Smaller
      <4> QED BY <3>1, <4>1, <4>2
    <3> QED BY <1>4, <1>6, <3>1, <3>2
  <2> QED BY <1>3, <2>1, <2>2 DEF Matched
<1>13. InOrder(r)
  <2>1. Who(r, Len(RoundLog(r))) = p
    BY <1>3
  <2>2. ASSUME NEW x \in Called(r), NEW y \in Acting(r), Ahead(p, y) >= Ahead(p, x)
        PROVE  y \in Called(r)
    <3>1. y \in Acting(s) /\ y \in Players
      BY <1>7 DEF Acting
    <3>2. CASE y = p
      <4>1. Owes(r, p) /\ ~r.playerFolded[p]
        BY <3>2 DEF Acting, CanAct
      <4> QED BY <1>4, <1>9, <3>2, <4>1 DEF Played
    <3>3. CASE y # p /\ x = p
      <4>1. Ahead(p, p) = NumPlayers /\ Ahead(p, y) < NumPlayers /\ Ahead(p, y) \in Int
        BY <3>1, <3>3, AheadAdds
      <4> QED BY <2>2, <3>3, <4>1, Sizes
    <3>4. CASE y # p /\ x # p
      <4> DEFINE l == Who(s, Len(RoundLog(s)))
      <4>1. x \in Called(s) /\ a.type # "raise"
        BY <1>9, <3>4
      <4>2. x \in Acting(s) /\ x \in Players
        BY <1>8, <4>1 DEF Acting
      <4>3. RoundLog(s) # << >>
        <5>1. \E i : i \in DOMAIN RoundLog(s)
          BY <1>5, <4>1 DEF Called
        <5> QED BY <5>1
      <4>4. l \in Players
        BY <4>3, LogTypes
      <4>5. Ahead(l, p) <= Ahead(l, x) /\ Ahead(l, p) <= Ahead(l, y)
        BY <1>1, <3>1, <4>2, <4>3
      <4> HIDE DEF l
      <4>6. /\ Ahead(p, x) = Ahead(l, x) - Ahead(l, p) /\ Ahead(p, y) = Ahead(l, y) - Ahead(l, p)
            /\ Ahead(l, x) \in Int /\ Ahead(l, y) \in Int /\ Ahead(l, p) \in Int
        BY <3>1, <3>4, <4>2, <4>4, <4>5, AheadAdds
      <4>7. Ahead(l, y) >= Ahead(l, x)
        BY <2>2, <4>6
      <4>8. y \in Called(s)
        BY <3>1, <4>1, <4>3, <4>7 DEF OnePass, InOrder, l
      <4> QED BY <1>9, <3>4, <4>1, <4>8
    <3> QED BY <3>2, <3>3, <3>4
  <2> QED BY <2>1, <2>2 DEF InOrder
<1> QED
  BY <1>7, <1>10, <1>11, <1>12, <1>13 DEF OnePass

(***************************************************************************)
(* Settle                                                                  *)
(***************************************************************************)
Contested(s) == NumFolded(s) + 1 < NumPlayers

(* Settle goes on with the round, opens the next one or ends the hand.      *)
LEMMA SettleOutcomes ==
  ASSUME NEW s \in State, NEW t, t = Settle(s)
  PROVE  /\ t.action = s.action /\ t.spent = s.spent /\ t.stackPlayer = s.stackPlayer
         /\ t.playerFolded = s.playerFolded /\ t.maxSpent = s.maxSpent
         /\ t.sumRoundSpent = s.sumRoundSpent
         /\ \/ ~Contested(s) /\ t.finished
            \/ Open(s) /\ t = s
            \/ Contested(s) /\ ~Open(s) /\ t.finished
            \/ /\ Contested(s) /\ ~Open(s) /\ NumActing(s) > 1
               /\ t.finished = s.finished /\ t.round = s.round + 1 /\ t.round \in Rounds
<1>1. NumFolded(s) \in Nat /\ NumActing(s) \in Nat /\ NumCalled(s) \in Nat
  <2>1. IsFiniteSet(Folded(s))
    BY PlayersFinite, FS_Subset DEF Folded
  <2> QED BY <2>1, LogTypes, FS_CardinalityType DEF NumFolded, NumActing, NumCalled
<1>2. NumPlayers \in Nat /\ NumRounds \in Nat /\ NumRounds >= 1 /\ s.round \in Rounds
  BY GameAssumption DEF State
<1>3. CASE ~Contested(s)
  <2>1. t = [s EXCEPT !.finished = TRUE]
    BY <1>1, <1>2, <1>3 DEF Settle, Contested
  <2> QED BY <1>3, <2>1 DEF State
<1>4. CASE Contested(s) /\ Open(s)
  <2>1. t = s
    BY <1>1, <1>2, <1>4 DEF Settle, Contested, Open
  <2> QED BY <1>4, <2>1
<1>5. CASE Contested(s) /\ ~Open(s) /\ NumActing(s) <= 1
  <2>1. t = [s EXCEPT !.finished = TRUE, !.round = NumRounds - 1]
    BY <1>1, <1>2, <1>5 DEF Settle, Contested, Open
  <2> QED BY <1>5, <2>1 DEF State
<1>6. CASE Contested(s) /\ ~Open(s) /\ NumActing(s) > 1 /\ s.round + 1 < NumRounds
  <2>1. t = [s EXCEPT !.round = s.round + 1,
                      !.minNoLimitRaiseTo = MinRaiseOfNextRound(s)]
    BY <1>1, <1>2, <1>6 DEF Settle, Contested, Open
  <2>2. s.round + 1 \in Rounds
    BY <1>2, <1>6
  <2> QED BY <1>6, <2>1, <2>2 DEF State
<1>7. CASE Contested(s) /\ ~Open(s) /\ NumActing(s) > 1 /\ s.round + 1 >= NumRounds
  <2>1. t = [s EXCEPT !.finished = TRUE]
    BY <1>1, <1>2, <1>7 DEF Settle, Contested, Open
  <2> QED BY <1>7, <2>1 DEF State
<1> QED
  BY <1>1, <1>2, <1>3, <1>4, <1>5, <1>6, <1>7

(***************************************************************************)
(* doAction                                                                *)
(***************************************************************************)
RoundGoesOn(s) == OnePass(s) /\ Open(s) /\ Room(s) /\ Later(s)

(* A round with no entry yet is a pass round the table that is open.        *)
LEMMA FreshRound ==
  ASSUME NEW s \in State, RoundLog(s) = << >>, Acting(s) # {}
  PROVE  OnePass(s) /\ Open(s) /\ Room(s)
<1>1. DOMAIN RoundLog(s) = {}
  OBVIOUS
<1>2. SinceRaise(s) = {} /\ Callers(s) = {} /\ Called(s) = {}
  BY <1>1 DEF SinceRaise, Callers, Called
<1>3. OnePass(s) /\ Room(s)
  BY <1>1, <1>2 DEF OnePass, Distinct, FoldsStay, Matched, InOrder, Room
<1>4. NumCalled(s) = 0 /\ NumActing(s) \in Nat /\ NumActing(s) # 0
  BY <1>2, LogTypes, FS_EmptySet, FS_CardinalityType DEF NumCalled, NumActing
<1> QED
  BY <1>3, <1>4 DEF Open

(* What an accepted action makes of a hand.                                 *)
Done(s, t) ==
    /\ t \in State
    /\ ~t.finished => RoundGoesOn(t)
    /\ Acting(t) \subseteq Acting(s)
    /\ \A q \in Rounds : q # s.round => t.sumRoundSpent[q] = s.sumRoundSpent[q]
    /\ ~t.finished => Contested(t) \/ t.round = s.round
    /\ t.finished \/ t.round \in {s.round, s.round + 1}
    /\ (t.round # s.round \/ t.finished) /\ Contested(t) =>
         \A p \in Acting(t) : /\ t.spent[p] = t.maxSpent
                              /\ t.sumRoundSpent[s.round][p] = t.maxSpent
                              /\ Answered(t, s.round, p)

(* doAction keeps what RoundInv says of a round, and closes it settled.     *)
LEMMA ActionKeepsRounds ==
  ASSUME Stacks # {}, NEW s \in State, ~s.finished, Acting(s) # {}, RoundGoesOn(s),
         NEW a \in Action, IsValidAction(s, TRUE, a),
         NEW t, t = DoAction(s, FixedAction(s, a))
  PROVE  Done(s, t)
<1> DEFINE p == CurrentPlayer(s)
           f == FixedAction(s, a)
           r == RecordAction(s, f)
           m == Len(RoundLog(s)) + 1
<1>1. p \in Players
  BY TurnIsAnActingPlayers DEF Acting
<1>2. f \in Action /\ f.type = a.type /\ f.type \in Played
  BY <1>1, FixedActionIsPlayable
<1>3. Recorded(s, f, p, r, m)
  BY <1>1, <1>2, RecordedLog
<1>4. OnePass(r) /\ Acting(r) \subseteq Acting(s)
  <2>1. OnePass(s) /\ Open(s)
    BY DEF RoundGoesOn
  <2> HIDE DEF f, r
  <2> QED BY <1>1, <1>2, <1>3, <2>1, RecordedPass
<1>5. t = Settle(r)
  BY DEF DoAction
<1>6. f.type = "raise" => Len(RoundLog(s)) + NumPlayers <= MaxNumActions
  BY <1>2 DEF IsValidAction, RaiseIsValid
<1> HIDE DEF p, f, r
<1>7. r \in State /\ r.round = s.round /\ r.finished = s.finished
      /\ \A q \in Rounds : q # s.round => /\ r.action[q] = s.action[q]
                                          /\ r.sumRoundSpent[q] = s.sumRoundSpent[q]
  BY <1>3 DEF Recorded
<1>8. Room(r)
  <2>1. /\ DOMAIN RoundLog(r) = DOMAIN RoundLog(s) \cup {m}
        /\ \A i \in DOMAIN RoundLog(s) : RoundLog(r)[i] = RoundLog(s)[i]
        /\ RoundLog(r)[m].type = f.type
    BY <1>3 DEF Recorded
  <2>2. Len(RoundLog(s)) \in Nat /\ MaxNumActions \in Nat /\ NumPlayers \in Nat
    BY LogTypes, GameAssumption
  <2>3. f.type = "raise" => m + NumPlayers - 1 <= MaxNumActions
    BY <1>6, <2>2
  <2> QED BY <2>1, <2>3 DEF RoundGoesOn, Room
<1>9. Later(r)
  BY <1>7, LogTypes DEF RoundGoesOn, Later
<1>10. /\ t.action = r.action /\ t.spent = r.spent /\ t.stackPlayer = r.stackPlayer
       /\ t.playerFolded = r.playerFolded /\ t.maxSpent = r.maxSpent
       /\ t.sumRoundSpent = r.sumRoundSpent
       /\ \/ ~Contested(r) /\ t.finished
          \/ Open(r) /\ t = r
          \/ Contested(r) /\ ~Open(r) /\ t.finished
          \/ /\ Contested(r) /\ ~Open(r) /\ NumActing(r) > 1
             /\ t.finished = r.finished /\ t.round = r.round + 1 /\ t.round \in Rounds
  BY <1>5, <1>7, SettleOutcomes
<1>11. t \in State
  BY <1>5, <1>7, SettleEffect
<1>12. Acting(t) = Acting(r) /\ NumFolded(t) = NumFolded(r) /\ (Contested(t) <=> Contested(r))
  BY <1>10 DEF Acting, CanAct, Owes, NumFolded, Folded, Contested
<1>13. ~t.finished => RoundGoesOn(t)
  <2>1. CASE Open(r) /\ t = r
    BY <1>4, <1>8, <1>9, <2>1 DEF RoundGoesOn
  <2>2. CASE NumActing(r) > 1 /\ t.round = r.round + 1 /\ t.round \in Rounds
    <3>1. t.action[t.round] = << >>
      BY <1>9, <1>10, <1>7, <2>2, LogTypes DEF Later
    <3>2. Acting(t) # {}
      <4>1. Cardinality({}) = 0
        BY FS_EmptySet
      <4>2. Acting(r) # {}
        <5>1. SUFFICES ASSUME Acting(r) = {} PROVE FALSE
          OBVIOUS
        <5>2. NumActing(r) = 0
          BY <4>1, <5>1 DEF NumActing
        <5> QED BY <2>2, <5>2
      <4> QED BY <1>12, <4>2
    <3>3. OnePass(t) /\ Open(t) /\ Room(t)
      BY <1>11, <3>1, <3>2, FreshRound DEF RoundLog
    <3>4. Later(t)
      BY <1>9, <1>10, <1>7, <2>2, LogTypes DEF Later
    <3> QED BY <3>3, <3>4 DEF RoundGoesOn
  <2> QED BY <1>10, <2>1, <2>2
<1>14. ASSUME t.round # s.round \/ t.finished, Contested(t), NEW q \in Acting(t)
       PROVE  /\ t.spent[q] = t.maxSpent /\ t.sumRoundSpent[s.round][q] = t.maxSpent
              /\ Answered(t, s.round, q)
  <2>1. ~Open(r)
    BY <1>7, <1>10, <1>12, <1>14
  <2>2. q \in Called(r)
    <3>1. Distinct(r) /\ Matched(r)
      BY <1>4 DEF OnePass
    <3> QED BY <1>7, <1>12, <1>14, <2>1, <3>1, CallersAreCounted DEF Open
  <2>3. r.spent[q] = r.maxSpent /\ r.sumRoundSpent[r.round][q] = r.maxSpent
    BY <1>4, <2>2 DEF OnePass, Matched
  <2>4. PICK i \in Callers(r) : Who(r, i) = q
    BY <2>2 DEF Called
  <2>5. i \in SinceRaise(r)
    BY <1>7, LogTypes
  <2>6. Answered(t, s.round, q)
    BY <1>7, <1>10, <2>4, <2>5 DEF Answered, SinceRaise, Who, RoundLog
  <2> QED BY <1>7, <1>10, <2>3, <2>6
<1>15. t.finished \/ t.round \in {s.round, s.round + 1}
  BY <1>7, <1>10
<1>16. ~t.finished => Contested(t) \/ t.round = s.round
  BY <1>7, <1>10, <1>12
<1> QED
  BY <1>4, <1>7, <1>10, <1>11, <1>12, <1>13, <1>14, <1>15, <1>16 DEF Done

(* Between the last raise and now nobody has acted twice, and the player    *)
(* whose turn it is not at all: the round has room for its action.          *)
LEMMA LogFits ==
  ASSUME NEW s \in State, OnePass(s), Open(s), Room(s), Acting(s) # {}
  PROVE  Len(RoundLog(s)) < MaxNumActions
<1> DEFINE L == Len(RoundLog(s))
           p == CurrentPlayer(s)
           raises == {i \in DOMAIN RoundLog(s) : RoundLog(s)[i].type = "raise"}
<1>1. L \in Nat /\ DOMAIN RoundLog(s) = 1 .. L /\ IsFiniteSet(SinceRaise(s))
      /\ \A i \in DOMAIN RoundLog(s) : Who(s, i) \in Players
      /\ SinceRaise(s) \subseteq DOMAIN RoundLog(s)
  BY LogTypes
<1>2. NumPlayers \in Nat /\ NumPlayers >= 2 /\ MaxNumActions \in Nat /\ MaxNumActions >= NumPlayers
  BY GameAssumption
<1>3. p \in Players /\ \A i \in SinceRaise(s) : Who(s, i) # p
  BY TurnIsNew DEF Acting
<1>4. IsFiniteSet(Players \ {p}) /\ Cardinality(Players \ {p}) = NumPlayers - 1
  <2>1. IsFiniteSet(Players) /\ Cardinality(Players) = NumPlayers
    <3>1. /\ IsFiniteSet(0 .. NumPlayers - 1)
          /\ Cardinality(0 .. NumPlayers - 1)
               = IF 0 > NumPlayers - 1 THEN 0 ELSE (NumPlayers - 1) - 0 + 1
      BY <1>2, FS_Interval
    <3> QED BY <1>2, <3>1
  <2> HIDE DEF p
  <2> QED BY <1>2, <1>3, <2>1, FS_RemoveElement
<1>5. Cardinality(SinceRaise(s)) <= NumPlayers - 1
  <2> DEFINE f == [i \in SinceRaise(s) |-> Who(s, i)]
  <2>1. f \in [SinceRaise(s) -> Players \ {p}]
    <3> HIDE DEF p
    <3>1. ASSUME NEW i \in SinceRaise(s) PROVE Who(s, i) \in Players \ {p}
      <4>1. i \in DOMAIN RoundLog(s)
        BY LogTypes
      <4>2. Who(s, i) \in Players
        BY <1>1, <4>1
      <4>3. Who(s, i) # p
        BY <1>3
      <4> QED BY <4>2, <4>3
    <3> QED BY <3>1
  <2>2. \A i, j \in SinceRaise(s) : f[i] = f[j] => i = j
    BY DEF OnePass, Distinct
  <2> HIDE DEF f, p
  <2>3. f \in Injection(SinceRaise(s), Players \ {p})
    BY <2>1, <2>2 DEF Injection, IsInjective
  <2> QED BY <1>4, <2>3, FS_Injection
<1> HIDE DEF L
<1>6. CASE raises = {}
  <2>1. SinceRaise(s) = 1 .. L
    BY <1>1, <1>6 DEF SinceRaise
  <2>2. Cardinality(1 .. L) = L
    <3>1. Cardinality(1 .. L) = IF 1 > L THEN 0 ELSE L - 1 + 1
      BY <1>1, FS_Interval
    <3> QED BY <1>1, <3>1
  <2> QED BY <1>1, <1>2, <1>5, <2>1, <2>2 DEF L
<1>7. CASE raises # {}
  <2> DEFINE back == {L - i : i \in raises}
  <2>1. back \in SUBSET Nat /\ back # {}
    BY <1>1, <1>7
  <2>2. \E n \in back : \A o \in back : n <= o
    <3> HIDE DEF back
    <3> QED BY <2>1, Reader!LeastNatural
  <2>3. PICK k \in raises : \A j \in raises : j <= k
    <3>1. PICK n \in back : \A o \in back : n <= o
      BY <2>2
    <3>2. PICK k \in raises : n = L - k
      OBVIOUS
    <3>3. ASSUME NEW j \in raises PROVE j <= k
      <4>1. L - k <= L - j
        BY <3>1, <3>2
      <4>2. j \in Nat /\ k \in Nat
        BY <1>1
      <4> QED BY <1>1, <4>1, <4>2
    <3> QED BY <3>3
  <2>4. k \in 1 .. L /\ k + NumPlayers - 1 <= MaxNumActions
    BY <1>1, <2>3 DEF Room
  <2>5. SinceRaise(s) = k .. L
    <3>1. ASSUME NEW i \in 1 .. L
          PROVE  (\A j \in 1 .. L : j > i => RoundLog(s)[j].type # "raise") <=> i >= k
      BY <1>1, <2>3, <2>4
    <3> QED BY <1>1, <2>4, <3>1 DEF SinceRaise
  <2>6. Cardinality(k .. L) = L - k + 1
    <3>1. Cardinality(k .. L) = IF k > L THEN 0 ELSE L - k + 1
      BY <1>1, <2>4, FS_Interval
    <3> QED BY <1>1, <2>4, <3>1
  <2>7. L - k + 1 <= NumPlayers - 1
    BY <1>5, <2>5, <2>6
  <2>8. L <= MaxNumActions - 1
    BY <1>1, <1>2, <2>4, <2>7
  <2> QED BY <1>1, <1>2, <2>8 DEF L
<1> QED
  BY <1>6, <1>7

(***************************************************************************)
(* The invariants                                                          *)
(***************************************************************************)
RoundInv == ~state.finished => RoundGoesOn(state)
BlindInv == state.maxSpent >= BigBlind

(* A step of Betting by a player is a doAction as in ActionKeepsRounds.     *)
LEMMA TakeIsDone ==
  ASSUME ChipsInv, RoundInv, NEW a \in Action, Take(a)
  PROVE  Done(state, state')
<1>1. Stacks # {} /\ state \in State
  BY DEF ChipsInv, TypeOK
<1>2. IsValidAction(state, TRUE, a) /\ state' = DoAction(state, FixedAction(state, a))
  BY DEF Take
<1>3. ~state.finished /\ Acting(state) # {} /\ RoundGoesOn(state)
  BY <1>2 DEF IsValidAction, ChipsInv, SomeoneCanAct, RoundInv
<1> QED
  BY <1>1, <1>2, <1>3, ActionKeepsRounds

(* The first round of a hand, with the blinds for its bet.                  *)
LEMMA DealtRound ==
  ASSUME PlayableStacks, NEW h \in HandIds, NEW st \in Stacks, NEW s, s = InitState(h, st)
  PROVE  RoundGoesOn(s) /\ s.round = 0 /\ s.maxSpent = BigBlind
<1>1. s \in State /\ Acting(s) # {} /\ s.maxSpent = BigBlind
  BY InitStateEffect, BettingAssumption
<1>2. s.round = 0 /\ \A r \in Rounds : s.action[r] = << >>
  BY DEF InitState
<1>3. RoundLog(s) = << >> /\ Later(s)
  BY <1>1, <1>2, LogTypes DEF RoundLog, Later
<1> QED
  BY <1>1, <1>2, <1>3, FreshRound DEF RoundGoesOn

(* RoundInv is inductive: every state of the betting has it.                *)
LEMMA RoundsHold ==
  ASSUME PlayableStacks
  PROVE  Spec => []RoundInv
<1>1. Init => RoundInv
  BY DealtRound DEF Init, RoundInv
<1>2. ChipsInv /\ RoundInv /\ [Next]_vars => RoundInv'
  <2>1. ASSUME ChipsInv, RoundInv, NEW a \in Action, Take(a) PROVE RoundInv'
    <3>1. Done(state, state')
      BY <2>1, TakeIsDone
    <3>2. ~state'.finished => RoundGoesOn(state')
      BY <3>1 DEF Done
    <3> QED BY <3>2 DEF RoundInv, RoundGoesOn
  <2>2. ASSUME NEW h \in HandIds, NEW st \in Stacks, state' = InitState(h, st) PROVE RoundInv'
    <3>1. RoundGoesOn(state')
      BY <2>2, DealtRound
    <3> QED BY <3>1 DEF RoundInv
  <2>3. ASSUME RoundInv, UNCHANGED vars PROVE RoundInv'
    BY <2>3 DEF RoundInv, vars
  <2> QED BY <2>1, <2>2, <2>3, StepsOfNext
<1> QED
  BY <1>1, <1>2, ChipsHold, PTL DEF Spec

(* No raise lowers the bet, so it stays at least the big blind.             *)
LEMMA TakeRaisesBet ==
  ASSUME ChipsInv, BetInv, BetInv', BetsFit, NEW a \in Action, Take(a)
  PROVE  state'.maxSpent >= state.maxSpent
<1> DEFINE p == CurrentPlayer(state)
           f == FixedAction(state, a)
           n == NewSpent(state, f)
           M == state.maxSpent
<1>1. /\ p \in Players /\ n \in Int /\ state.spent[p] < state.stackPlayer[p]
      /\ state'.spent = [state.spent EXCEPT ![p] = n]
      /\ state'.maxSpent = IF a.type = "raise" THEN n ELSE M
  BY TakeEffect DEF Moved
<1>2. state \in State /\ state' \in State /\ IsValidAction(state, TRUE, a)
  BY TakeEffect DEF Moved, ChipsInv, TypeOK, Take
<1>3. M \in Int /\ state'.maxSpent \in Int /\ state.spent \in [Players -> Int]
      /\ state.stackPlayer \in [Players -> Int]
  BY <1>2 DEF State
<1>4. PICK w \in Players : state.spent[w] = M
  BY DEF BetInv, MaxSpentIsLargest
<1>5. state'.spent[w] <= state'.maxSpent
  BY DEF BetInv, MaxSpentIsLargest
<1>6. CASE a.type # "raise"
  BY <1>1, <1>3, <1>6
<1>7. CASE a.type = "raise" /\ w # p
  <2>1. state'.spent[w] = state.spent[w]
    BY <1>1, <1>3, <1>7
  <2> QED BY <1>4, <1>5, <2>1
<1>8. CASE a.type = "raise" /\ w = p
  <2>1. f.type = "raise"
    BY <1>1, <1>2, <1>8, FixedActionIsPlayable
  <2>2. CASE NoLimit
    <3>1. f.size > M
      BY <1>1, <1>2, <1>8, <2>2, RaiseExceedsBet DEF BetInv
    <3>2. n = f.size
      BY <2>1, <2>2 DEF NewSpent
    <3> QED BY <1>1, <1>3, <1>8, <3>1, <3>2
  <2>3. CASE ~NoLimit
    <3>1. n = Smaller(M + RaiseSize[state.round], state.stackPlayer[p])
      BY <2>1, <2>3 DEF NewSpent
    <3>2. RaiseSize[state.round] \in Nat
      <4>1. state.round \in Rounds /\ RaiseSize \in [Rounds -> Nat]
        BY <1>2, GameAssumption DEF State
      <4> QED BY <4>1
    <3>3. M < state.stackPlayer[p] /\ state.stackPlayer[p] \in Int
      BY <1>1, <1>3, <1>4, <1>8
    <3> HIDE DEF n, p, M
    <3>4. n >= M
      BY <1>3, <3>1, <3>2, <3>3 DEF Smaller
    <3> QED BY <1>1, <1>8, <3>4 DEF M
  <2> QED BY <2>2, <2>3
<1> QED
  BY <1>6, <1>7, <1>8

(* maxSpent never falls below the big blind.                                *)
LEMMA BlindsHold ==
  ASSUME PlayableStacks, BetsFit
  PROVE  Spec => []BlindInv
<1>1. Init => BlindInv
  <2>1. ASSUME NEW h \in HandIds, NEW st \in Stacks, state = InitState(h, st) PROVE BlindInv
    BY <2>1, DealtRound, BigBlindIsABlind DEF BlindInv
  <2> QED BY <2>1 DEF Init
<1>2. ChipsInv /\ BetInv /\ BetInv' /\ BlindInv /\ [Next]_vars => BlindInv'
  <2>1. ASSUME ChipsInv, BetInv, BetInv', BlindInv, NEW a \in Action, Take(a) PROVE BlindInv'
    <3>1. state'.maxSpent >= state.maxSpent /\ state' \in State /\ state \in State
      BY <2>1, TakeRaisesBet, TakeEffect DEF Moved, ChipsInv, TypeOK
    <3>2. BigBlind \in Nat
      BY <2>1, BigBlindIsABlind DEF ChipsInv
    <3>3. state'.maxSpent \in Int /\ state.maxSpent \in Int
      BY <3>1 DEF State
    <3> QED BY <2>1, <3>1, <3>2, <3>3 DEF BlindInv
  <2>2. ASSUME NEW h \in HandIds, NEW st \in Stacks, state' = InitState(h, st) PROVE BlindInv'
    BY <2>2, DealtRound, BigBlindIsABlind DEF BlindInv
  <2>3. ASSUME BlindInv, UNCHANGED vars PROVE BlindInv'
    BY <2>3 DEF BlindInv, vars
  <2> QED BY <2>1, <2>2, <2>3, StepsOfNext
<1> QED
  BY <1>1, <1>2, ChipsHold, BetsHold, PTL DEF Spec

-----------------------------------------------------------------------------
(* A round is closed with a showdown or a round to come only when everyone  *)
(* who has chips behind has matched the bet and answered the last raise, in *)
(* limit and in no-limit games, whatever the stacks and sizes.              *)
THEOREM ClosedBetsAreSettled ==
  ASSUME PlayableStacks
  PROVE  Spec => ClosedBetsAreAnswered
<1>1. ASSUME ChipsInv, RoundInv, [Next]_vars, PlayerActs,
             state'.round # state.round \/ state'.finished,
             NumFolded(state') + 1 < NumPlayers, NEW p \in Acting(state')
      PROVE  state'.spent[p] = state'.maxSpent /\ Answered(state', state.round, p)
  <2>1. PICK a \in Action : Take(a)
    BY <1>1, PlayerTakes
  <2>2. Done(state, state')
    BY <1>1, <2>1, TakeIsDone
  <2> QED BY <1>1, <2>2 DEF Done, Contested
<1>2. ChipsInv /\ RoundInv /\ [Next]_vars =>
        [ PlayerActs
          /\ (state'.round # state.round \/ state'.finished)
          /\ NumFolded(state') + 1 < NumPlayers
          => \A p \in Acting(state') :
               state'.spent[p] = state'.maxSpent /\ Answered(state', state.round, p) ]_vars
  BY <1>1
<1> QED
  BY <1>2, ChipsHold, RoundsHold, PTL DEF Spec, ClosedBetsAreAnswered

(* raiseIsValid stops raising early enough for every answer that is to come *)
(* to fit into the round's action array.                                    *)
THEOREM AnswersHaveRoom ==
  ASSUME PlayableStacks
  PROVE  Spec => []RoundLogHasRoom
<1>1. ChipsInv /\ RoundInv => RoundLogHasRoom
  BY LogFits DEF ChipsInv, TypeOK, SomeoneCanAct, RoundInv, RoundGoesOn, RoundLogHasRoom
<1> QED
  BY <1>1, ChipsHold, RoundsHold, PTL

(* Whoever can still act has put the same into every earlier round, and no  *)
(* less than the big blind: the raise base X_LAST_RAISE is a true one.      *)
THEOREM PastRoundsStaySquare ==
  ASSUME PlayableStacks, BetsFit
  PROVE  Spec => []PastRoundsAreSquare
<1>1. Init => PastRoundsAreSquare
  <2>1. ASSUME NEW h \in HandIds, NEW st \in Stacks, state = InitState(h, st)
        PROVE  PastRoundsAreSquare
    BY <2>1, DealtRound DEF PastRoundsAreSquare
  <2> QED BY <2>1 DEF Init
<1>2. /\ ChipsInv /\ RoundInv /\ BlindInv' /\ PastRoundsAreSquare /\ [Next]_vars
      => PastRoundsAreSquare'
  <2>1. ASSUME ChipsInv, RoundInv, BlindInv', PastRoundsAreSquare, NEW a \in Action, Take(a)
        PROVE  PastRoundsAreSquare'
    <3>1. Done(state, state') /\ state \in State /\ ~state.finished
      BY <2>1, TakeIsDone DEF ChipsInv, TypeOK, Take, IsValidAction
    <3> SUFFICES ASSUME ~state'.finished, NEW p \in Acting(state'), NEW q \in Acting(state'),
                        NEW r \in Rounds, r < state'.round
                 PROVE  /\ state'.sumRoundSpent[r][p] = state'.sumRoundSpent[r][q]
                        /\ state'.sumRoundSpent[r][p] >= BigBlind
      BY DEF PastRoundsAreSquare
    <3>2. p \in Acting(state) /\ q \in Acting(state)
      BY <3>1 DEF Done
    <3>3. CASE r = state.round
      <4>1. /\ state'.sumRoundSpent[r][p] = state'.maxSpent
            /\ state'.sumRoundSpent[r][q] = state'.maxSpent
        <5>1. state.round \in Int
          BY <3>1, GameAssumption DEF State
        <5>2. state'.round # state.round
          BY <3>3, <5>1
        <5>3. Contested(state')
          BY <3>1, <5>2 DEF Done
        <5> QED BY <3>1, <3>3, <5>2, <5>3 DEF Done
      <4> QED BY <2>1, <4>1 DEF BlindInv
    <3>4. CASE r # state.round
      <4>1. state'.sumRoundSpent[r] = state.sumRoundSpent[r]
        BY <3>1, <3>4 DEF Done
      <4>2. r < state.round
        <5>1. state.round \in Int /\ r \in Int
          BY <3>1, GameAssumption DEF State
        <5>2. state'.round \in {state.round, state.round + 1}
          BY <3>1 DEF Done
        <5> QED BY <3>4, <5>1, <5>2
      <4> QED BY <2>1, <3>1, <3>2, <4>1, <4>2 DEF PastRoundsAreSquare
    <3> QED BY <3>3, <3>4
  <2>2. ASSUME NEW h \in HandIds, NEW st \in Stacks, state' = InitState(h, st)
        PROVE  PastRoundsAreSquare'
    <3>1. state'.round = 0
      BY <2>2, DealtRound
    <3> QED BY <3>1 DEF PastRoundsAreSquare
  <2>3. ASSUME PastRoundsAreSquare, UNCHANGED vars PROVE PastRoundsAreSquare'
    BY <2>3 DEF PastRoundsAreSquare, vars
  <2> QED BY <2>1, <2>2, <2>3, StepsOfNext
<1> QED
  BY <1>1, <1>2, ChipsHold, RoundsHold, BlindsHold, PTL DEF Spec

-----------------------------------------------------------------------------
(***************************************************************************)
(* Raises of a no-limit round step up                                      *)
(***************************************************************************)
Raised(s, r, i) == s.action[r][i].type = "raise"

(* c is a bet of the hand, or of the hand before entry i of round r.        *)
AnyBet(s, c) ==
  c = BigBlind \/ \E q \in Rounds : \E k \in DOMAIN s.action[q] :
                   Raised(s, q, k) /\ c = s.action[q][k].size

EarlierBet(s, r, i, c) ==
  \/ c = BigBlind
  \/ \E j \in 1 .. i - 1 : Raised(s, r, j) /\ c = s.action[r][j].size
  \/ \E q \in 0 .. r - 1 : \E k \in DOMAIN s.action[q] :
       Raised(s, q, k) /\ c = s.action[q][k].size

(* The same as the set BetBefore takes the largest of.                      *)
EarlierBets(s, r, i) ==
  LET sizes == {s.action[r][j].size : j \in {k \in 1 .. i - 1 : s.action[r][k].type = "raise"}}
      older == UNION {{s.action[q][k].size : k \in {j \in DOMAIN s.action[q] :
                         s.action[q][j].type = "raise"}} : q \in 0 .. r - 1}
  IN  sizes \cup older \cup {BigBlind}

(* The two agree.                                                           *)
LEMMA BetsBefore ==
  ASSUME NEW s, NEW r, NEW i
  PROVE  /\ BetBefore(s, r, i) = CHOOSE b \in EarlierBets(s, r, i) :
                                   \A c \in EarlierBets(s, r, i) : c <= b
         /\ \A c : c \in EarlierBets(s, r, i) <=> EarlierBet(s, r, i, c)
<1>1. BetBefore(s, r, i) = CHOOSE b \in EarlierBets(s, r, i) :
                            \A c \in EarlierBets(s, r, i) : c <= b
  BY DEF BetBefore, EarlierBets
<1>2. ASSUME NEW c PROVE c \in EarlierBets(s, r, i) <=> EarlierBet(s, r, i, c)
  <2> DEFINE sizes == {s.action[r][j].size :
                         j \in {k \in 1 .. i - 1 : s.action[r][k].type = "raise"}}
             older == UNION {{s.action[q][k].size : k \in {j \in DOMAIN s.action[q] :
                                s.action[q][j].type = "raise"}} : q \in 0 .. r - 1}
  <2>1. c \in sizes <=> \E j \in 1 .. i - 1 : Raised(s, r, j) /\ c = s.action[r][j].size
    BY DEF Raised
  <2>2. c \in older <=> \E q \in 0 .. r - 1 : \E k \in DOMAIN s.action[q] :
                          Raised(s, q, k) /\ c = s.action[q][k].size
    BY DEF Raised
  <2>3. c \in EarlierBets(s, r, i) <=> c \in sizes \/ c \in older \/ c = BigBlind
    BY DEF EarlierBets
  <2> HIDE DEF sizes, older
  <2> QED BY <2>1, <2>2, <2>3 DEF EarlierBet
<1> QED
  BY <1>1, <1>2

(* Equal earlier bets have an equal largest one.                            *)
LEMMA SameBetBefore ==
  ASSUME NEW s, NEW r, NEW i, NEW t, NEW q, NEW j,
         \A c : EarlierBet(s, r, i, c) <=> EarlierBet(t, q, j, c)
  PROVE  BetBefore(s, r, i) = BetBefore(t, q, j)
<1>1. EarlierBets(s, r, i) = EarlierBets(t, q, j)
  <2>1. \A c : c \in EarlierBets(s, r, i) <=> c \in EarlierBets(t, q, j)
    BY BetsBefore
  <2> QED BY <2>1
<1> QED
  BY <1>1, BetsBefore

(* ... and the largest is found by what it is.                              *)
LEMMA LargestBetBefore ==
  ASSUME NEW s, NEW r, NEW i, NEW b \in Int, EarlierBet(s, r, i, b),
         \A c : EarlierBet(s, r, i, c) => c \in Int /\ c <= b
  PROVE  BetBefore(s, r, i) = b
<1> DEFINE B == EarlierBets(s, r, i)
<1>1. b \in B /\ B \subseteq Int /\ \A c \in B : c <= b
  BY BetsBefore
<1>2. BetBefore(s, r, i) = CHOOSE x \in B : \A c \in B : c <= x
  BY BetsBefore
<1> HIDE DEF B
<1>3. \A x, y \in B : (\A c \in B : c <= x) /\ (\A c \in B : c <= y) => x = y
  BY <1>1
<1> QED
  BY <1>1, <1>2, <1>3

(* doAction's entry: what it says and where it is.                          *)
Logged(s, a, p, t) ==
  /\ t.action = [s.action EXCEPT ![s.round] =
                   Append(s.action[s.round], [type |-> a.type, size |-> a.size, player |-> p])]
  /\ t.stackPlayer = s.stackPlayer /\ t.round >= s.round
  /\ t.minNoLimitRaiseTo = NewMinRaiseTo(s, a) \/ t.round = s.round + 1

(* Logged is what doAction does.                                            *)
LEMMA EntryIsLogged ==
  ASSUME Stacks # {}, NEW s \in State, NEW a \in Action, a.type \in Played,
         NEW p \in Players, p = CurrentPlayer(s), NEW t, t = DoAction(s, a)
  PROVE  Logged(s, a, p, t)
<1> DEFINE r == RecordAction(s, a)
<1>1. /\ r \in State /\ r.stackPlayer = s.stackPlayer
      /\ r.minNoLimitRaiseTo = NewMinRaiseTo(s, a)
  BY RecordActionEffect
<1>2. /\ r.round = s.round
      /\ r.action = [s.action EXCEPT ![s.round] =
                       Append(s.action[s.round], [type |-> a.type, size |-> a.size, player |-> p])]
  BY DEF RecordAction, State
<1>3. t = Settle(r)
  BY DEF DoAction
<1> HIDE DEF r
<1> QED
  BY <1>1, <1>2, <1>3, SettleLogs, SettleEffect DEF Logged

(* The total that raises by as much as raise i of round r did.              *)
Full(s, r, i) == 2 * s.action[r][i].size - BetBefore(s, r, i)

(* maxSpent is the largest raise of the hand; the next raise has to be full *)
(* over every raise of its round; and every raise so far was, or all-in.    *)
StepsUp(s) ==
  /\ Later(s)
  /\ AnyBet(s, s.maxSpent)
  /\ \A c : AnyBet(s, c) => c \in Int /\ c <= s.maxSpent
  /\ \A i \in RaiseEntries(s, s.round) :
       Full(s, s.round, i) \in Int /\ Full(s, s.round, i) <= s.minNoLimitRaiseTo
  /\ \A r \in Rounds : \A i, j \in RaiseEntries(s, r) :
       i < j => \/ s.action[r][j].size >= Full(s, r, i)
                \/ s.action[r][j].size = s.stackPlayer[s.action[r][j].player]

(* The log of t is that of s and one entry more.                            *)
OneMore(s, e, t) ==
  LET m == Len(s.action[s.round]) + 1
  IN  /\ m \in Nat \ {0} /\ e \in LogEntry
      /\ \A q \in Rounds : q # s.round => t.action[q] = s.action[q]
      /\ DOMAIN s.action[s.round] = 1 .. m - 1 /\ DOMAIN t.action[s.round] = 1 .. m
      /\ \A j \in 1 .. m - 1 : t.action[s.round][j] = s.action[s.round][j]
      /\ t.action[s.round][m] = e

(* What Append does to the round's log.                                     *)
LEMMA LogHasOneMore ==
  ASSUME NEW s \in State, NEW e \in LogEntry, NEW t,
         t.action = [s.action EXCEPT ![s.round] = Append(s.action[s.round], e)]
  PROVE  OneMore(s, e, t)
<1>1. /\ s.round \in Rounds /\ s.action \in [Rounds -> Seq(LogEntry)]
      /\ s.action[s.round] \in Seq(LogEntry)
  BY DEF State
<1> DEFINE l == s.action[s.round]
<1>2. t.action[s.round] = Append(l, e) /\ \A q \in Rounds : q # s.round => t.action[q] = s.action[q]
  BY <1>1
<1>3. l \in Seq(LogEntry)
  BY <1>1
<1> HIDE DEF l
<1>4. /\ Len(l) + 1 \in Nat \ {0} /\ DOMAIN l = 1 .. Len(l) + 1 - 1
      /\ DOMAIN Append(l, e) = 1 .. Len(l) + 1 /\ Append(l, e)[Len(l) + 1] = e
      /\ \A j \in 1 .. Len(l) + 1 - 1 : Append(l, e)[j] = l[j]
  BY <1>3
<1> QED
  BY <1>2, <1>4 DEF OneMore, l

(* The bets before the new entry are those of the hand so far.              *)
LEMMA BetsOfOneMore ==
  ASSUME NEW s \in State, Later(s), NEW e, NEW t, OneMore(s, e, t)
  PROVE  /\ \A c : AnyBet(t, c) <=> AnyBet(s, c) \/ (e.type = "raise" /\ c = e.size)
         /\ \A c : EarlierBet(t, s.round, Len(s.action[s.round]) + 1, c) <=> AnyBet(s, c)
         /\ \A r \in Rounds : \A i \in DOMAIN s.action[r] :
              BetBefore(t, r, i) = BetBefore(s, r, i)
<1> DEFINE o == s.round
           m == Len(s.action[o]) + 1
<1>1. /\ m \in Nat \ {0} /\ o \in Rounds /\ o \in Nat
      /\ \A q \in Rounds : q # o => t.action[q] = s.action[q]
      /\ DOMAIN s.action[o] = 1 .. m - 1 /\ DOMAIN t.action[o] = 1 .. m
      /\ \A j \in 1 .. m - 1 : t.action[o][j] = s.action[o][j]
      /\ t.action[o][m] = e
  <2>1. o \in Rounds /\ NumRounds \in Nat
    BY GameAssumption DEF State
  <2> QED BY <2>1 DEF OneMore
<1>2. \A q \in Rounds : q > o => DOMAIN s.action[q] = {}
  BY DEF Later
<1> HIDE DEF m, o
<1>3. ASSUME NEW q \in Rounds, NEW k
      PROVE  k \in DOMAIN t.action[q] /\ Raised(t, q, k) <=>
               \/ k \in DOMAIN s.action[q] /\ Raised(s, q, k)
               \/ q = o /\ k = m /\ e.type = "raise"
  <2>1. CASE q # o
    BY <1>1, <2>1 DEF Raised
  <2>2. CASE q = o
    <3>1. k \in 1 .. m <=> k \in 1 .. m - 1 \/ k = m
      BY <1>1
    <3>2. m \notin 1 .. m - 1
      BY <1>1
    <3> QED BY <1>1, <2>2, <3>1, <3>2 DEF Raised
  <2> QED BY <2>1, <2>2
<1>4. \A q \in Rounds : \A k \in DOMAIN s.action[q] : t.action[q][k] = s.action[q][k]
  BY <1>1
<1>5. ASSUME NEW c
      PROVE  AnyBet(t, c) <=> AnyBet(s, c) \/ (e.type = "raise" /\ c = e.size)
  BY <1>1, <1>3, <1>4 DEF AnyBet
<1>6. ASSUME NEW r \in Rounds, NEW q \in 0 .. r - 1 PROVE q \in Rounds /\ q < r
  <2>1. NumRounds \in Nat
    BY GameAssumption
  <2> QED BY <2>1
<1>7. ASSUME NEW c
      PROVE  EarlierBet(t, o, m, c) <=> AnyBet(s, c)
  <2>1. ASSUME EarlierBet(t, o, m, c) PROVE AnyBet(s, c)
    <3>1. CASE \E j \in 1 .. m - 1 : Raised(t, o, j) /\ c = t.action[o][j].size
      BY <1>1, <3>1 DEF AnyBet, Raised
    <3>2. CASE \E q \in 0 .. o - 1 : \E k \in DOMAIN t.action[q] :
                 Raised(t, q, k) /\ c = t.action[q][k].size
      <4>1. PICK q \in 0 .. o - 1 : \E k \in DOMAIN t.action[q] :
                 Raised(t, q, k) /\ c = t.action[q][k].size
        BY <3>2
      <4>2. q \in Rounds /\ q # o
        BY <1>1, <1>6
      <4> QED BY <1>1, <4>1, <4>2 DEF AnyBet, Raised
    <3> QED BY <2>1, <3>1, <3>2 DEF EarlierBet, AnyBet
  <2>2. ASSUME AnyBet(s, c) PROVE EarlierBet(t, o, m, c)
    <3>1. CASE c = BigBlind
      BY <3>1 DEF EarlierBet
    <3>2. CASE c # BigBlind
      <4>1. PICK q \in Rounds : \E k \in DOMAIN s.action[q] :
                 Raised(s, q, k) /\ c = s.action[q][k].size
        BY <2>2, <3>2 DEF AnyBet
      <4>2. q = o \/ q \in 0 .. o - 1
        <5>1. ~(q > o) /\ q \in Nat
          BY <1>2, <4>1, GameAssumption
        <5> QED BY <1>1, <5>1
      <4>3. CASE q = o
        BY <1>1, <4>1, <4>3 DEF EarlierBet, Raised
      <4>4. CASE q \in 0 .. o - 1
        <5>1. q \in Rounds /\ q # o
          BY <1>1, <1>6, <4>4
        <5> QED BY <1>1, <4>1, <4>4, <5>1 DEF EarlierBet, Raised
      <4> QED BY <4>2, <4>3, <4>4
    <3> QED BY <3>1, <3>2
  <2> QED BY <2>1, <2>2
<1>8. ASSUME NEW r \in Rounds, NEW i \in DOMAIN s.action[r]
      PROVE  BetBefore(t, r, i) = BetBefore(s, r, i)
  <2>1. r <= o /\ r \in Nat
    <3>1. ~(r > o) /\ r \in Nat
      BY <1>2, GameAssumption
    <3> QED BY <1>1, <3>1
  <2>2. i \in Nat /\ \A j \in 1 .. i - 1 : t.action[r][j] = s.action[r][j]
    <3>1. s.action[r] \in Seq(LogEntry)
      BY DEF State
    <3>2. i \in Nat /\ \A j \in 1 .. i - 1 : j \in DOMAIN s.action[r]
      BY <3>1
    <3> QED BY <1>4, <3>2
  <2>3. \A q \in 0 .. r - 1 : t.action[q] = s.action[q]
    BY <1>1, <1>6, <2>1
  <2>4. \A c : EarlierBet(t, r, i, c) <=> EarlierBet(s, r, i, c)
    BY <2>2, <2>3 DEF EarlierBet, Raised
  <2> QED BY <2>4, SameBetBefore
<1> QED
  BY <1>5, <1>7, <1>8 DEF m, o

(* A no-limit raise is to the next full raise at least, or to the stack, and *)
(* what it asks of the next raise does not wrap.                             *)
LEMMA RaiseIsFullOrAllIn ==
  ASSUME NoLimit, BetsFit, NEW s, HandChips(s), HandBets(s), NEW a \in Action, a.type = "raise",
         IsValidAction(s, TRUE, a), CurrentPlayer(s) \in Players,
         NEW n, n = FixedAction(s, a).size
  PROVE  /\ n \in Int /\ n > s.maxSpent /\ n <= s.stackPlayer[CurrentPlayer(s)]
         /\ n >= s.minNoLimitRaiseTo \/ n = s.stackPlayer[CurrentPlayer(s)]
         /\ NewMinRaiseTo(s, FixedAction(s, a)) =
              Larger(s.minNoLimitRaiseTo, 2 * n - s.maxSpent)
<1> DEFINE p == CurrentPlayer(s)
           k == s.stackPlayer[p]
           M == s.maxSpent
           L == s.minNoLimitRaiseTo
<1>1. s \in State /\ p \in Players /\ s.stackPlayer \in Stacks
  BY DEF HandChips
<1>2. k \in Nat /\ 2 * k <= MaxInt /\ MaxInt \in Nat
  <2>1. s.stackPlayer \in [Players -> 0 .. MaxInt] /\ MaxInt \in Nat
    BY <1>1, GameAssumption
  <2>2. 2 * k <= MaxInt
    BY <1>1 DEF BetsFit, StacksFit
  <2>3. k \in 0 .. MaxInt
    BY <1>1, <2>1
  <2> HIDE DEF k
  <2> QED BY <2>1, <2>2, <2>3
<1>3. M \in Int /\ L \in Int /\ a.size \in Int
  BY <1>1 DEF State, Action
<1>4. M >= 0 /\ L > M
  BY DEF HandBets
<1>5. L <= k \/ M < k
  BY DEF IsValidAction, RaiseIsValid
<1>6. n = Smaller(Larger(a.size, Smaller(L, k)), k)
  BY <1>3 DEF FixedAction, MinRaiseTo, MaxRaiseTo, Action
<1>7. NewMinRaiseTo(s, FixedAction(s, a)) = Larger(L, Wrap(2 * n - M))
  <2>1. FixedAction(s, a).type = "raise"
    BY DEF FixedAction, Action
  <2> QED BY <2>1 DEF NewMinRaiseTo
<1> HIDE DEF p, k, M, L
<1>8. n \in Int /\ n > M /\ n <= k /\ (n >= L \/ n = k)
  BY <1>2, <1>3, <1>4, <1>5, <1>6 DEF Smaller, Larger
<1>9. Wrap(2 * n - M) = 2 * n - M
  <2>1. 2 * n - M <= MaxInt
    BY <1>2, <1>3, <1>4, <1>8
  <2> QED BY <1>2, <1>3, <1>8, <2>1 DEF Wrap
<1> QED
  BY <1>7, <1>8, <1>9 DEF p, k, M, L

(* A player's action keeps the raises in step.                              *)
LEMMA ActionStepsUp ==
  ASSUME NoLimit, BetsFit, NEW s, HandChips(s), HandBets(s), StepsUp(s), NEW a \in Action,
         IsValidAction(s, TRUE, a), NEW t, t = DoAction(s, FixedAction(s, a))
  PROVE  StepsUp(t)
<1> DEFINE p == CurrentPlayer(s)
           f == FixedAction(s, a)
           o == s.round
           m == Len(s.action[o]) + 1
           e == [type |-> f.type, size |-> f.size, player |-> p]
<1>1. s \in State /\ Stacks # {}
  BY DEF HandChips
<1>2. Moved(s, a, t)
  BY ActionEffect
<1>3. p \in Players /\ a.type \in Played /\ t \in State /\ t.stackPlayer = s.stackPlayer
  BY <1>2 DEF Moved
<1>4. f \in Action /\ f.type = a.type
  BY <1>1, <1>3, FixedActionIsPlayable
<1>5. e \in LogEntry
  BY <1>3, <1>4 DEF LogEntry, Action, Played
<1>6. /\ t.action = [s.action EXCEPT ![o] = Append(s.action[o], e)] /\ t.round >= o
      /\ t.minNoLimitRaiseTo = NewMinRaiseTo(s, f) \/ t.round = o + 1
  <2>1. f \in Action /\ f.type \in Played /\ t = DoAction(s, f) /\ p = CurrentPlayer(s)
    BY <1>3, <1>4
  <2> HIDE DEF p, f
  <2>2. Logged(s, f, p, t)
    BY <1>1, <1>3, <2>1, EntryIsLogged
  <2> QED BY <2>2 DEF Logged
<1>7. OneMore(s, e, t)
  BY <1>1, <1>5, <1>6, LogHasOneMore
<1>8. Later(s)
  BY DEF StepsUp
<1>9. /\ \A c : AnyBet(t, c) <=> AnyBet(s, c) \/ (a.type = "raise" /\ c = f.size)
      /\ \A c : EarlierBet(t, o, m, c) <=> AnyBet(s, c)
      /\ \A r \in Rounds : \A i \in DOMAIN s.action[r] : BetBefore(t, r, i) = BetBefore(s, r, i)
  BY <1>1, <1>4, <1>7, <1>8, BetsOfOneMore
<1>10. /\ o \in Rounds /\ o \in Int /\ m \in Nat
       /\ \A q \in Rounds : q \in Int /\ (q # o => t.action[q] = s.action[q])
       /\ DOMAIN s.action[o] = 1 .. m - 1 /\ DOMAIN t.action[o] = 1 .. m
       /\ \A j \in 1 .. m - 1 : t.action[o][j] = s.action[o][j]
       /\ t.action[o][m] = e
  <2>1. o \in Rounds /\ NumRounds \in Nat
    BY <1>1, GameAssumption DEF State
  <2> QED BY <1>7, <2>1 DEF OneMore
<1>11. /\ s.maxSpent \in Int /\ t.maxSpent \in Int /\ s.minNoLimitRaiseTo \in Int
       /\ t.round \in Rounds /\ t.round \in Int
  <2>1. t.round \in Rounds
    BY <1>3 DEF State
  <2> QED BY <1>1, <1>3, <1>10, <2>1 DEF State
<1>12. ASSUME a.type = "raise"
       PROVE  /\ f.size \in Int /\ f.size > s.maxSpent /\ t.maxSpent = f.size
              /\ f.size >= s.minNoLimitRaiseTo \/ f.size = s.stackPlayer[p]
              /\ NewMinRaiseTo(s, f) = Larger(s.minNoLimitRaiseTo, 2 * f.size - s.maxSpent)
  <2>1. t.maxSpent = NewSpent(s, f)
    BY <1>2, <1>12 DEF Moved
  <2>2. NewSpent(s, f) = f.size
    BY <1>4, <1>12 DEF NewSpent
  <2> HIDE DEF f
  <2>3. /\ f.size \in Int /\ f.size > s.maxSpent
        /\ f.size >= s.minNoLimitRaiseTo \/ f.size = s.stackPlayer[p]
        /\ NewMinRaiseTo(s, f) = Larger(s.minNoLimitRaiseTo, 2 * f.size - s.maxSpent)
    BY <1>3, <1>12, RaiseIsFullOrAllIn DEF f
  <2> QED BY <2>1, <2>2, <2>3
<1>13. ASSUME a.type # "raise"
       PROVE  t.maxSpent = s.maxSpent /\ NewMinRaiseTo(s, f) = s.minNoLimitRaiseTo
  <2>1. t.maxSpent = s.maxSpent
    BY <1>2, <1>13 DEF Moved
  <2>2. NewMinRaiseTo(s, f) = s.minNoLimitRaiseTo
    BY <1>4, <1>13 DEF NewMinRaiseTo
  <2> QED BY <2>1, <2>2
<1> HIDE DEF p, f, o, m, e
<1>14. /\ AnyBet(s, s.maxSpent)
       /\ \A c : AnyBet(s, c) => c \in Int /\ c <= s.maxSpent
       /\ \A i \in RaiseEntries(s, o) :
            Full(s, o, i) \in Int /\ Full(s, o, i) <= s.minNoLimitRaiseTo
       /\ \A r \in Rounds : \A i, j \in RaiseEntries(s, r) :
            i < j => \/ s.action[r][j].size >= Full(s, r, i)
                     \/ s.action[r][j].size = s.stackPlayer[s.action[r][j].player]
  BY DEF StepsUp, o
<1>15. Later(t)
  <2>1. \A r \in Rounds : r > t.round => r > o /\ r # o
    BY <1>6, <1>10, <1>11
  <2> QED BY <1>8, <1>10, <2>1 DEF Later, o
<1>16. /\ AnyBet(t, t.maxSpent)
       /\ \A c : AnyBet(t, c) => c \in Int /\ c <= t.maxSpent
  <2>1. CASE a.type = "raise"
    BY <1>9, <1>11, <1>12, <1>14, <2>1
  <2>2. CASE a.type # "raise"
    BY <1>9, <1>13, <1>14, <2>2
  <2> QED BY <2>1, <2>2
<1>17. BetBefore(t, o, m) = s.maxSpent
  BY <1>9, <1>11, <1>14, LargestBetBefore
<1>18. \A r \in Rounds : \A i \in DOMAIN s.action[r] :
         Full(t, r, i) = Full(s, r, i) /\ t.action[r][i] = s.action[r][i]
  <2>1. \A r \in Rounds : \A i \in DOMAIN s.action[r] : t.action[r][i] = s.action[r][i]
    BY <1>10
  <2> QED BY <1>9, <2>1 DEF Full
<1>19. Full(t, o, m) = 2 * f.size - s.maxSpent /\ t.action[o][m].size = f.size
       /\ t.action[o][m].player = p /\ t.action[o][m].type = a.type
  <2>1. e.size = f.size /\ e.player = p /\ e.type = a.type
    BY <1>4 DEF e
  <2> QED BY <1>10, <1>17, <2>1 DEF Full
<1>20. /\ \A r \in Rounds : r # o => RaiseEntries(t, r) = RaiseEntries(s, r)
       /\ \A r \in Rounds : RaiseEntries(s, r) \subseteq DOMAIN s.action[r]
       /\ \A i \in RaiseEntries(t, o) :
            \/ i \in RaiseEntries(s, o) /\ i \in 1 .. m - 1
            \/ i = m /\ a.type = "raise"
  <2>1. \A r \in Rounds : r # o => RaiseEntries(t, r) = RaiseEntries(s, r)
    BY <1>10 DEF RaiseEntries
  <2>2. \A r \in Rounds : RaiseEntries(s, r) \subseteq DOMAIN s.action[r]
    BY DEF RaiseEntries
  <2>3. ASSUME NEW i \in RaiseEntries(t, o)
        PROVE  \/ i \in RaiseEntries(s, o) /\ i \in 1 .. m - 1
               \/ i = m /\ a.type = "raise"
    <3>1. i \in 1 .. m /\ t.action[o][i].type = "raise"
      BY <1>10 DEF RaiseEntries
    <3>2. i = m \/ i \in 1 .. m - 1
      BY <1>10, <3>1
    <3>3. CASE i = m
      BY <1>19, <3>1, <3>3
    <3>4. CASE i \in 1 .. m - 1
      BY <1>10, <3>1, <3>4 DEF RaiseEntries
    <3> QED BY <3>2, <3>3, <3>4
  <2> QED BY <2>1, <2>2, <2>3
<1>21. ASSUME NEW i \in RaiseEntries(t, t.round)
       PROVE  Full(t, t.round, i) \in Int /\ Full(t, t.round, i) <= t.minNoLimitRaiseTo
  <2>1. t.round = o
    <3>1. SUFFICES ASSUME t.round # o PROVE FALSE
      OBVIOUS
    <3>2. t.round > o
      BY <1>6, <1>10, <1>11, <3>1
    <3>3. t.action[t.round] = << >>
      BY <1>8, <1>10, <1>11, <3>1, <3>2 DEF Later, o
    <3> QED BY <3>3 DEF RaiseEntries
  <2>2. t.minNoLimitRaiseTo = NewMinRaiseTo(s, f)
    BY <1>6, <1>10, <2>1
  <2>3. NewMinRaiseTo(s, f) \in Int /\ NewMinRaiseTo(s, f) >= s.minNoLimitRaiseTo
    BY <1>11, <1>12, <1>13 DEF Larger
  <2>4. CASE i \in RaiseEntries(s, o)
    <3>1. Full(t, o, i) = Full(s, o, i)
      BY <1>10, <1>18, <1>20, <2>4
    <3> QED BY <1>11, <1>14, <2>1, <2>2, <2>3, <2>4, <3>1
  <2>5. CASE i = m /\ a.type = "raise"
    BY <1>11, <1>12, <1>19, <2>1, <2>2, <2>5 DEF Larger
  <2> QED BY <1>20, <2>1, <2>4, <2>5
<1>22. ASSUME NEW r \in Rounds, NEW i \in RaiseEntries(t, r), NEW j \in RaiseEntries(t, r), i < j
       PROVE  \/ t.action[r][j].size >= Full(t, r, i)
              \/ t.action[r][j].size = t.stackPlayer[t.action[r][j].player]
  <2>1. ASSUME i \in RaiseEntries(s, r), j \in RaiseEntries(s, r)
        PROVE  \/ t.action[r][j].size >= Full(t, r, i)
               \/ t.action[r][j].size = t.stackPlayer[t.action[r][j].player]
    <3>1. /\ Full(t, r, i) = Full(s, r, i)
          /\ t.action[r][j] = s.action[r][j]
      BY <1>18, <1>20, <2>1
    <3> QED BY <1>3, <1>14, <1>22, <2>1, <3>1
  <2>2. CASE r # o
    BY <1>20, <2>1, <2>2
  <2>3. CASE r = o
    <3>1. CASE j = m /\ a.type = "raise"
      <4>1. i \in RaiseEntries(s, o)
        <5>1. ~(m < m)
          BY <1>10
        <5> QED BY <1>20, <1>22, <2>3, <3>1, <5>1
      <4>2. Full(t, o, i) = Full(s, o, i) /\ Full(s, o, i) \in Int
            /\ Full(s, o, i) <= s.minNoLimitRaiseTo
        BY <1>10, <1>14, <1>18, <1>20, <4>1
      <4>3. f.size >= Full(s, o, i) \/ f.size = t.stackPlayer[p]
        BY <1>3, <1>11, <1>12, <3>1, <4>2
      <4> QED BY <1>19, <2>3, <3>1, <4>2, <4>3
    <3>2. CASE j \in RaiseEntries(s, o) /\ j \in 1 .. m - 1
      <4>1. i # m
        BY <1>10, <1>22, <3>2
      <4> QED BY <1>20, <1>22, <2>1, <2>3, <3>2, <4>1
    <3> QED BY <1>20, <2>3, <3>1, <3>2
  <2> QED BY <2>2, <2>3
<1> QED
  BY <1>15, <1>16, <1>21, <1>22 DEF StepsUp

(* Before the first action the big blind is the only bet.                   *)
LEMMA DealtStepsUp ==
  ASSUME NEW h \in Nat, NEW st \in Stacks, NEW s, s = InitState(h, st)
  PROVE  StepsUp(s)
<1>1. s \in State /\ s.maxSpent = BigBlind
  BY InitStateEffect
<1>2. BigBlind \in Int
  BY BigBlindIsABlind
<1>3. \A r \in Rounds : s.action[r] = << >>
  BY DEF InitState
<1>4. \A r \in Rounds : DOMAIN s.action[r] = {} /\ RaiseEntries(s, r) = {}
  BY <1>3 DEF RaiseEntries
<1>5. s.round \in Rounds
  BY <1>1 DEF State
<1>6. \A c : AnyBet(s, c) <=> c = BigBlind
  BY <1>4 DEF AnyBet
<1>7. BigBlind <= s.maxSpent
  BY <1>1, <1>2
<1>8. Later(s)
  BY <1>3 DEF Later
<1> QED
  BY <1>1, <1>2, <1>4, <1>5, <1>6, <1>7, <1>8 DEF StepsUp

(* A limit game keeps no minimum and has no raise sizes to compare.         *)
StepsUpInv == NoLimit => StepsUp(state)

(* StepsUpInv is inductive where raises do not wrap.                        *)
LEMMA StepsUpHold ==
  ASSUME PlayableStacks, BetsFit
  PROVE  Spec => []StepsUpInv
<1>1. Init => StepsUpInv
  BY DealtStepsUp, BettingAssumption DEF Init, StepsUpInv
<1>2. ChipsInv /\ BetInv /\ StepsUpInv /\ [Next]_vars => StepsUpInv'
  <2>1. ASSUME ChipsInv, BetInv, StepsUpInv, NEW a \in Action, Take(a) PROVE StepsUpInv'
    <3>1. IsValidAction(state, TRUE, a) /\ state' = DoAction(state, FixedAction(state, a))
      BY <2>1 DEF Take
    <3>2. HandChips(state) /\ HandBets(state)
      BY <2>1, HandInvariants
    <3> QED BY <2>1, <3>1, <3>2, ActionStepsUp DEF StepsUpInv
  <2>2. ASSUME NEW h \in HandIds, NEW st \in Stacks, state' = InitState(h, st)
        PROVE  StepsUpInv'
    BY <2>2, DealtStepsUp, BettingAssumption DEF StepsUpInv
  <2>3. ASSUME StepsUpInv, UNCHANGED vars PROVE StepsUpInv'
    BY <2>3 DEF StepsUpInv, vars
  <2> QED BY <2>1, <2>2, <2>3, StepsOfNext
<1> QED
  BY <1>1, <1>2, ChipsHold, BetsHold, PTL DEF Spec

(* Where no raise wraps the 32-bit arithmetic of minNoLimitRaiseTo, a raise *)
(* of the round goes at least as far beyond an earlier one as that went     *)
(* beyond the bet it raised, or is all-in.                                  *)
THEOREM RaisesStepUpHolds ==
  ASSUME PlayableStacks, BetsFit
  PROVE  Spec => []RaisesStepUp
<1>1. StepsUpInv => RaisesStepUp
  BY DEF StepsUpInv, StepsUp, Full, RaisesStepUp
<1> QED
  BY <1>1, StepsUpHold, PTL

-----------------------------------------------------------------------------
(***************************************************************************)
(* The abstract game: what its tree holds in a state of a hand             *)
(***************************************************************************)
(* IsValidAction accepts a call as long as the hand goes on, so it is a      *)
(* candidate.                                                               *)
LEMMA CallIsACandidate ==
  ASSUME NEW s, ~s.finished, NEW c
  PROVE  a_call \in GetCandidateActions(s, c)
<1>1. IsValidAction(s, FALSE, a_call) /\ a_call # a_fold
  BY DEF IsValidAction, a_call, a_fold
<1> QED
  BY <1>1 DEF GetCandidateActions, PassiveActions

(* A raise a real hand goes on with is beyond the bet.                      *)
LEMMA RealRaiseExceedsBet ==
  ASSUME NoLimit, NEW s, HandChips(s), HandBets(s),
         NEW f \in RealActions(s), f.type = "raise"
  PROVE  f.size \in Int /\ f.size > s.maxSpent
<1>1. PICK b \in {a_fold, a_call} \cup [type : {"raise"}, size : RaiseSizes] :
         IsValidAction(s, TRUE, b) /\ f = FixedAction(s, b)
  BY DEF RealActions
<1>2. b \in Action
  <2>1. a_fold \in Action /\ a_call \in Action
    BY DEF Action, a_fold, a_call
  <2>2. [type : {"raise"}, size : RaiseSizes] \subseteq Action
    BY BettingAssumption DEF Action
  <2> QED BY <2>1, <2>2
<1>3. s \in State /\ CurrentPlayer(s) \in Players
  <2>1. s \in State /\ Acting(s) # {}
    BY <1>1 DEF HandChips, IsValidAction
  <2> QED BY <2>1, TurnIsAnActingPlayers DEF Acting
<1>4. f \in Action /\ b.type = "raise"
  BY <1>1, <1>2, <1>3, FixedActionIsPlayable
<1>5. f.size > s.maxSpent
  BY <1>1, <1>2, <1>3, <1>4, RaiseExceedsBet DEF HandBets
<1> QED
  BY <1>4, <1>5 DEF Action

(* Distance takes the call's size for 0, so the call is as far from a real  *)
(* raise as that raise is big: more than the big blind.                     *)
LEMMA CallStaysAChild ==
  ASSUME NoLimit, Similar <= BigBlind, NEW s, HandChips(s), HandBets(s), s.maxSpent >= BigBlind,
         ~s.finished, NEW c, NEW forced \in ForcedActions(s)
  PROVE  a_call \in Children(s, c, forced)
<1>1. a_call \in GetCandidateActions(s, c)
  BY CallIsACandidate
<1>2. CASE forced = {}
  BY <1>1, <1>2 DEF Children
<1>3. CASE forced # {}
  <2>1. PICK f \in RealActions(s) : forced = {f}
    BY <1>3 DEF ForcedActions
  <2>2. CASE f.type # "raise"
    BY <1>1, <2>1, <2>2 DEF Children
  <2>3. CASE f.type = "raise"
    <3>1. f.size \in Int /\ f.size > s.maxSpent
      BY <2>3, RealRaiseExceedsBet
    <3>2. s.maxSpent \in Int /\ BigBlind \in Nat
      BY BigBlindIsABlind DEF HandChips, State
    <3>3. Similar \in Nat
      BY ActionAbsAssumption
    <3>4. Distance(a_call, f) = f.size /\ ~(f.size < Similar)
      BY <3>1, <3>2, <3>3 DEF Distance, a_call, Larger, Smaller
    <3> QED BY <1>1, <2>1, <3>4 DEF Children
  <2> QED BY <2>2, <2>3
<1> QED
  BY <1>2, <1>3

(* "calling should always be an available action": neither a configuration  *)
(* nor the action of a real hand takes the call out of the tree, in any     *)
(* no-limit game whose big blind is no smaller than the 100 chips below     *)
(* which the tree holds two raises to be one.                               *)
THEOREM CallStays ==
  ASSUME PlayableStacks, BetsFit, NoLimit, Similar <= BigBlind
  PROVE  Spec => []CallIsAChild
<1>1. ChipsInv /\ BetInv /\ BlindInv => CallIsAChild
  BY HandInvariants, CallStaysAChild DEF BlindInv, CallIsAChild
<1> QED
  BY <1>1, ChipsHold, BetsHold, BlindsHold, PTL

-----------------------------------------------------------------------------
(* What a player put in before the round is a number of chips.              *)
LEMMA BeforeIsInt ==
  ASSUME NEW s \in State, NEW p \in Players
  PROVE  Before(s, p) \in Int
<1> DEFINE o == s.round
<1>1. o \in Rounds /\ NumRounds \in Nat /\ s.sumRoundSpent \in [Rounds -> [Players -> Int]]
  BY GameAssumption DEF State
<1>2. CASE o = 0
  BY <1>2 DEF Before
<1>3. CASE o # 0
  <2>1. Before(s, p) = s.sumRoundSpent[o - 1][p]
    BY <1>3 DEF Before
  <2> HIDE DEF o
  <2>2. o - 1 \in Rounds
    BY <1>1, <1>3
  <2> QED BY <1>1, <2>1, <2>2
<1> QED
  BY <1>2, <1>3

(* What the raise base is read from: no round's share is more than the bet, *)
(* and the last raiser of the round put in all of it, more than anyone had  *)
(* put in before the round.                                                 *)
Bases(s) ==
  /\ \A r \in Rounds, p \in Players : s.sumRoundSpent[r][p] <= s.maxSpent
  /\ ~s.finished /\ RaiseIndices(s) # {} =>
       /\ s.spent[LastRaiser(s)] = s.maxSpent
       /\ s.sumRoundSpent[s.round][LastRaiser(s)] = s.maxSpent
       /\ \A p \in Players : Before(s, p) < s.maxSpent

(* The last raise of a round is one of its entries.                         *)
LEMMA LastRaiseIs ==
  ASSUME NEW s \in State, RaiseIndices(s) # {}
  PROVE  /\ Max(RaiseIndices(s)) \in RaiseIndices(s)
         /\ \A i \in RaiseIndices(s) : i <= Max(RaiseIndices(s))
         /\ LastRaiser(s) \in Players
<1>1. /\ Len(RoundLog(s)) \in Nat /\ DOMAIN RoundLog(s) = 1 .. Len(RoundLog(s))
      /\ \A i \in DOMAIN RoundLog(s) : Who(s, i) \in Players
  BY LogTypes
<1>2. RaiseIndices(s) \subseteq 1 .. Len(RoundLog(s))
  BY <1>1 DEF RaiseIndices
<1>3. RaiseIndices(s) \in SUBSET Nat /\ \A i \in RaiseIndices(s) : i <= Len(RoundLog(s))
  BY <1>1, <1>2
<1>4. Max(RaiseIndices(s)) \in RaiseIndices(s)
      /\ \A i \in RaiseIndices(s) : i <= Max(RaiseIndices(s))
  BY <1>1, <1>3, BoundedMax
<1> QED
  BY <1>1, <1>2, <1>4 DEF LastRaiser, Who

(* What an action does to them: a raise is the last one, anything else      *)
(* leaves them as they were.                                                *)
LEMMA RecordedRaises ==
  ASSUME NEW s \in State, NEW a, NEW p \in Players, NEW r, NEW m, Recorded(s, a, p, r, m)
  PROVE  /\ a.type = "raise" => LastRaiser(r) = p
         /\ a.type # "raise" => RaiseIndices(r) = RaiseIndices(s)
         /\ a.type # "raise" /\ RaiseIndices(s) # {} => LastRaiser(r) = LastRaiser(s)
<1>1. /\ DOMAIN RoundLog(r) = DOMAIN RoundLog(s) \cup {m} /\ m \notin DOMAIN RoundLog(s)
      /\ \A i \in DOMAIN RoundLog(s) : RoundLog(r)[i] = RoundLog(s)[i] /\ i < m
      /\ RoundLog(r)[m].player = p /\ RoundLog(r)[m].type = a.type /\ r \in State
  BY DEF Recorded, Who
<1>2. DOMAIN RoundLog(s) \subseteq Nat /\ DOMAIN RoundLog(r) \subseteq Nat
  <2>1. /\ DOMAIN RoundLog(s) = 1 .. Len(RoundLog(s)) /\ DOMAIN RoundLog(r) = 1 .. Len(RoundLog(r))
    BY <1>1, LogTypes
  <2> QED BY <2>1
<1>3. ASSUME a.type = "raise" PROVE LastRaiser(r) = p
  <2>1. m \in RaiseIndices(r)
    BY <1>1, <1>3 DEF RaiseIndices
  <2>2. \A i \in RaiseIndices(r) : i <= m
    BY <1>1, <1>2 DEF RaiseIndices
  <2>3. RaiseIndices(r) \in SUBSET Int
    BY <1>2 DEF RaiseIndices
  <2>4. Max(RaiseIndices(r)) = m
    BY <2>1, <2>2, <2>3, MaxIs
  <2> QED BY <1>1, <2>4 DEF LastRaiser
<1>4. ASSUME a.type # "raise" PROVE RaiseIndices(r) = RaiseIndices(s)
  BY <1>1, <1>4 DEF RaiseIndices
<1>5. ASSUME a.type # "raise", RaiseIndices(s) # {} PROVE LastRaiser(r) = LastRaiser(s)
  <2>1. Max(RaiseIndices(s)) \in DOMAIN RoundLog(s)
    <3>1. Max(RaiseIndices(s)) \in RaiseIndices(s)
      BY <1>5, LastRaiseIs
    <3> QED BY <3>1 DEF RaiseIndices
  <2> QED BY <1>1, <1>4, <1>5, <2>1 DEF LastRaiser
<1> QED
  BY <1>3, <1>4, <1>5

(* An accepted action keeps them so in a no-limit game.                     *)
LEMMA ActionKeepsBases ==
  ASSUME NoLimit, NEW s, HandChips(s), HandBets(s), ~s.finished, Later(s), Bases(s),
         NEW a \in Action, IsValidAction(s, TRUE, a),
         NEW t, t = DoAction(s, FixedAction(s, a))
  PROVE  Bases(t)
<1> DEFINE p == CurrentPlayer(s)
           f == FixedAction(s, a)
           r == RecordAction(s, f)
           M == s.maxSpent
           n == NewSpent(s, f)
           m == Len(RoundLog(s)) + 1
           o == s.round
<1>1. s \in State /\ Stacks # {} /\ Moved(s, a, t)
  BY ActionEffect DEF HandChips
<1>2. p \in Players /\ n \in Int /\ a.type \in Played
  BY <1>1 DEF Moved
<1>3. f \in Action /\ f.type = a.type
  BY <1>1, <1>2, FixedActionIsPlayable
<1>4. Recorded(s, f, p, r, m)
  <2>1. f \in Action /\ f.type \in Played /\ p \in Players /\ p = CurrentPlayer(s)
    BY <1>2, <1>3
  <2> HIDE DEF f, p
  <2> QED BY <1>1, <2>1, RecordedLog DEF m
<1>5. a.type = "raise" => n > M
  <2>1. ASSUME a.type = "raise" PROVE n = f.size
    BY <1>3, <2>1 DEF NewSpent
  <2>2. ASSUME a.type = "raise" PROVE f.size > M
    BY <1>1, <1>2, <2>2, RaiseExceedsBet DEF HandBets
  <2> QED BY <2>1, <2>2
<1>6. a.type # "raise" => n <= M
  <2>1. CASE a.type = "fold"
    <3>1. n = s.spent[p]
      BY <1>3, <2>1 DEF NewSpent
    <3> QED BY <1>2, <3>1 DEF HandBets
  <2>2. CASE a.type = "call"
    <3>1. n = Smaller(M, s.stackPlayer[p])
      BY <1>3, <2>2 DEF NewSpent
    <3>2. M \in Int /\ s.stackPlayer[p] \in Int
      BY <1>1, <1>2 DEF State
    <3> QED BY <3>1, <3>2 DEF Smaller
  <2> QED BY <1>2, <2>1, <2>2 DEF Played
<1>7. a.type # "raise" /\ s.spent[p] = M => n = M
  <2>0. s.spent[p] <= s.stackPlayer[p] /\ s.stackPlayer[p] \in Int /\ M \in Int
    BY <1>1, <1>2 DEF State, HandChips
  <2>1. CASE a.type = "fold"
    BY <1>3, <2>1 DEF NewSpent
  <2>2. CASE a.type = "call"
    <3>1. n = Smaller(M, s.stackPlayer[p])
      BY <1>3, <2>2 DEF NewSpent
    <3> QED BY <2>0, <3>1 DEF Smaller
  <2> QED BY <1>2, <2>1, <2>2 DEF Played
<1>8. o \in Rounds /\ M \in Int /\ s.sumRoundSpent \in [Rounds -> [Players -> Int]]
  BY <1>1 DEF State
<1>9. /\ t.action = r.action /\ t.spent = r.spent /\ t.maxSpent = r.maxSpent
      /\ t.sumRoundSpent = r.sumRoundSpent
      /\ t.finished \/ t = r \/ (t.round = o + 1 /\ t.round \in Rounds)
  <2>1. r \in State /\ r.round = o
    BY <1>4 DEF Recorded
  <2>2. t = Settle(r)
    BY DEF DoAction
  <2> HIDE DEF r
  <2> QED BY <2>1, <2>2, SettleOutcomes
<1> HIDE DEF p, f, r, n, m
<1>10. /\ r.round = o /\ r.finished = s.finished
       /\ \A q \in Rounds : q # o => r.action[q] = s.action[q]
       /\ \A q \in Rounds : q # o => r.sumRoundSpent[q] = s.sumRoundSpent[q]
       /\ \A q \in Players : q # p => r.spent[q] = s.spent[q]
       /\ \A q \in Players : q # p => r.sumRoundSpent[o][q] = s.sumRoundSpent[o][q]
       /\ r.spent[p] = n
       /\ r.sumRoundSpent[o][p] = IF a.type = "fold" THEN s.sumRoundSpent[o][p] ELSE n
       /\ r.maxSpent = IF a.type = "raise" THEN n ELSE M
  BY <1>3, <1>4 DEF Recorded, n
<1>11. r.maxSpent >= M /\ r.maxSpent \in Int /\ n <= r.maxSpent
  BY <1>2, <1>5, <1>6, <1>8, <1>10
<1>12. \A q \in Rounds, b \in Players :
         s.sumRoundSpent[q][b] \in Int /\ s.sumRoundSpent[q][b] <= M
  BY <1>8 DEF Bases
<1>13. ASSUME NEW q \in Rounds, NEW b \in Players PROVE r.sumRoundSpent[q][b] <= r.maxSpent
  <2>1. r.sumRoundSpent[q][b] \in {s.sumRoundSpent[q][b], n}
    BY <1>10
  <2>2. s.sumRoundSpent[q][b] \in Int /\ s.sumRoundSpent[q][b] <= M
    BY <1>12
  <2> QED BY <1>8, <1>11, <2>1, <2>2
<1>14. ASSUME t = r, RaiseIndices(r) # {}
       PROVE  /\ r.spent[LastRaiser(r)] = r.maxSpent
              /\ r.sumRoundSpent[o][LastRaiser(r)] = r.maxSpent
              /\ \A b \in Players : Before(r, b) < r.maxSpent
  <2>0. ASSUME NEW b \in Players
        PROVE  Before(r, b) = Before(s, b) /\ Before(s, b) \in Int /\ Before(s, b) <= M
    <3>1. CASE o = 0
      <4>1. M >= 0
        BY DEF HandBets
      <4> QED BY <1>10, <3>1, <4>1 DEF Before
    <3>2. CASE o # 0
      <4>1. o - 1 \in Rounds /\ o - 1 # o
        <5>1. NumRounds \in Nat /\ o \in 0 .. NumRounds - 1 /\ o # 0
          BY <1>8, <3>2, GameAssumption
        <5> HIDE DEF o
        <5> QED BY <5>1
      <4>2. r.sumRoundSpent[o - 1] = s.sumRoundSpent[o - 1]
        BY <1>10, <4>1
      <4>3. s.sumRoundSpent[o - 1][b] \in Int /\ s.sumRoundSpent[o - 1][b] <= M
        BY <1>12, <4>1
      <4> QED BY <1>10, <3>2, <4>2, <4>3 DEF Before
    <3> QED BY <3>1, <3>2
  <2>1. CASE a.type = "raise"
    <3>1. LastRaiser(r) = p
      BY <1>1, <1>2, <1>3, <1>4, <2>1, RecordedRaises
    <3>2. r.maxSpent = n /\ n > M /\ r.sumRoundSpent[o][p] = n /\ r.spent[p] = n
      BY <1>5, <1>10, <2>1
    <3>3. ASSUME NEW b \in Players PROVE Before(r, b) < r.maxSpent
      BY <1>2, <1>8, <2>0, <3>2
    <3> QED BY <3>1, <3>2, <3>3
  <2>2. CASE a.type # "raise"
    <3>1. RaiseIndices(s) # {} /\ LastRaiser(r) = LastRaiser(s) /\ r.maxSpent = M
      BY <1>1, <1>2, <1>3, <1>4, <1>10, <1>14, <2>2, RecordedRaises
    <3> DEFINE l == LastRaiser(s)
    <3>2. /\ l \in Players /\ s.spent[l] = M /\ s.sumRoundSpent[o][l] = M
          /\ \A b \in Players : Before(s, b) < M
      BY <1>1, <3>1, LastRaiseIs DEF Bases
    <3> HIDE DEF l
    <3>3. r.spent[l] = M /\ r.sumRoundSpent[o][l] = M
      BY <1>7, <1>10, <2>2, <3>2
    <3>4. \A b \in Players : Before(r, b) < M
      BY <2>0, <3>2
    <3> QED BY <3>1, <3>3, <3>4 DEF l
  <2> QED BY <2>1, <2>2
<1>15. ASSUME ~t.finished, RaiseIndices(t) # {} PROVE t = r
  <2>1. ASSUME t.round = o + 1, t.round \in Rounds PROVE FALSE
    <3>1. o + 1 > o /\ o + 1 # o
      BY <1>8
    <3>2. s.action[o + 1] = << >>
      BY <2>1, <3>1 DEF Later
    <3>3. r.action[o + 1] = << >>
      BY <1>10, <2>1, <3>1, <3>2
    <3>4. RoundLog(t) = << >>
      BY <1>9, <2>1, <3>3 DEF RoundLog
    <3> QED BY <1>15, <3>4 DEF RaiseIndices
  <2> QED BY <1>9, <1>15, <2>1
<1>16. \A q \in Rounds, b \in Players : t.sumRoundSpent[q][b] <= t.maxSpent
  BY <1>9, <1>13
<1>17. ASSUME ~t.finished, RaiseIndices(t) # {}
       PROVE  /\ t.spent[LastRaiser(t)] = t.maxSpent
              /\ t.sumRoundSpent[t.round][LastRaiser(t)] = t.maxSpent
              /\ \A b \in Players : Before(t, b) < t.maxSpent
  <2>1. t = r
    BY <1>15, <1>17
  <2> QED BY <1>10, <1>14, <1>17, <2>1
<1> QED
  BY <1>16, <1>17 DEF Bases

BasesInv == Bases(state)

(* Every state of the betting has them.                                     *)
LEMMA BasesHold ==
  ASSUME PlayableStacks, BetsFit, NoLimit
  PROVE  Spec => []BasesInv
<1>0. ASSUME NEW h \in HandIds, NEW st \in Stacks, NEW i, i = InitState(h, st) PROVE Bases(i)
  <2>1. i.maxSpent = BigBlind /\ i.round = 0
    BY <1>0, DealtRound
  <2>2. ASSUME NEW r \in Rounds, NEW p \in Players PROVE i.sumRoundSpent[r][p] <= BigBlind
    <3>1. i.sumRoundSpent[r][p] = IF r = 0 THEN Blind[p] ELSE 0
      BY <1>0 DEF InitState
    <3>2. BigBlind \in Nat /\ Blind[p] <= BigBlind
      BY BigBlindIsABlind
    <3> QED BY <3>1, <3>2
  <2>3. RaiseIndices(i) = {}
    <3>1. RoundLog(i) = << >>
      BY <1>0, GameAssumption DEF InitState, RoundLog
    <3> QED BY <3>1 DEF RaiseIndices
  <2> QED BY <2>1, <2>2, <2>3 DEF Bases
<1>1. Init => BasesInv
  BY <1>0 DEF Init, BasesInv
<1>2. ChipsInv /\ BetInv /\ RoundInv /\ BasesInv /\ [Next]_vars => BasesInv'
  <2>1. ASSUME ChipsInv, BetInv, RoundInv, BasesInv, NEW a \in Action, Take(a) PROVE BasesInv'
    <3>1. IsValidAction(state, TRUE, a) /\ state' = DoAction(state, FixedAction(state, a))
      BY <2>1 DEF Take
    <3>2. ~state.finished
      BY <3>1 DEF IsValidAction
    <3>3. HandChips(state) /\ HandBets(state) /\ Later(state) /\ Bases(state)
      BY <2>1, <3>2, HandInvariants DEF RoundInv, RoundGoesOn, BasesInv
    <3> QED BY <3>1, <3>2, <3>3, ActionKeepsBases DEF BasesInv
  <2>2. ASSUME NEW h \in HandIds, NEW st \in Stacks, state' = InitState(h, st) PROVE BasesInv'
    BY <1>0, <2>2 DEF BasesInv
  <2>3. ASSUME BasesInv, UNCHANGED vars PROVE BasesInv'
    <3>1. state' = state
      BY <2>3 DEF vars
    <3> QED BY <2>3, <3>1 DEF BasesInv
  <2> QED BY <2>1, <2>2, <2>3, StepsOfNext
<1> QED
  BY <1>1, <1>2, ChipsHold, BetsHold, RoundsHold, PTL DEF Spec

(* The pot is what all players have put in.                                 *)
LEMMA PotIsTotal ==
  ASSUME NEW s \in State
  PROVE  Pot(s) = Total(s.spent, Players)
<1>1. DOMAIN s.spent = Players
  BY DEF State
<1> QED
  BY <1>1 DEF Pot, FoldFunction, FoldFunctionOnSet, MapThenFoldSet, Total, TotalFun, AnElement

(* With a big blind, the pot is never empty.                                *)
LEMMA PotIsPositive ==
  ASSUME NEW s, HandChips(s), HandBets(s), Stakes(s), s.maxSpent >= BigBlind, BigBlind > 0
  PROVE  Pot(s) \in Int /\ Pot(s) > 0
<1>1. s \in State /\ BigBlind \in Nat
  BY BigBlindIsABlind DEF HandChips
<1>2. s.maxSpent \in Int /\ \A q \in Players : s.spent[q] \in Nat
  <2>1. s.spent \in [Players -> Int] /\ s.maxSpent \in Int
    BY <1>1 DEF State
  <2>2. ASSUME NEW q \in Players PROVE s.spent[q] \in Nat
    <3>1. s.spent[q] \in Int /\ s.spent[q] >= 0
      BY <2>1 DEF Stakes
    <3> QED BY <3>1
  <2> QED BY <2>1, <2>2
<1>3. PICK p \in Players : s.spent[p] = s.maxSpent
  BY DEF HandBets
<1> DEFINE others == Total(s.spent, Players \ {p})
<1>4. others \in Nat
  <2>1. IsFiniteSet(Players \ {p}) /\ \A q \in Players \ {p} : s.spent[q] \in Nat
    BY <1>2, PlayersFinite, FS_Subset
  <2> QED BY <2>1, TotalIsNat
<1>5. Total(s.spent, Players) = s.spent[p] + others
  <2> DEFINE g == s.spent
  <2>1. IsFiniteSet(Players) /\ \A q \in Players : g[q] \in Int
    BY <1>2, PlayersFinite
  <2> HIDE DEF g
  <2>2. Total(g, Players) = g[p] + Total(g, Players \ {p})
    <3> HIDE DEF Players
    <3> QED BY <2>1, TotalRemove
  <2> QED BY <2>2 DEF g
<1>6. Pot(s) = Total(s.spent, Players)
  BY <1>1, PotIsTotal
<1> HIDE DEF others
<1> QED
  BY <1>1, <1>2, <1>3, <1>4, <1>5, <1>6

(* What a configuration asks for is one of three modes.                     *)
LEMMA ModeIs ==
  ASSUME NEW s, NEW c \in ActionConfs
  PROVE  Mode(s, c) \in {"net", "after_call", "x"}
  BY ActionAbsAssumption DEF Mode

(* Where the mode asks for a raise to go by there is one, and it is more    *)
(* than nothing.                                                            *)
LEMMA RaiseBaseIsPositive ==
  ASSUME NEW s, HandChips(s), HandBets(s), Stakes(s), Bases(s), ~s.finished,
         s.maxSpent >= BigBlind, BlindOfTheFirstTwo > 0,
         NEW c \in ActionConfs, HasRaiseBase(s, c), RaiseIsValid(s)
  PROVE  GetRaiseBase(s, Mode(s, c)) \in Int /\ GetRaiseBase(s, Mode(s, c)) > 0
<1>1. s \in State /\ BigBlind \in Nat /\ BlindOfTheFirstTwo \in Nat /\ BigBlind > 0
  <2>1. s \in State /\ BigBlind \in Nat /\ \A p \in Players : Blind[p] <= BigBlind
    BY BigBlindIsABlind DEF HandChips
  <2>2. Blind \in [Players -> Nat] /\ NumPlayers \in Nat /\ NumPlayers >= 2
    BY GameAssumption
  <2>3. 0 \in Players /\ 1 \in Players
    BY <2>2 DEF Players
  <2>4. Blind[0] \in Nat /\ Blind[1] \in Nat /\ Blind[0] <= BigBlind /\ Blind[1] <= BigBlind
    BY <2>1, <2>2, <2>3
  <2> QED BY <2>1, <2>4 DEF BlindOfTheFirstTwo, Larger
<1>2. CASE Mode(s, c) = "net"
  BY <1>1, <1>2, PotIsPositive DEF GetRaiseBase
<1>3. CASE Mode(s, c) = "after_call"
  <2> DEFINE p == CurrentPlayer(s)
  <2>1. p \in Players
    BY <1>1, TurnIsAnActingPlayers DEF HandChips, Acting
  <2>2. s.maxSpent \in Int /\ s.spent[p] \in Int /\ s.spent[p] <= s.maxSpent
    BY <1>1, <2>1 DEF State, HandBets
  <2>3. GetRaiseBase(s, Mode(s, c)) = Pot(s) + s.maxSpent - s.spent[p]
    BY <1>3 DEF GetRaiseBase
  <2>4. Pot(s) \in Int /\ Pot(s) > 0
    BY <1>1, PotIsPositive
  <2> HIDE DEF p
  <2> QED BY <2>2, <2>3, <2>4
<1>4. CASE Mode(s, c) = "x" /\ OnlyBlinds(s)
  BY <1>1, <1>4 DEF GetRaiseBase
<1>5. CASE Mode(s, c) = "x" /\ ~OnlyBlinds(s)
  <2> DEFINE l == LastRaiser(s)
             u == s.sumRoundSpent[s.round][l]
             b == Before(s, l)
  <2>1. RaiseIndices(s) # {}
    BY <1>5 DEF HasRaiseBase
  <2>2. l \in Players
    BY <1>1, <2>1, LastRaiseIs
  <2>3. u = s.maxSpent /\ b < s.maxSpent
    BY <2>1, <2>2 DEF Bases
  <2>4. s.maxSpent \in Int /\ b \in Int
    BY <1>1, <2>2, BeforeIsInt DEF State
  <2>5. GetRaiseBase(s, Mode(s, c)) = u - b
    BY <1>5 DEF GetRaiseBase
  <2> HIDE DEF u, b
  <2> QED BY <2>3, <2>4, <2>5
<1> QED
  BY <1>2, <1>3, <1>4, <1>5, ModeIs

(* A raise by a ratio of it is to a whole number of chips.                  *)
LEMMA RaiseToIsInt ==
  ASSUME NEW s \in State, CurrentPlayer(s) \in Players, NEW mode \in {"net", "after_call", "x"},
         GetRaiseBase(s, mode) \in Int, NEW ratio \in Nat \X (Nat \ {0})
  PROVE  RaiseTo(s, mode, ratio) \in Int
<1> DEFINE g == GetRaiseBase(s, mode)
           k == ratio[1]
           d == ratio[2]
           q == (k * g) \div d
<1>1. k \in Nat /\ d \in Nat \ {0} /\ g \in Int
  OBVIOUS
<1> HIDE DEF g, k, d
<1>2. q \in Int
  BY <1>1
<1> HIDE DEF q
<1>3. Times(ratio, g) = q
  BY DEF Times, q, k, d
<1>4. /\ s.spent[CurrentPlayer(s)] \in Int /\ s.maxSpent \in Int
      /\ Before(s, CurrentPlayer(s)) \in Int
  BY BeforeIsInt DEF State
<1> QED
  BY <1>2, <1>3, <1>4 DEF RaiseTo, g

(* The raises a configuration yields are sizes isValidAction takes.         *)
LEMMA RaisesArePlayable ==
  ASSUME NEW s \in State, Acting(s) # {}, NEW c \in ActionConfs,
         GetRaiseBase(s, Mode(s, c)) \in Int, NEW x \in Raises(s, c)
  PROVE  x \in MinRaiseTo(s) .. MaxRaiseTo(s)
<1> DEFINE lo == MinRaiseTo(s)
           hi == MaxRaiseTo(s)
<1>1. CurrentPlayer(s) \in Players
  BY TurnIsAnActingPlayers DEF Acting
<1>2. lo \in Int /\ hi \in Int /\ lo <= hi
  <2>1. s.stackPlayer[CurrentPlayer(s)] \in Int /\ s.minNoLimitRaiseTo \in Int
    BY <1>1 DEF State
  <2> QED BY <2>1 DEF MinRaiseTo, MaxRaiseTo, Smaller
<1>3. ASSUME NEW y \in Int PROVE Adjusted(s, y) \in lo .. hi
  <2>1. Adjusted(s, y) = Smaller(Larger(y, lo), hi)
    BY DEF Adjusted
  <2> HIDE DEF lo, hi
  <2> QED BY <1>2, <2>1 DEF Smaller, Larger
<1>4. ASSUME NEW i \in Applicable(s, c), c.raises[i].ratio # AllIn
      PROVE  RaiseTo(s, Mode(s, c), c.raises[i].ratio) \in Int
  <2>1. c.raises[i].ratio \in Nat \X (Nat \ {0})
    BY <1>4, ActionAbsAssumption DEF Applicable
  <2> QED BY <1>1, <2>1, ModeIs, RaiseToIsInt
<1>5. \E i \in Applicable(s, c) :
        \/ x = MaxRaiseTo(s)
        \/ /\ c.raises[i].ratio # AllIn
           /\ x = Adjusted(s, RaiseTo(s, Mode(s, c), c.raises[i].ratio))
  BY DEF Raises
<1> HIDE DEF lo, hi
<1> QED
  BY <1>2, <1>3, <1>4, <1>5 DEF hi, lo

(* What the tree holds in a state of a hand is what a player may do there,  *)
(* as it is: no raise of the configuration needs fixing and no raise base   *)
(* is empty, for any configuration and any no-limit game with a blind of     *)
(* player 0 or 1.                                                           *)
THEOREM ChildrenAreValid ==
  ASSUME PlayableStacks, BetsFit, NoLimit, BlindOfTheFirstTwo > 0
  PROVE  Spec => []ChildrenArePlayable
<1>1. ASSUME HandChips(state), HandBets(state), Stakes(state), BlindInv, Bases(state)
      PROVE  ChildrenArePlayable
  <2> SUFFICES ASSUME ~state.finished, NEW c \in ActionConfs, HasRaiseBase(state, c)
               PROVE  /\ RaiseIsValid(state) => GetRaiseBase(state, Mode(state, c)) > 0
                      /\ \A a \in Children(state, c, {}) : IsValidAction(state, FALSE, a)
    BY DEF ChildrenArePlayable
  <2>1. state \in State /\ Acting(state) # {}
    BY <1>1 DEF HandChips
  <2>2. RaiseIsValid(state) =>
          GetRaiseBase(state, Mode(state, c)) \in Int /\ GetRaiseBase(state, Mode(state, c)) > 0
    BY <1>1, RaiseBaseIsPositive DEF BlindInv
  <2>3. ASSUME NEW a \in Children(state, c, {}) PROVE IsValidAction(state, FALSE, a)
    <3>1. a \in GetCandidateActions(state, c)
      BY DEF Children
    <3>2. CASE a \in PassiveActions(state)
      BY <3>2 DEF PassiveActions
    <3>3. CASE a \notin PassiveActions(state)
      <4>1. RaiseIsValid(state) /\ \E x \in Raises(state, c) : a = [type |-> "raise", size |-> x]
        BY <3>1, <3>3 DEF GetCandidateActions
      <4>2. PICK x \in Raises(state, c) : a = [type |-> "raise", size |-> x]
        BY <4>1
      <4>3. x \in MinRaiseTo(state) .. MaxRaiseTo(state)
        BY <2>1, <2>2, <4>1, RaisesArePlayable
      <4> QED BY <4>1, <4>2, <4>3 DEF IsValidAction
    <3> QED BY <3>2, <3>3
  <2> QED BY <2>2, <2>3
<1>2. ChipsInv /\ BetInv /\ StakesInv /\ BlindInv /\ BasesInv => ChildrenArePlayable
  BY <1>1, HandInvariants DEF StakesInv, BasesInv
<1> QED
  BY <1>2, ChipsHold, BetsHold, StakesHold, BlindsHold, BasesHold, PTL

(***************************************************************************)
(* The payoff.  The loop over the side pots is shown to add up one share   *)
(* for every chip of a player's stake; sums over players and sums over     *)
(* chips can then be exchanged (SumProofs), which gives the totals.  The   *)
(* hands that come to be scored are those of the betting, whose invariants *)
(* PayoffInv extends.                                                      *)
(***************************************************************************)
(* The chips put in, counted chip by chip or player by player.              *)
LEMMA StakesByChips ==
  ASSUME NEW s, s.spent \in [Players -> Nat], NEW S \in SUBSET Players, NEW n \in Nat
  PROVE  Total([k \in 1 .. n |-> Cardinality(Payers(s, k) \cap S)], 1 .. n)
           = Total([q \in S |-> Smaller(n, s.spent[q])], S)
<1> DEFINE K == 1 .. n
           m == [k \in K |-> [q \in S |-> IF s.spent[q] >= k THEN 1 ELSE 0]]
<1>1. IsFiniteSet(K) /\ IsFiniteSet(S)
  BY PlayersFinite, FS_Subset, UpTo
<1>2. m \in [K -> [S -> Int]]
  OBVIOUS
<1>3. ASSUME NEW k \in K PROVE Total(m[k], S) = Cardinality(Payers(s, k) \cap S)
  <2>1. Payers(s, k) \cap S \in SUBSET S
    OBVIOUS
  <2>2. \A q \in S : m[k][q] = IF q \in Payers(s, k) \cap S THEN 1 ELSE 0
    BY DEF Payers
  <2> HIDE DEF m
  <2> QED BY <1>1, <2>1, <2>2, TotalCounts
<1>4. ASSUME NEW q \in S
      PROVE  Total([k \in K |-> m[k][q]], K) = Smaller(n, s.spent[q])
  <2> DEFINE z == Smaller(n, s.spent[q])
             g == [k \in K |-> m[k][q]]
             T == 1 .. z
  <2>1. s.spent[q] \in Nat
    OBVIOUS
  <2>2. z \in Nat /\ z <= n /\ z <= s.spent[q] /\ (z = n \/ z = s.spent[q])
    BY <2>1 DEF Smaller
  <2>3. \A k \in K : g[k] = IF s.spent[q] >= k THEN 1 ELSE 0
    OBVIOUS
  <2> HIDE DEF z, g
  <2>4. T \in SUBSET K /\ \A k \in K : g[k] = IF k \in T THEN 1 ELSE 0
    BY <2>1, <2>2, <2>3
  <2>5. Cardinality(T) = z
    BY <2>2, UpTo
  <2> HIDE DEF T, K
  <2>6. Total(g, K) = Cardinality(T)
    BY <1>1, <2>4, TotalCounts
  <2> QED BY <2>5, <2>6 DEF g, z
<1>5. [k \in K |-> Total(m[k], S)] = [k \in K |-> Cardinality(Payers(s, k) \cap S)]
  BY <1>3
<1>6. [q \in S |-> Total([k \in K |-> m[k][q]], K)] = [q \in S |-> Smaller(n, s.spent[q])]
  BY <1>4
<1> HIDE DEF K, m
<1>7. Total([k \in K |-> Total(m[k], S)], K)
        = Total([q \in S |-> Total([k \in K |-> m[k][q]], K)], S)
  BY <1>1, <1>2, TotalSwap
<1> QED
  BY <1>5, <1>6, <1>7 DEF K

(* A hand shown loses at most its stake, and wins from each opponent at     *)
(* most as much as it put in itself.                                        *)
LEMMA ShareBounds ==
  ASSUME NEW s, NEW rk, Countable(s, rk), NEW p \in Shown(s, rk)
  PROVE  /\ Total(Chips(s, rk, p), 1 .. s.spent[p]) \in Int
         /\ -(Scale * s.spent[p]) <= Total(Chips(s, rk, p), 1 .. s.spent[p])
         /\ Total(Chips(s, rk, p), 1 .. s.spent[p])
              <= Scale * Total([q \in Players |-> Smaller(s.spent[p], s.spent[q])], Players \ {p})
<1> DEFINE n    == s.spent[p]
           K    == 1 .. n
           R    == Players \ {p}
           f    == Chips(s, rk, p)
           lose == [k \in K |-> -Scale]
           pay  == [k \in K |-> Cardinality(Payers(s, k) \cap R)]
           win  == [k \in K |-> Scale * pay[k]]
           risk == [q \in Players |-> Smaller(n, s.spent[q])]
<1>1. n \in Nat /\ Scale \in Nat /\ s.spent \in [Players -> Nat]
  <2>1. s.spent \in [Players -> Nat] /\ p \in Players
    BY ShownIsIn DEF Countable
  <2> QED BY <2>1, ScaleAssumption
<1>2. IsFiniteSet(K) /\ Cardinality(K) = n
  BY <1>1, UpTo
<1>3. ASSUME NEW k \in K
      PROVE  f[k] \in Int /\ pay[k] \in Nat /\ -Scale <= f[k] /\ f[k] <= Scale * pay[k]
  <2>1. Best(s, rk, k) # {} /\ f[k] = ChipShare(s, rk, p, k)
    BY ShownIsIn, ChipsHaveWinners, ChipsAreInts
  <2>2. IsFiniteSet(Payers(s, k)) /\ p \in Payers(s, k) /\ Payers(s, k) \subseteq Players
    <3>1. s.spent[p] >= k
      BY <1>1
    <3> QED BY <2>1, <3>1, ShownIsIn, PotCounts DEF Payers
  <2>3. Payers(s, k) \cap R = Payers(s, k) \ {p}
    BY <2>2
  <2>4. /\ Cardinality(Payers(s, k) \ {p}) = Cardinality(Payers(s, k)) - 1
        /\ Cardinality(Payers(s, k) \ {p}) \in Nat
    BY <2>2, FS_RemoveElement, FS_CardinalityType, FS_Subset
  <2>5. pay[k] = Cardinality(Payers(s, k)) - 1 /\ pay[k] \in Nat
    BY <2>3, <2>4
  <2> QED BY <2>1, <2>5, ChipShareBounds
<1>4. Total(pay, K) = Total([q \in R |-> Smaller(n, s.spent[q])], R)
  BY <1>1, StakesByChips
<1>5. Total([q \in R |-> Smaller(n, s.spent[q])], R) = Total(risk, R)
  <2>1. IsFiniteSet(R)
    BY PlayersFinite, FS_Subset
  <2>2. \A q \in R : [o \in R |-> Smaller(n, s.spent[o])][q] = risk[q]
    OBVIOUS
  <2> QED BY <2>1, <2>2, TotalAgrees
<1>6. /\ \A k \in K : lose[k] = -Scale /\ lose[k] \in Int
      /\ \A k \in K : win[k] = Scale * pay[k] /\ win[k] \in Int /\ pay[k] \in Int
  <2>1. ASSUME NEW k \in K PROVE pay[k] \in Int /\ Scale * pay[k] \in Int
    <3>1. pay[k] \in Nat
      BY <1>3
    <3> HIDE DEF pay
    <3> QED BY <1>1, <3>1
  <2>2. -Scale \in Int
    BY <1>1
  <2> QED BY <2>1, <2>2
<1>7. \A k \in K : f[k] \in Int /\ lose[k] <= f[k] /\ f[k] <= win[k]
  BY <1>3, <1>6
<1> HIDE DEF n, K, f, lose, pay, win, risk, R
<1>8. Total(f, K) \in Int /\ Total(lose, K) <= Total(f, K) /\ Total(f, K) <= Total(win, K)
  BY <1>2, <1>6, <1>7, TotalIsInt, TotalGrows
<1>9. Total(lose, K) = (-Scale) * n
  <2>1. -Scale \in Int
    BY <1>1
  <2> QED BY <1>2, <1>6, <2>1, TotalConstant
<1>10. Total(win, K) = Scale * Total(pay, K)
  BY <1>1, <1>2, <1>6, TotalTimes
<1>11. (-Scale) * n = -(Scale * n)
  BY <1>1
<1> QED
  BY <1>4, <1>5, <1>8, <1>9, <1>10, <1>11 DEF n, K, f, risk, R

(* Everyone whose hand cannot win: folded, or in without showing it.        *)
Hidden(s, rk) == Players \ Shown(s, rk)

(* The hands shown share out the chips of the others, as far as one of them *)
(* reaches.                                                                 *)
LEMMA ChipIsPaidOut ==
  ASSUME NEW s, NEW rk, Countable(s, rk), NEW k, Payers(s, k) \cap Shown(s, rk) # {}
  PROVE  Total([p \in Payers(s, k) \cap Shown(s, rk) |-> ChipShare(s, rk, p, k)],
               Payers(s, k) \cap Shown(s, rk))
           = Scale * Cardinality(Payers(s, k) \cap Hidden(s, rk))
<1> DEFINE V == Payers(s, k) \cap Shown(s, rk)
           W == Best(s, rk, k)
           P == Cardinality(Payers(s, k))
           share == [p \in V |-> ChipShare(s, rk, p, k)]
<1>1. IsFiniteSet(Payers(s, k)) /\ IsFiniteSet(V) /\ W \in SUBSET V
  <2>1. Payers(s, k) \in SUBSET Players /\ V \in SUBSET Players /\ W \in SUBSET V
    BY DEF Payers, Best
  <2> QED BY <2>1, PlayersFinite, FS_Subset
<1>2. W # {}
  <2>1. \A q \in V : rk[q] \in Int
    BY DEF Countable, Payers
  <2> HIDE DEF V
  <2>2. \E x \in V : \A y \in V : rk[y] <= rk[x]
    BY <1>1, <2>1, SomeLargest DEF V
  <2> QED BY <2>2 DEF Best, V
<1>3. P \in Nat /\ Cardinality(W) \in Nat /\ Cardinality(V) \in Nat /\ Scale \in Nat
  <2>1. IsFiniteSet(W)
    BY <1>1, FS_Subset
  <2> QED BY <1>1, <2>1, FS_CardinalityType, ScaleAssumption
<1>4. PICK c \in Nat : Scale = Cardinality(W) * c /\
        \A p \in V : share[p] = IF p \in W THEN c * P - Scale ELSE -Scale
  <2>1. PICK x \in V : TRUE
    OBVIOUS
  <2>2. PICK c \in Nat : Scale = Cardinality(W) * c
    BY <1>2, ChipShareIs
  <2>3. ASSUME NEW p \in V PROVE share[p] = IF p \in W THEN c * P - Scale ELSE -Scale
    <3>1. PICK d \in Nat :
            /\ Scale = Cardinality(W) * d
            /\ ChipShare(s, rk, p, k) = IF p \in W THEN d * P - Scale ELSE -Scale
      BY <1>2, ChipShareIs
    <3>2. c = d
      <4>1. Cardinality(W) # 0
        <5>1. Cardinality(W) \in 1 .. NumPlayers /\ NumPlayers \in Nat
          BY <1>2, PotCounts, GameAssumption
        <5> HIDE DEF W
        <5> QED BY <5>1
      <4> HIDE DEF W
      <4>2. Cardinality(W) * c = Cardinality(W) * d
        BY <2>2, <3>1
      <4> QED BY <1>3, <4>1, <4>2
    <3> QED BY <3>1, <3>2
  <2> QED BY <2>2, <2>3
<1> DEFINE lose == [p \in V |-> -Scale]
           win  == [p \in V |-> IF p \in W THEN c * P ELSE 0]
<1>5. /\ \A p \in V : lose[p] = -Scale
      /\ \A p \in W : win[p] = c * P
      /\ \A p \in V \ W : win[p] = 0
  BY <1>1
<1>6. \A p \in V : share[p] = lose[p] + win[p] /\ lose[p] \in Int /\ win[p] \in Int
  BY <1>3, <1>4
<1>7. /\ Payers(s, k) = V \cup (Payers(s, k) \cap Hidden(s, rk))
      /\ V \cap (Payers(s, k) \cap Hidden(s, rk)) = {}
  BY DEF Payers, Hidden
<1>8. P = Cardinality(V) + Cardinality(Payers(s, k) \cap Hidden(s, rk))
      /\ Cardinality(Payers(s, k) \cap Hidden(s, rk)) \in Nat
  <2>1. IsFiniteSet(Payers(s, k) \cap Hidden(s, rk))
    BY <1>1, FS_Subset
  <2>2. Cardinality({}) = 0
    BY FS_EmptySet
  <2> DEFINE A == Payers(s, k) \cap Hidden(s, rk)
  <2>3. Cardinality(V \cup A) = Cardinality(V) + Cardinality(A) - Cardinality(V \cap A)
    <3> HIDE DEF A, V
    <3> QED BY <1>1, <2>1, FS_Union DEF A
  <2>4. Cardinality(A) \in Nat
    BY <2>1, FS_CardinalityType
  <2>5. Cardinality(V) \in Nat
    BY <1>3
  <2>6. P = Cardinality(V \cup A) /\ Cardinality(V \cap A) = 0
    <3>1. Payers(s, k) = V \cup A /\ V \cap A = {}
      BY <1>7
    <3> HIDE DEF A, V
    <3> QED BY <2>2, <3>1
  <2> HIDE DEF A, V, P
  <2> QED BY <2>3, <2>4, <2>5, <2>6 DEF A
<1> DEFINE g == Cardinality(Payers(s, k) \cap Hidden(s, rk))
<1> HIDE DEF V, W, P, share, lose, win, g
<1>9. Total(share, V) = Total(lose, V) + Total(win, V)
  BY <1>1, <1>6, TotalPlus
<1>10. Total(lose, V) = (-Scale) * Cardinality(V)
  BY <1>1, <1>3, <1>5, TotalConstant
<1>11. Total(win, V) = Scale * P
  <2>1. Total(win, V) = Total(win, W)
    BY <1>1, <1>5, <1>6, TotalSupport
  <2>2. IsFiniteSet(W) /\ c * P \in Int
    BY <1>1, <1>3, FS_Subset
  <2>3. Total(win, W) = (c * P) * Cardinality(W)
    BY <1>5, <2>2, TotalConstant
  <2>4. (c * P) * Cardinality(W) = (Cardinality(W) * c) * P
    BY <1>3
  <2> QED BY <1>4, <2>1, <2>3, <2>4
<1>12. (-Scale) * Cardinality(V) + Scale * P = Scale * g
  <2>1. P = Cardinality(V) + g /\ g \in Nat
    BY <1>8 DEF g
  <2>2. Scale * (Cardinality(V) + g) = Scale * Cardinality(V) + Scale * g
    BY <1>3, <2>1
  <2>3. (-Scale) * Cardinality(V) = -(Scale * Cardinality(V))
        /\ Scale * Cardinality(V) \in Int /\ Scale * g \in Int
    BY <1>3, <2>1
  <2> QED BY <2>1, <2>2, <2>3
<1> QED
  BY <1>9, <1>10, <1>11, <1>12 DEF V, share, g

-----------------------------------------------------------------------------
(***************************************************************************)
(* What all players together win and lose                                  *)
(***************************************************************************)
(* Some hand is still in.                                                   *)
LEMMA SomeoneIsIn ==
  ASSUME NEW s, NumFolded(s) < NumPlayers
  PROVE  Unfolded(s) # {}
<1>1. SUFFICES ASSUME Unfolded(s) = {} PROVE FALSE
  OBVIOUS
<1>2. Folded(s) = Players
  BY <1>1 DEF Unfolded, Folded
<1>3. NumPlayers \in Nat /\ 0 \in Int /\ NumPlayers - 1 \in Int /\ 0 <= NumPlayers - 1
  BY GameAssumption
<1>4. Cardinality(0 .. NumPlayers - 1) = NumPlayers - 1 - 0 + 1
  BY <1>3, FS_Interval
<1>5. NumFolded(s) = NumPlayers
  BY <1>2, <1>3, <1>4 DEF NumFolded
<1> QED
  BY <1>3, <1>5

(* The largest stake of a hand shown, if there is any.                      *)
Top(s, rk) == Max({0} \cup {s.spent[p] : p \in Shown(s, rk)})

(* Some hand shown has it, and none has more.                               *)
LEMMA TopIsAStake ==
  ASSUME NEW s, NEW rk, s.spent \in [Players -> Nat]
  PROVE  /\ Top(s, rk) \in Nat
         /\ Top(s, rk) = 0 \/ \E x \in Shown(s, rk) : s.spent[x] = Top(s, rk)
         /\ \A p \in Shown(s, rk) : s.spent[p] <= Top(s, rk)
<1> DEFINE U == Shown(s, rk)
           T == {0} \cup {s.spent[p] : p \in U}
<1>1. IsFiniteSet(U) /\ \A p \in U : s.spent[p] \in Nat
  <2>1. U \in SUBSET Players
    BY ShownIsIn
  <2> HIDE DEF U
  <2> QED BY <2>1, PlayersFinite, FS_Subset
<1>2. Top(s, rk) = Max(T)
  BY DEF Top
<1>3. CASE U = {}
  <2>1. T \in SUBSET Int /\ 0 \in T /\ \A t \in T : t <= 0
    BY <1>3
  <2> HIDE DEF T
  <2> QED BY <1>2, <1>3, <2>1, MaxIs
<1>4. CASE U # {}
  <2>1. PICK x \in U : \A y \in U : s.spent[y] <= s.spent[x]
    <3>1. \A p \in U : s.spent[p] \in Int
      BY <1>1
    <3> HIDE DEF U
    <3> QED BY <1>1, <1>4, <3>1, SomeLargest DEF U
  <2>2. Top(s, rk) = s.spent[x]
    <3>1. T \in SUBSET Int /\ s.spent[x] \in T /\ \A t \in T : t <= s.spent[x]
      <4> HIDE DEF U
      <4> QED BY <1>1, <2>1
    <3> HIDE DEF T
    <3> QED BY <1>2, <3>1, MaxIs
  <2> QED BY <1>1, <2>1, <2>2
<1> QED
  BY <1>3, <1>4

(* What the hands shown win is what the others lose to them.                *)
LEMMA SurvivorsTakeFolded ==
  ASSUME NEW s, NEW rk, Countable(s, rk)
  PROVE  Total([p \in Shown(s, rk) |-> Total(Chips(s, rk, p), 1 .. s.spent[p])], Shown(s, rk))
           = Scale * Total([q \in Hidden(s, rk) |-> Smaller(Top(s, rk), s.spent[q])], Hidden(s, rk))
<1> DEFINE U == Shown(s, rk)
           F == Hidden(s, rk)
           n == Top(s, rk)
           K == 1 .. n
           m == [p \in U |-> [k \in K |-> IF k <= s.spent[p] THEN ChipShare(s, rk, p, k) ELSE 0]]
           in(k) == Payers(s, k) \cap U
           pay == [k \in K |-> Cardinality(Payers(s, k) \cap F)]
           col == [k \in K |-> Total([p \in U |-> m[p][k]], U)]
<1>1. /\ U \in SUBSET Players /\ F \in SUBSET Players /\ IsFiniteSet(U)
      /\ \A p \in U : p \in Players /\ ~s.playerFolded[p] /\ s.spent[p] \in Nat
      /\ s.spent \in [Players -> Nat]
  <2>1. U \in SUBSET Players /\ F \in SUBSET Players
    BY ShownIsIn DEF Hidden
  <2>2. \A p \in U : p \in Players /\ ~s.playerFolded[p] /\ s.spent[p] \in Nat
    BY ShownIsIn DEF Countable
  <2> QED BY <2>1, <2>2, PlayersFinite, FS_Subset DEF Countable
<1>2. n \in Nat /\ (n = 0 \/ \E x \in U : s.spent[x] = n) /\ \A p \in U : s.spent[p] <= n
  BY <1>1, TopIsAStake
<1>3. IsFiniteSet(K)
  BY <1>2, UpTo
<1>4. \A p \in U : \A k \in K : k <= s.spent[p] => ChipShare(s, rk, p, k) \in Int
  <2>1. ASSUME NEW p \in U, NEW k \in K, k <= s.spent[p] PROVE k \in 1 .. s.spent[p]
    BY <1>1, <1>2, <2>1
  <2> QED BY <1>1, <2>1, ChipsAreInts
<1>5. m \in [U -> [K -> Int]]
  BY <1>4
<1>6. ASSUME NEW p \in U PROVE Total(m[p], K) = Total(Chips(s, rk, p), 1 .. s.spent[p])
  <2> DEFINE D == 1 .. s.spent[p]
             f == Chips(s, rk, p)
             g == m[p]
  <2>1. s.spent[p] \in Nat /\ s.spent[p] <= n /\ IsFiniteSet(D)
    BY <1>1, <1>2, UpTo
  <2>2. D \in SUBSET K /\ \A k \in K : k \in D <=> k <= s.spent[p]
    BY <1>2, <2>1
  <2>3. \A k \in K : g[k] = IF k <= s.spent[p] THEN ChipShare(s, rk, p, k) ELSE 0
    OBVIOUS
  <2>4. \A k \in D : f[k] = ChipShare(s, rk, p, k)
    BY DEF Chips
  <2>5. \A k \in K : g[k] \in Int
    BY <1>5
  <2> HIDE DEF D, f, g, K
  <2>6. /\ \A k \in D : g[k] = f[k] /\ g[k] \in Int
        /\ \A k \in K \ D : g[k] = 0
    BY <2>2, <2>3, <2>4, <2>5
  <2>7. Total(g, K) = Total(g, D)
    BY <1>3, <2>2, <2>6, TotalSupport
  <2>8. Total(g, D) = Total(f, D)
    BY <2>1, <2>6, TotalAgrees
  <2> QED BY <2>7, <2>8 DEF g, f, D
<1>7. ASSUME NEW k \in K PROVE col[k] = Scale * pay[k]
  <2> DEFINE g == [p \in U |-> m[p][k]]
             h == [p \in in(k) |-> ChipShare(s, rk, p, k)]
  <2>1. k \in Int /\ 1 <= k /\ k <= n
    BY <1>2
  <2>2. in(k) \in SUBSET U /\ \A p \in U : p \in in(k) <=> k <= s.spent[p]
    <3>1. \A p \in U : s.spent[p] \in Int
      BY <1>1
    <3>2. \A p \in U : s.spent[p] >= k <=> k <= s.spent[p]
      BY <2>1, <3>1
    <3> QED BY <1>1, <3>2 DEF Payers
  <2>3. in(k) # {}
    BY <1>2, <2>1, <2>2
  <2>4. \A p \in U : g[p] \in Int /\ g[p] = IF k <= s.spent[p] THEN ChipShare(s, rk, p, k) ELSE 0
    BY <1>5
  <2>5. \A p \in in(k) : h[p] = ChipShare(s, rk, p, k)
    OBVIOUS
  <2>6. Total(h, in(k)) = Scale * Cardinality(Payers(s, k) \cap F)
    BY <2>3, ChipIsPaidOut
  <2> DEFINE V == in(k)
  <2> HIDE DEF g, h, V, U
  <2>7. /\ \A p \in V : g[p] \in Int /\ g[p] = h[p]
        /\ \A p \in U \ V : g[p] = 0
        /\ V \in SUBSET U
    BY <2>2, <2>4, <2>5 DEF V
  <2>8. IsFiniteSet(V)
    BY <1>1, <2>7, FS_Subset
  <2>9. Total(g, U) = Total(g, V)
    <3>1. IsFiniteSet(U)
      BY <1>1 DEF U
    <3> QED BY <2>7, <3>1, TotalSupport
  <2>10. Total(g, V) = Total(h, V)
    BY <2>7, <2>8, TotalAgrees
  <2> QED BY <2>6, <2>9, <2>10 DEF g, h, V, U
<1>8. \A k \in K : pay[k] \in Int
  <2>1. ASSUME NEW k \in K PROVE IsFiniteSet(Payers(s, k) \cap F)
    <3>1. Payers(s, k) \cap F \in SUBSET Players
      BY <1>1
    <3> QED BY <3>1, PlayersFinite, FS_Subset
  <2> QED BY <2>1, FS_CardinalityType
<1>9. Total(pay, K) = Total([q \in F |-> Smaller(n, s.spent[q])], F)
  <2>1. F \in SUBSET Players /\ n \in Nat /\ s.spent \in [Players -> Nat]
    BY <1>1, <1>2
  <2> HIDE DEF F, n
  <2> QED BY <2>1, StakesByChips
<1>10. [p \in U |-> Total(m[p], K)] = [p \in U |-> Total(Chips(s, rk, p), 1 .. s.spent[p])]
  BY <1>6
<1>11. \A k \in K : col[k] = Scale * pay[k] /\ pay[k] \in Int
  BY <1>7, <1>8
<1>12. Total([p \in U |-> Total(m[p], K)], U) = Total(col, K)
  <2> HIDE DEF m, U, K
  <2> QED BY <1>1, <1>3, <1>5, TotalSwap
<1> HIDE DEF col, pay, K, U, m, n, F
<1>13. Total(col, K) = Scale * Total(pay, K)
  BY <1>3, <1>11, ScaleAssumption, TotalTimes
<1> QED
  BY <1>9, <1>10, <1>12, <1>13 DEF U, F, n

(* When one hand is left, every other one is folded and pays it.            *)
LEMMA LastIsPaid ==
  ASSUME NEW s, NEW rk, Countable(s, rk), NumFolded(s) + 1 = NumPlayers,
         NEW v, \A p \in Players : v[p] = ValueOfState(s, rk, p)
  PROVE  Total(v, Players) = 0
<1>1. NumPlayers \in Nat /\ NumFolded(s) \in Nat /\ NumFolded(s) < NumPlayers
  <2>1. Folded(s) \in SUBSET Players
    BY DEF Folded
  <2>2. IsFiniteSet(Folded(s))
    BY <2>1, PlayersFinite, FS_Subset
  <2> QED BY <2>2, GameAssumption, FS_CardinalityType DEF NumFolded
<1>2. PICK x \in Unfolded(s) : TRUE
  BY <1>1, SomeoneIsIn
<1> DEFINE R == Players \ {x}
<1>3. x \in Players /\ ~s.playerFolded[x] /\ IsFiniteSet(Players) /\ IsFiniteSet(R)
  BY <1>2, PlayersFinite, FS_Subset DEF Unfolded, Folded
<1>4. \A q \in R : s.playerFolded[q]
  <2>1. Folded(s) \in SUBSET R
    BY <1>2 DEF Unfolded, Folded
  <2>2. Cardinality(R) = Cardinality(Players) - 1
    BY <1>3, FS_RemoveElement
  <2>3. Cardinality(Players) = NumPlayers
    <3>1. 0 \in Int /\ NumPlayers - 1 \in Int /\ 0 <= NumPlayers - 1
      BY GameAssumption
    <3>2. Cardinality(0 .. NumPlayers - 1) = NumPlayers - 1 - 0 + 1
      BY <3>1, FS_Interval
    <3> QED BY <1>1, <3>2
  <2>4. Cardinality(Folded(s)) = Cardinality(R)
    BY <1>1, <2>2, <2>3 DEF NumFolded
  <2>5. Folded(s) = R
    <3> HIDE DEF R
    <3> QED BY <1>3, <2>1, <2>4, FS_Subset
  <2> QED BY <2>5 DEF Folded
<1>5. v[x] = Scale * Total(s.spent, R) /\ Total(s.spent, R) \in Nat
  <2>1. v[x] = ValueOfState(s, rk, x)
    BY <1>3
  <2>2. /\ ValueOfState(s, rk, x) = Scale * Total(s.spent, R)
        /\ Total(s.spent, R) \in Nat
    BY <1>3, ValueOfTheLast
  <2> QED BY <2>1, <2>2
<1>6. ASSUME NEW q \in R PROVE v[q] = (-Scale) * s.spent[q] /\ v[q] \in Int /\ s.spent[q] \in Int
  <2>1. v[q] = -(Scale * s.spent[q])
    BY <1>4 DEF ValueOfState
  <2>2. s.spent[q] \in Nat
    BY DEF Countable
  <2> QED BY <2>1, <2>2, ScaleAssumption
<1>7. -Scale \in Int /\ Scale \in Nat
  BY ScaleAssumption
<1> HIDE DEF R
<1>8. Total(v, R) = (-Scale) * Total(s.spent, R)
  BY <1>3, <1>6, <1>7, TotalTimes
<1>9. Total(v, Players) = v[x] + Total(v, R)
  <2>1. v[x] \in Int
    BY <1>5, <1>7
  <2>2. \A p \in Players : v[p] \in Int
    BY <1>6, <2>1 DEF R
  <2>3. Total(v, Players) = v[x] + Total(v, Players \ {x})
    <3> HIDE DEF Players
    <3> QED BY <1>3, <2>2, TotalRemove
  <2> QED BY <2>3 DEF R
<1>10. Scale * Total(s.spent, R) + (-Scale) * Total(s.spent, R) = 0
  BY <1>5, <1>7
<1> QED
  BY <1>5, <1>8, <1>9, <1>10

(* At a showdown the players together lose what is out of reach.            *)
LEMMA ShowdownIsPaid ==
  ASSUME NEW s, NEW rk, Countable(s, rk), NumFolded(s) + 1 < NumPlayers,
         NEW v, \A p \in Players : v[p] = ValueOfState(s, rk, p)
  PROVE  Total(v, Players) = -(Scale * Unclaimed(s, rk)) /\ Unclaimed(s, rk) \in Nat
<1> DEFINE U == Shown(s, rk)
           F == Hidden(s, rk)
           n == Top(s, rk)
           chips == [p \in U |-> Total(Chips(s, rk, p), 1 .. s.spent[p])]
           reach == [q \in F |-> Smaller(n, s.spent[q])]
           rest  == [p \in Players |-> Larger(0, s.spent[p] - n)]
           zero  == [p \in Players |-> 0]
<1>1. /\ IsFiniteSet(Players) /\ IsFiniteSet(U) /\ IsFiniteSet(F)
      /\ F \in SUBSET Players /\ Players \ F = U /\ U \in SUBSET Players
      /\ \A p \in Players : s.spent[p] \in Nat
      /\ NumFolded(s) < NumPlayers /\ NumFolded(s) + 1 # NumPlayers
  <2>1. F \in SUBSET Players /\ U = Players \ F
    BY ShownIsIn DEF Hidden
  <2>2. IsFiniteSet(F) /\ NumFolded(s) \in Nat
    <3>1. Folded(s) \in SUBSET Players
      BY DEF Folded
    <3> HIDE DEF F
    <3> QED BY <2>1, <3>1, PlayersFinite, FS_Subset, FS_CardinalityType DEF NumFolded
  <2>3. IsFiniteSet(U)
    BY <2>1, PlayersFinite, FS_Subset
  <2>4. NumFolded(s) < NumPlayers /\ NumFolded(s) + 1 # NumPlayers
    BY <2>2, GameAssumption
  <2>5. (\A p \in Players : s.spent[p] \in Nat) /\ Players \ F = U /\ U \in SUBSET Players
    BY <2>1 DEF Countable
  <2> QED BY <2>1, <2>2, <2>3, <2>4, <2>5, PlayersFinite
<1>3. n \in Nat
  BY TopIsAStake DEF Countable
<1>4. Unclaimed(s, rk) = Total(rest, F)
  BY <1>1, SumOverIsTotal DEF Unclaimed, Top, Hidden
<1>5. \A p \in Players : v[p] = Total(Chips(s, rk, p), 1 .. s.spent[p])
  <2>1. ASSUME NEW p \in Players PROVE v[p] = Total(Chips(s, rk, p), 1 .. s.spent[p])
    <3>1. NumFolded(s) + 1 # NumPlayers
      BY <1>1
    <3> QED BY <3>1, ValueIsChips
  <2> QED BY <2>1
<1>6. \A p \in U : v[p] \in Int /\ v[p] = chips[p]
  <2>1. ASSUME NEW p \in U PROVE Total(Chips(s, rk, p), 1 .. s.spent[p]) \in Int
    BY ShareBounds
  <2> QED BY <1>1, <1>5, <2>1
<1>7. ASSUME NEW q \in F PROVE v[q] = (-Scale) * s.spent[q] /\ v[q] \in Int /\ s.spent[q] \in Int
  <2>1. v[q] = -(Scale * s.spent[q])
    BY <1>1, <1>5, HiddenChips DEF Hidden
  <2>2. s.spent[q] \in Nat
    BY <1>1
  <2> QED BY <2>1, <2>2, ScaleAssumption
<1>8. Total(v, U) = Scale * Total(reach, F)
  <2>1. Total(v, U) = Total(chips, U)
    <3> HIDE DEF chips, U
    <3> QED BY <1>1, <1>6, TotalAgrees
  <2>2. Total(chips, U) = Scale * Total(reach, F)
    BY SurvivorsTakeFolded
  <2> QED BY <2>1, <2>2
<1>9. ASSUME NEW q \in F
      PROVE  /\ reach[q] \in Int /\ rest[q] \in Nat /\ s.spent[q] = reach[q] + rest[q]
             /\ zero[q] = 0 /\ zero[q] <= rest[q]
  <2>1. s.spent[q] \in Nat /\ q \in Players
    BY <1>1
  <2> HIDE DEF n
  <2> QED BY <1>3, <2>1 DEF Smaller, Larger
<1>10. -Scale \in Int /\ Scale \in Nat
  BY ScaleAssumption
<1> HIDE DEF U, F, n, chips, reach, rest, zero
<1>11. Total(v, Players) = Total(v, F) + Total(v, U)
  <2>1. \A p \in Players : v[p] \in Int
    BY <1>1, <1>6, <1>7
  <2>2. Total(v, Players) = Total(v, F) + Total(v, Players \ F)
    <3> HIDE DEF Players
    <3> QED BY <1>1, <2>1, TotalSplit
  <2> QED BY <1>1, <2>2
<1>12. Total(v, F) = (-Scale) * Total(s.spent, F)
  <2>1. IsFiniteSet(F) /\ \A q \in F : s.spent[q] \in Int /\ v[q] = (-Scale) * s.spent[q]
    BY <1>1, <1>7
  <2> QED BY <1>10, <2>1, TotalTimes
<1>13. Total(s.spent, F) = Total(reach, F) + Total(rest, F)
  <2>1. \A q \in F : reach[q] \in Int /\ rest[q] \in Int /\ s.spent[q] = reach[q] + rest[q]
    BY <1>9
  <2>2. IsFiniteSet(F)
    BY <1>1
  <2> QED BY <2>1, <2>2, TotalPlus
<1>14. Total(reach, F) \in Int /\ Total(rest, F) \in Nat
  <2>1. \A q \in F : reach[q] \in Int /\ rest[q] \in Int /\ zero[q] \in Int /\ zero[q] = 0
                   /\ zero[q] <= rest[q]
    BY <1>9
  <2>2. Total(reach, F) \in Int /\ Total(rest, F) \in Int /\ Total(zero, F) <= Total(rest, F)
    BY <1>1, <2>1, TotalIsInt, TotalGrows
  <2>3. Total(zero, F) = 0 * Cardinality(F) /\ Cardinality(F) \in Nat
    <3>1. IsFiniteSet(F) /\ 0 \in Int
      BY <1>1
    <3> QED BY <2>1, <3>1, TotalConstant, FS_CardinalityType
  <2> QED BY <2>2, <2>3
<1>15. Scale * Total(reach, F) + (-Scale) * (Total(reach, F) + Total(rest, F))
         = -(Scale * Total(rest, F))
  BY <1>10, <1>14
<1>16. Scale * Total(reach, F) \in Int /\ (-Scale) * (Total(reach, F) + Total(rest, F)) \in Int
  BY <1>10, <1>14
<1> QED
  BY <1>4, <1>8, <1>11, <1>12, <1>13, <1>14, <1>15, <1>16

(* Nothing is out of reach when the largest stake not shown is not.         *)
LEMMA NothingOutOfReach ==
  ASSUME NEW s, NEW rk, s.spent \in [Players -> Nat],
         \A q \in Hidden(s, rk) : s.spent[q] <= Top(s, rk)
  PROVE  Unclaimed(s, rk) = 0
<1> DEFINE F == Hidden(s, rk)
           rest == [p \in Players |-> Larger(0, s.spent[p] - Top(s, rk))]
<1>1. CASE NumFolded(s) + 1 = NumPlayers
  BY <1>1 DEF Unclaimed
<1>2. CASE NumFolded(s) + 1 # NumPlayers
  <2>1. F \in SUBSET Players
    BY DEF Hidden
  <2>2. IsFiniteSet(F) /\ Top(s, rk) \in Nat /\ Cardinality(F) \in Nat
    BY <2>1, PlayersFinite, FS_Subset, FS_CardinalityType, TopIsAStake
  <2>3. ASSUME NEW q \in F PROVE rest[q] = 0
    <3>1. s.spent[q] \in Nat /\ q \in Players /\ s.spent[q] <= Top(s, rk)
      BY <2>1
    <3> QED BY <2>2, <3>1 DEF Larger
  <2>4. Unclaimed(s, rk) = Total(rest, F)
    BY <1>2, SumOverIsTotal DEF Unclaimed, Top, Hidden
  <2> HIDE DEF F, rest
  <2>5. Total(rest, F) = 0 * Cardinality(F)
    BY <2>2, <2>3, TotalConstant
  <2> QED BY <2>2, <2>4, <2>5
<1> QED
  BY <1>1, <1>2

-----------------------------------------------------------------------------
(***************************************************************************)
(* The hands that come to be scored                                        *)
(***************************************************************************)
(* Some hand is always in, and two of them as long as there is betting.     *)
ContestInv ==
    /\ NumFolded(state) < NumPlayers
    /\ ~state.finished => Contested(state)

(* At a showdown whoever has chips behind has matched the bet.              *)
SettledInv ==
    state.finished /\ Contested(state) =>
        \A p \in Acting(state) : state.spent[p] = state.maxSpent

(* The log of the hand so far: its bets, and the players who folded.        *)
LogInv ==
    /\ \A c : AnyBet(state, c) => c \in Int /\ c <= state.maxSpent
    /\ \A r \in Rounds : \A i \in DOMAIN state.action[r] :
         state.action[r][i].type = "fold" => state.playerFolded[state.action[r][i].player]

(* Unless somebody folded without facing a bet, one who is in bet the most. *)
ReachInv ==
    PrematureFolds(state) = {} =>
        \E p \in Unfolded(state) : state.spent[p] = state.maxSpent

PayoffInv == StakesInv /\ ContestInv /\ SettledInv /\ LogInv /\ ReachInv

(* What an action by p leaves of who is in, and its entry in the log.       *)
Folds(s, a, p, t) ==
    /\ p \in Players /\ ~s.playerFolded[p]
    /\ \A q \in Players : q # p => t.playerFolded[q] = s.playerFolded[q]
    /\ t.playerFolded[p] = (a.type = "fold")
    /\ t.finished \/ Contested(t)

(* Betting ends at the latest when one hand is left.                        *)
LEMMA SettleContested ==
  ASSUME NEW s \in State, NEW t, t = Settle(s)
  PROVE  t.playerFolded = s.playerFolded /\ (t.finished \/ Contested(t))
<1>1. NumFolded(s) \in Nat /\ NumActing(s) \in Nat /\ NumCalled(s) \in Nat
  BY CountsAreNats
<1>2. NumPlayers \in Nat /\ NumRounds \in Nat /\ s.round \in Int
  BY GameAssumption DEF State
<1>3. t.playerFolded = s.playerFolded
  BY SettleOutcomes
<1>4. NumFolded(t) = NumFolded(s)
  BY <1>3 DEF NumFolded, Folded
<1>5. CASE NumFolded(s) + 1 >= NumPlayers
  <2>1. t = [s EXCEPT !.finished = TRUE]
    BY <1>1, <1>2, <1>5 DEF Settle
  <2>2. t.finished
    BY <2>1 DEF State
  <2> QED BY <1>3, <2>2
<1>6. CASE ~(NumFolded(s) + 1 >= NumPlayers)
  BY <1>1, <1>2, <1>3, <1>4, <1>6 DEF Contested
<1> QED
  BY <1>5, <1>6

(* Only a fold takes a hand out.                                            *)
LEMMA TakeFolds ==
  ASSUME ChipsInv, NEW a \in Action, Take(a)
  PROVE  Folds(state, a, CurrentPlayer(state), state')
<1> DEFINE p == CurrentPlayer(state)
           f == FixedAction(state, a)
           r == RecordAction(state, f)
<1>1. /\ state \in State /\ Stacks # {} /\ ~state.finished /\ Acting(state) # {}
      /\ IsValidAction(state, TRUE, a)
  BY DEF ChipsInv, TypeOK, Take, IsValidAction, SomeoneCanAct
<1>2. p \in Acting(state)
  BY <1>1, TurnIsAnActingPlayers
<1>3. a.type \in Played /\ p \in Players
  BY TakeEffect DEF Moved
<1>4. f \in Action /\ f.type = a.type
  BY <1>1, <1>3, FixedActionIsPlayable
<1>5. state' = Settle(r)
  BY DEF Take, DoAction
<1> HIDE DEF r, f, p
<1>6. Recorded(state, f, p, r, Len(RoundLog(state)) + 1)
  BY <1>1, <1>3, <1>4, RecordedLog DEF r, p
<1>7. r \in State
  BY <1>6 DEF Recorded
<1>8. state'.playerFolded = r.playerFolded /\ (state'.finished \/ Contested(state'))
  BY <1>5, <1>7, SettleContested
<1>9. /\ \A q \in Players : q # p => r.playerFolded[q] = state.playerFolded[q]
      /\ r.playerFolded[p] = (state.playerFolded[p] \/ a.type = "fold")
  BY <1>4, <1>6 DEF Recorded
<1>10. ~state.playerFolded[p]
  BY <1>2 DEF Acting, CanAct
<1> QED
  BY <1>3, <1>8, <1>9, <1>10 DEF Folds, p

(* The entry an action leaves in the log.                                   *)
LEMMA TakeIsLogged ==
  ASSUME ChipsInv, NEW a \in Action, Take(a)
  PROVE  \E e \in LogEntry :
           /\ OneMore(state, e, state')
           /\ e.type = a.type /\ e.player = CurrentPlayer(state)
           /\ e.type = "raise" => e.size = FixedAction(state, a).size
<1> DEFINE p == CurrentPlayer(state)
           f == FixedAction(state, a)
           e == [type |-> f.type, size |-> f.size, player |-> p]
<1>1. state \in State /\ Stacks # {} /\ IsValidAction(state, TRUE, a)
  BY DEF ChipsInv, TypeOK, Take
<1>2. a.type \in Played /\ p \in Players
  BY TakeEffect DEF Moved
<1>3. f \in Action /\ f.type = a.type
  BY <1>1, <1>2, FixedActionIsPlayable
<1>4. e \in LogEntry /\ e.type = a.type /\ e.player = p /\ e.size = f.size
  BY <1>2, <1>3 DEF LogEntry, Action, Played
<1>5. state' = DoAction(state, f)
  BY DEF Take
<1> HIDE DEF f, p
<1>6. Logged(state, f, p, state')
  BY <1>1, <1>2, <1>3, <1>5, EntryIsLogged DEF p
<1>7. OneMore(state, e, state')
  BY <1>1, <1>4, <1>6, LogHasOneMore DEF Logged
<1> QED
  BY <1>4, <1>7 DEF f, p

(* Two hands are in before an action, so one is after it.                   *)
LEMMA TakeKeepsContest ==
  ASSUME ChipsInv, ContestInv, NEW a \in Action, Take(a)
  PROVE  ContestInv'
<1> DEFINE p == CurrentPlayer(state)
<1>1. Folds(state, a, p, state')
  BY TakeFolds
<1>2. Contested(state) /\ state \in State
  BY DEF Take, IsValidAction, ContestInv, ChipsInv, TypeOK
<1> HIDE DEF p
<1>3. Folded(state') \in SUBSET (Folded(state) \cup {p})
  BY <1>1 DEF Folded, Folds
<1>4. IsFiniteSet(Folded(state)) /\ IsFiniteSet(Folded(state) \cup {p})
  <2>1. Folded(state) \in SUBSET Players
    BY DEF Folded
  <2>2. IsFiniteSet(Folded(state))
    BY <2>1, PlayersFinite, FS_Subset
  <2> QED BY <2>2, FS_AddElement
<1>5. /\ Cardinality(Folded(state) \cup {p}) <= Cardinality(Folded(state)) + 1
      /\ Cardinality(Folded(state)) \in Nat /\ Cardinality(Folded(state) \cup {p}) \in Nat
  <2>1. p \notin Folded(state)
    BY <1>1 DEF Folded, Folds
  <2>2. Cardinality(Folded(state) \cup {p}) = Cardinality(Folded(state)) + 1
    BY <1>4, <2>1, FS_AddElement
  <2>3. Cardinality(Folded(state)) \in Nat
    BY <1>4, FS_CardinalityType
  <2> QED BY <2>2, <2>3
<1>6. /\ Cardinality(Folded(state')) <= Cardinality(Folded(state) \cup {p})
      /\ Cardinality(Folded(state')) \in Nat
  BY <1>3, <1>4, FS_Subset, FS_CardinalityType
<1>7. NumFolded(state') < NumPlayers
  <2>1. NumPlayers \in Int
    BY GameAssumption
  <2> QED BY <1>2, <1>5, <1>6, <2>1 DEF NumFolded, Contested
<1>8. ~state'.finished => Contested(state')
  BY <1>1 DEF Folds
<1> QED
  BY <1>7, <1>8 DEF ContestInv, Contested, NumFolded, Folded

(* Betting is closed only when everyone who can act has matched.            *)
LEMMA TakeSettles ==
  ASSUME ChipsInv, RoundInv, NEW a \in Action, Take(a)
  PROVE  SettledInv'
<1>1. Done(state, state')
  BY TakeIsDone
<1>2. state'.finished /\ Contested(state') =>
        \A p \in Acting(state') : state'.spent[p] = state'.maxSpent
  BY <1>1 DEF Done
<1> QED
  BY <1>2 DEF SettledInv, Contested, NumFolded, Folded, Acting, CanAct, Owes

(* Bets never exceed maxSpent, and who has folded stays out.                *)
LEMMA TakeKeepsLog ==
  ASSUME ChipsInv, BetInv, BetInv', BetsFit, RoundInv, LogInv, NEW a \in Action, Take(a)
  PROVE  LogInv'
<1> DEFINE p == CurrentPlayer(state)
           f == FixedAction(state, a)
           m == Len(state.action[state.round]) + 1
<1>1. PICK e \in LogEntry :
        /\ OneMore(state, e, state') /\ e.type = a.type /\ e.player = p
        /\ e.type = "raise" => e.size = f.size
  BY TakeIsLogged
<1>2. /\ state \in State /\ Later(state) /\ state.round \in Rounds
  BY DEF ChipsInv, TypeOK, State, RoundInv, RoundGoesOn, Take, IsValidAction
<1>3. Folds(state, a, p, state')
  BY TakeFolds
<1>4. /\ state'.maxSpent >= state.maxSpent
      /\ state'.maxSpent \in Int /\ state.maxSpent \in Int
  <2>1. state' \in State
    BY TakeEffect DEF Moved
  <2> QED BY <1>2, <2>1, TakeRaisesBet DEF State
<1>5. ASSUME a.type = "raise" PROVE f.size \in Int /\ f.size <= state'.maxSpent
  <2>1. IsValidAction(state, TRUE, a) /\ p \in Players
    BY <1>3 DEF Take, Folds
  <2>2. f.type = "raise" /\ f.size \in Int
    BY <1>2, <1>5, <2>1, FixedActionIsPlayable DEF Action
  <2>3. CASE NoLimit
    <3>1. state'.maxSpent = NewSpent(state, f)
      BY <1>5, TakeEffect DEF Moved
    <3>2. NewSpent(state, f) = f.size
      BY <2>2, <2>3 DEF NewSpent
    <3> QED BY <1>4, <2>2, <3>1, <3>2
  <2>4. CASE ~NoLimit
    <3>1. f.size = 0
      BY <2>4 DEF FixedAction, Action
    <3>2. state'.maxSpent >= 0
      BY DEF BetInv
    <3> QED BY <3>1, <3>2
  <2> QED BY <2>2, <2>3, <2>4
<1> HIDE DEF f, p
<1>6. \A c : AnyBet(state', c) <=> AnyBet(state, c) \/ (e.type = "raise" /\ c = e.size)
  BY <1>1, <1>2, BetsOfOneMore
<1>7. ASSUME NEW c, AnyBet(state', c) PROVE c \in Int /\ c <= state'.maxSpent
  <2>1. CASE AnyBet(state, c)
    <3>1. c \in Int /\ c <= state.maxSpent
      BY <2>1 DEF LogInv
    <3> QED BY <1>4, <3>1
  <2>2. CASE e.type = "raise" /\ c = e.size
    BY <1>1, <1>5, <2>2
  <2> QED BY <1>6, <1>7, <2>1, <2>2
<1>8. ASSUME NEW r \in Rounds, NEW i \in DOMAIN state'.action[r],
             state'.action[r][i].type = "fold"
      PROVE  state'.playerFolded[state'.action[r][i].player]
  <2>1. CASE r = state.round /\ i = m
    BY <1>1, <1>3, <1>8, <2>1 DEF OneMore, Folds
  <2>2. CASE i \in DOMAIN state.action[r] /\ state'.action[r][i] = state.action[r][i]
    <3> DEFINE q == state.action[r][i].player
    <3>1. state.playerFolded[q]
      BY <1>8, <2>2 DEF LogInv
    <3>2. q \in Players
      <4>1. state.action[r] \in Seq(LogEntry)
        BY <1>2 DEF State
      <4>2. state.action[r][i] \in LogEntry
        BY <2>2, <4>1
      <4> QED BY <4>2 DEF LogEntry
    <3> HIDE DEF q
    <3>3. state'.playerFolded[q]
      BY <1>3, <3>1, <3>2 DEF Folds
    <3> QED BY <2>2, <3>3 DEF q
  <2>3. CASE r = state.round /\ i # m
    <3>1. i \in 1 .. m /\ m \in Nat /\ DOMAIN state.action[r] = 1 .. m - 1
      BY <1>1, <2>3 DEF OneMore
    <3>2. i \in 1 .. m - 1
      BY <2>3, <3>1
    <3>3. state'.action[r][i] = state.action[r][i]
      BY <1>1, <2>3, <3>2 DEF OneMore
    <3> QED BY <2>2, <3>1, <3>2, <3>3
  <2>4. CASE r # state.round
    <3>1. state'.action[r] = state.action[r]
      BY <1>1, <2>4 DEF OneMore
    <3> QED BY <2>2, <3>1
  <2> QED BY <2>1, <2>3, <2>4
<1> QED
  BY <1>7, <1>8 DEF LogInv, AnyBet, Raised

-----------------------------------------------------------------------------
(***************************************************************************)
(* Premature folds                                                         *)
(***************************************************************************)
(* The largest earlier bet is one of them.                                  *)
LEMMA BetBeforeIsABet ==
  ASSUME NEW s, NEW r, NEW i, NEW M \in Int,
         \A c : EarlierBet(s, r, i, c) => c \in Int /\ c <= M
  PROVE  BetBefore(s, r, i) \in Int /\ BetBefore(s, r, i) <= M
<1> DEFINE B == EarlierBets(s, r, i)
           T == {M - c : c \in B}
<1>1. /\ BetBefore(s, r, i) = CHOOSE b \in B : \A c \in B : c <= b
      /\ \A c : c \in B <=> EarlierBet(s, r, i, c)
  BY BetsBefore
<1>2. BigBlind \in B
  BY <1>1 DEF EarlierBet
<1> HIDE DEF B
<1>3. \A c \in B : c \in Int /\ c <= M
  BY <1>1
<1>4. T \in SUBSET Nat /\ T # {}
  BY <1>2, <1>3
<1>5. PICK n \in T : \A m \in T : n <= m
  <2> HIDE DEF T
  <2> QED BY <1>4, LeastNatural
<1>6. PICK b \in B : n = M - b
  BY <1>5
<1>7. ASSUME NEW c \in B PROVE c <= b
  <2>1. n <= M - c
    BY <1>5
  <2> QED BY <1>3, <1>6, <2>1
<1>8. BetBefore(s, r, i) \in B
  BY <1>1, <1>7
<1> QED
  BY <1>3, <1>8

(* A fold that is premature stays so in the rest of the hand.               *)
LEMMA PrematureStays ==
  ASSUME ChipsInv, RoundInv, LogInv, NEW a \in Action, Take(a),
         PrematureFolds(state') = {}
  PROVE  PrematureFolds(state) = {}
<1> DEFINE p == CurrentPlayer(state)
<1>1. PICK e \in LogEntry :
        /\ OneMore(state, e, state') /\ e.type = a.type /\ e.player = p
        /\ e.type = "raise" => e.size = FixedAction(state, a).size
  BY TakeIsLogged
<1>2. /\ state \in State /\ Later(state) /\ state.round \in Rounds
  BY DEF ChipsInv, TypeOK, State, RoundInv, RoundGoesOn, Take, IsValidAction
<1>3. ~state.playerFolded[p] /\ p \in Players
  BY TakeFolds DEF Folds
<1>4. /\ state.spent \in [Players -> Int]
      /\ state'.spent = [state.spent EXCEPT ![p] = NewSpent(state, FixedAction(state, a))]
  BY <1>2, TakeEffect DEF Moved, State
<1> HIDE DEF p
<1>5. \A r \in Rounds : \A i \in DOMAIN state.action[r] :
        BetBefore(state', r, i) = BetBefore(state, r, i)
  BY <1>1, <1>2, BetsOfOneMore
<1>6. \A r \in Rounds : \A i \in DOMAIN state.action[r] :
        i \in DOMAIN state'.action[r] /\ state'.action[r][i] = state.action[r][i]
  <2>1. ASSUME NEW r \in Rounds, NEW i \in DOMAIN state.action[r]
        PROVE  i \in DOMAIN state'.action[r] /\ state'.action[r][i] = state.action[r][i]
    <3>1. CASE r # state.round
      BY <1>1, <3>1 DEF OneMore
    <3>2. CASE r = state.round
      <4> DEFINE m == Len(state.action[state.round]) + 1
      <4>1. /\ m \in Nat /\ DOMAIN state.action[r] = 1 .. m - 1 /\ DOMAIN state'.action[r] = 1 .. m
            /\ \A j \in 1 .. m - 1 : state'.action[r][j] = state.action[r][j]
        BY <1>1, <3>2 DEF OneMore
      <4> HIDE DEF m
      <4> QED BY <4>1
    <3> QED BY <3>1, <3>2
  <2> QED BY <2>1
<1> SUFFICES ASSUME NEW x \in PrematureFolds(state) PROVE FALSE
  OBVIOUS
<1> DEFINE r == x[1]
           i == x[2]
           q == state.action[r][i].player
<1>7. /\ x \in Rounds \X (1 .. MaxNumActions) /\ r \in Rounds /\ i \in DOMAIN state.action[r]
      /\ state.action[r][i].type = "fold"
      /\ state.spent[q] >= BetBefore(state, r, i)
  BY DEF PrematureFolds
<1>8. q \in Players /\ q # p
  <2>1. state.action[r] \in Seq(LogEntry)
    BY <1>2, <1>7 DEF State
  <2>2. state.action[r][i] \in LogEntry
    BY <1>7, <2>1
  <2>3. state.playerFolded[q]
    BY <1>7 DEF LogInv
  <2> QED BY <1>3, <2>2, <2>3 DEF LogEntry
<1>9. state'.spent[q] = state.spent[q]
  BY <1>4, <1>8
<1>10. x \in PrematureFolds(state')
  BY <1>5, <1>6, <1>7, <1>9 DEF PrematureFolds
<1> QED
  BY <1>10

(* Somebody who is in has bet the most, until one of those folds unasked.   *)
LEMMA TakeKeepsReach ==
  ASSUME ChipsInv, BetInv, RoundInv, LogInv, ReachInv, NEW a \in Action, Take(a)
  PROVE  ReachInv'
<1> DEFINE p == CurrentPlayer(state)
           f == FixedAction(state, a)
           n == NewSpent(state, f)
           M == state.maxSpent
           o == state.round
           m == Len(state.action[o]) + 1
<1> SUFFICES ASSUME PrematureFolds(state') = {}
             PROVE  \E w \in Unfolded(state') : state'.spent[w] = state'.maxSpent
  BY DEF ReachInv, Unfolded, Folded, PrematureFolds, BetBefore
<1>1. PICK w \in Unfolded(state) : state.spent[w] = M
  BY PrematureStays DEF ReachInv
<1>2. /\ p \in Players /\ n \in Int /\ a.type \in Played
      /\ state.spent[p] < state.stackPlayer[p]
      /\ state'.spent = [state.spent EXCEPT ![p] = n]
      /\ state'.maxSpent = IF a.type = "raise" THEN n ELSE M
  BY TakeEffect DEF Moved
<1>3. /\ state \in State /\ Later(state) /\ o \in Rounds /\ IsValidAction(state, TRUE, a)
      /\ state.spent \in [Players -> Int] /\ state.stackPlayer \in [Players -> Int] /\ M \in Int
      /\ ~state.finished /\ RoundGoesOn(state) /\ Acting(state) # {}
  BY DEF ChipsInv, TypeOK, State, RoundInv, RoundGoesOn, Take, IsValidAction, SomeoneCanAct
<1>4. f.type = a.type
  BY <1>2, <1>3, FixedActionIsPlayable
<1>5. /\ ~state.playerFolded[p] /\ state'.playerFolded[p] = (a.type = "fold")
      /\ \A q \in Players : q # p => state'.playerFolded[q] = state.playerFolded[q]
  BY TakeFolds DEF Folds
<1>6. w \in Players /\ ~state.playerFolded[w]
  BY <1>1 DEF Unfolded, Folded
<1>7. PICK e \in LogEntry :
        /\ OneMore(state, e, state') /\ e.type = a.type /\ e.player = p
        /\ e.type = "raise" => e.size = f.size
  BY TakeIsLogged
<1>8. ASSUME a.type = "fold" PROVE w # p
  <2>1. n = state.spent[p]
    BY <1>4, <1>8 DEF NewSpent
  <2> HIDE DEF p, f, n
  <2>2. m \in 1 .. MaxNumActions
    <3>1. Len(state.action[o]) < MaxNumActions
      BY <1>3, LogFits DEF RoundGoesOn, RoundLog
    <3>2. Len(state.action[o]) \in Nat
      BY <1>3, LogTypes DEF RoundLog
    <3>3. MaxNumActions \in Nat
      BY GameAssumption
    <3> QED BY <3>1, <3>2, <3>3
  <2>3. /\ m \in DOMAIN state'.action[o] /\ state'.action[o][m] = e
    BY <1>7, <2>2 DEF OneMore
  <2>4. state'.spent[p] = state.spent[p]
    BY <1>2, <1>3, <2>1
  <2> DEFINE B == BetBefore(state', o, m)
  <2>5. ~(state.spent[p] >= B)
    <3> SUFFICES ASSUME state.spent[p] >= B PROVE FALSE
      OBVIOUS
    <3>1. <<o, m>> \in Rounds \X (1 .. MaxNumActions) /\ <<o, m>>[1] = o /\ <<o, m>>[2] = m
      BY <1>3, <2>2
    <3> HIDE DEF m, o
    <3>2. <<o, m>> \in PrematureFolds(state')
      BY <1>7, <1>8, <2>3, <2>4, <3>1 DEF PrematureFolds
    <3> QED BY <3>2
  <2>6. B \in Int /\ B <= M
    <3>1. \A c : EarlierBet(state', o, m, c) <=> AnyBet(state, c)
      BY <1>3, <1>7, BetsOfOneMore
    <3>2. \A c : AnyBet(state, c) => c \in Int /\ c <= M
      BY DEF LogInv
    <3> HIDE DEF m, o, M
    <3> QED BY <1>3, <3>1, <3>2, BetBeforeIsABet
  <2> HIDE DEF B
  <2>7. state.spent[p] \in Int
    BY <1>2, <1>3
  <2>8. state.spent[p] < M
    BY <1>3, <2>5, <2>6, <2>7
  <2> QED BY <1>1, <1>3, <2>8
<1>9. CASE a.type = "raise"
  <2>1. p \in Unfolded(state') /\ state'.spent[p] = n
    BY <1>2, <1>3, <1>5, <1>9 DEF Unfolded, Folded
  <2> QED BY <1>2, <1>9, <2>1
<1>10. CASE a.type # "raise" /\ w # p
  <2>1. w \in Unfolded(state') /\ state'.spent[w] = state.spent[w]
    BY <1>2, <1>3, <1>5, <1>6, <1>10 DEF Unfolded, Folded
  <2> QED BY <1>1, <1>2, <1>10, <2>1
<1>11. CASE a.type = "call" /\ w = p
  <2>1. n = Smaller(M, state.stackPlayer[p])
    BY <1>4, <1>11 DEF NewSpent
  <2> HIDE DEF p, n, f
  <2>2. n = M
    <3>1. M < state.stackPlayer[p] /\ state.stackPlayer[p] \in Int
      BY <1>1, <1>2, <1>3, <1>11
    <3> QED BY <1>3, <2>1, <3>1 DEF Smaller
  <2>3. p \in Unfolded(state') /\ state'.spent[p] = n
    BY <1>2, <1>3, <1>5, <1>11 DEF Unfolded, Folded
  <2> QED BY <1>2, <1>11, <2>2, <2>3
<1> QED
  BY <1>2, <1>8, <1>9, <1>10, <1>11 DEF Played

-----------------------------------------------------------------------------
(***************************************************************************)
(* The invariant of the betting                                            *)
(***************************************************************************)
(* A hand just dealt: the blinds are in, nobody has folded.                 *)
LEMMA DealtPays ==
  ASSUME BetsFit, NEW h \in HandIds, NEW st \in Stacks, state = InitState(h, st)
  PROVE  PayoffInv
<1>1. /\ state \in State /\ state.spent = Blind /\ state.maxSpent = BigBlind
      /\ ~state.finished /\ h \in Nat
  BY InitStateEffect, BettingAssumption
<1>2. /\ \A q \in Players : ~state.playerFolded[q]
      /\ \A r \in Rounds : state.action[r] = << >>
  BY DEF InitState
<1>3. StakesInv
  <2>1. ASSUME NEW q \in Players PROVE Blind[q] >= 0
    <3>1. Blind[q] \in Nat
      BY GameAssumption
    <3> QED BY <3>1
  <2> QED BY <1>1, <2>1 DEF StakesInv, Stakes
<1>4. ContestInv
  <2>1. Folded(state) = {}
    BY <1>2 DEF Folded
  <2>2. NumFolded(state) = 0
    BY <2>1, FS_EmptySet DEF NumFolded
  <2> QED BY <2>2, GameAssumption DEF ContestInv, Contested
<1>5. SettledInv
  BY <1>1 DEF SettledInv
<1>6. LogInv
  <2>1. BigBlind \in Int /\ BigBlind <= state.maxSpent
    BY <1>1, BigBlindIsABlind
  <2>2. \A r \in Rounds : DOMAIN state.action[r] = {}
    BY <1>2
  <2> QED BY <2>1, <2>2 DEF LogInv, AnyBet
<1>7. ReachInv
  <2>1. PICK w \in Players : state.spent[w] = state.maxSpent
    BY <1>1, InitBets
  <2>2. w \in Unfolded(state)
    BY <1>2 DEF Unfolded, Folded
  <2> QED BY <2>1, <2>2 DEF ReachInv
<1> QED
  BY <1>3, <1>4, <1>5, <1>6, <1>7 DEF PayoffInv

(* The same one step later.                                                 *)
LEMMA DealtNextPays ==
  ASSUME BetsFit, NEW h \in HandIds, NEW st \in Stacks, state' = InitState(h, st)
  PROVE  PayoffInv'
<1>1. /\ state' \in State /\ state'.spent = Blind /\ state'.maxSpent = BigBlind
      /\ ~state'.finished /\ h \in Nat
  BY InitStateEffect, BettingAssumption
<1>2. /\ \A q \in Players : ~state'.playerFolded[q]
      /\ \A r \in Rounds : state'.action[r] = << >>
  BY DEF InitState
<1>3. StakesInv'
  <2>1. ASSUME NEW q \in Players PROVE Blind[q] >= 0
    <3>1. Blind[q] \in Nat
      BY GameAssumption
    <3> QED BY <3>1
  <2> QED BY <1>1, <2>1 DEF StakesInv, Stakes
<1>4. ContestInv'
  <2>1. Folded(state') = {}
    BY <1>2 DEF Folded
  <2>2. NumFolded(state') = 0
    BY <2>1, FS_EmptySet DEF NumFolded
  <2> QED BY <2>2, GameAssumption DEF ContestInv, Contested, NumFolded, Folded
<1>5. SettledInv'
  BY <1>1 DEF SettledInv
<1>6. LogInv'
  <2>1. BigBlind \in Int /\ BigBlind <= state'.maxSpent
    BY <1>1, BigBlindIsABlind
  <2>2. \A r \in Rounds : DOMAIN state'.action[r] = {}
    BY <1>2
  <2> QED BY <2>1, <2>2 DEF LogInv, AnyBet
<1>7. ReachInv'
  <2>1. PICK w \in Players : state'.spent[w] = state'.maxSpent
    BY <1>1, InitBets
  <2>2. w \in Unfolded(state')
    BY <1>2 DEF Unfolded, Folded
  <2> QED BY <2>1, <2>2 DEF ReachInv, Unfolded, Folded
<1> QED
  BY <1>3, <1>4, <1>5, <1>6, <1>7 DEF PayoffInv

(* PayoffInv is inductive.                                                  *)
LEMMA PayoffsHold ==
  ASSUME PlayableStacks, BetsFit
  PROVE  Spec => []PayoffInv
<1>1. Init => PayoffInv
  BY DealtPays DEF Init
<1>2. ChipsInv /\ BetInv /\ BetInv' /\ RoundInv /\ PayoffInv /\ [Next]_vars => PayoffInv'
  <2>1. ASSUME ChipsInv, BetInv, BetInv', RoundInv, PayoffInv, NEW a \in Action, Take(a)
        PROVE  PayoffInv'
    <3>1. StakesInv /\ ContestInv /\ LogInv /\ ReachInv
      BY <2>1 DEF PayoffInv
    <3>2. StakesInv' /\ ContestInv' /\ SettledInv' /\ LogInv' /\ ReachInv'
      BY <2>1, <3>1, TakeKeepsStakes, TakeKeepsContest, TakeSettles, TakeKeepsLog, TakeKeepsReach
    <3> QED BY <3>2 DEF PayoffInv
  <2>2. ASSUME NEW h \in HandIds, NEW st \in Stacks, state' = InitState(h, st)
        PROVE  PayoffInv'
    BY <2>2, DealtNextPays
  <2>3. ASSUME PayoffInv, UNCHANGED vars PROVE PayoffInv'
    BY <2>3 DEF PayoffInv, vars, StakesInv, Stakes, ContestInv, SettledInv, LogInv, ReachInv
  <2> QED BY <2>1, <2>2, <2>3, StepsOfNext
<1> QED
  BY <1>1, <1>2, ChipsHold, BetsHold, RoundsHold, PTL DEF Spec

-----------------------------------------------------------------------------
(***************************************************************************)
(* Scoring.  The showdown adds two variables to the betting and nothing to *)
(* what the betting does.                                                  *)
(***************************************************************************)
(* Dealing, betting and scoring hands is betting.                           *)
THEOREM ShowdownIsBetting == ShowdownSpec => Spec
<1>1. ShowdownInit => Init
  BY DEF ShowdownInit
<1>2. [ShowdownNext]_showdownVars => [Next]_vars
  BY DEF ShowdownNext, showdownVars, vars, Bet, ScoreHand, DealNext, PlayerActs, Next
<1> QED
  BY <1>1, <1>2, PTL DEF ShowdownSpec, Spec

(* What is scored is a finished hand, with a rank for each player.          *)
ScoredInv ==
    Scored =>
        /\ state.finished
        /\ rank \in [Players -> Ranks]
        /\ value = [p \in Players |-> ValueOfState(state, rank, p)]

(* Always: once scored, a hand stays as it is until the next is dealt.      *)
LEMMA ScoresHold == ShowdownSpec => []ScoredInv
<1>1. ShowdownInit => ScoredInv
  BY DEF ShowdownInit, ScoredInv, Scored
<1>2. ScoredInv /\ [ShowdownNext]_showdownVars => ScoredInv'
  <2> SUFFICES ASSUME ScoredInv, [ShowdownNext]_showdownVars PROVE ScoredInv'
    OBVIOUS
  <2>1. CASE Bet
    <3>1. ~state.finished
      BY <2>1 DEF Bet, PlayerActs, Fold, Call, Raise, Take, IsValidAction
    <3>2. value = << >>
      BY <3>1 DEF ScoredInv, Scored
    <3>3. value' = << >>
      BY <2>1, <3>2 DEF Bet
    <3> QED BY <3>3 DEF ScoredInv, Scored
  <2>2. CASE ScoreHand
    <3>1. state.finished /\ state' = state /\ rank' \in [Players -> Ranks]
          /\ value' = [p \in Players |-> ValueOfState(state, rank', p)]
      BY <2>2 DEF ScoreHand
    <3>2. \A p \in Players : ValueOfState(state, rank', p) = ValueOfState(state', rank', p)
      BY <3>1
    <3> QED BY <3>1, <3>2 DEF ScoredInv
  <2>3. CASE DealNext
    BY <2>3 DEF DealNext, ScoredInv, Scored
  <2>4. CASE UNCHANGED showdownVars
    <3>1. state' = state /\ rank' = rank /\ value' = value
      BY <2>4 DEF showdownVars
    <3> QED BY <3>1 DEF ScoredInv, Scored
  <2> QED BY <2>1, <2>2, <2>3, <2>4 DEF ShowdownNext
<1> QED
  BY <1>1, <1>2, PTL DEF ShowdownSpec

(* Blinds and stacks that leave nobody at a showdown with an empty stake.   *)
PositiveStakes == BigBlind > 0 /\ \A st \in Stacks : \A p \in Players : st[p] > 0

(* At a showdown whoever is still in has chips in the pot, so that          *)
(* valueOfState finds the player it scores in its list of those who have,   *)
(* and two players there for its loop to start with (game.c:1387).          *)
THEOREM ContestantsHold ==
  ASSUME PlayableStacks, BetsFit, PositiveStakes
  PROVE  ShowdownSpec => []ShowdownHasContestants
<1>1. ChipsInv /\ PayoffInv /\ BlindInv => ShowdownHasContestants
  <2> SUFFICES ASSUME ChipsInv, PayoffInv, BlindInv, state.finished,
                      NumFolded(state) + 1 < NumPlayers, NEW p \in Unfolded(state)
               PROVE  state.spent[p] > 0
    BY DEF ShowdownHasContestants
  <2>1. /\ p \in Players /\ ~state.playerFolded[p] /\ state \in State
        /\ state.stackPlayer \in Stacks
    BY DEF Unfolded, Folded, ChipsInv, TypeOK
  <2>2. /\ state.spent[p] \in Int /\ state.stackPlayer[p] \in Int /\ state.maxSpent \in Int
        /\ state.stackPlayer[p] > 0
    BY <2>1 DEF State, PositiveStakes
  <2>3. CASE Owes(state, p)
    <3>1. p \in Acting(state)
      BY <2>1, <2>3 DEF Acting, CanAct
    <3>2. state.spent[p] = state.maxSpent
      BY <3>1 DEF PayoffInv, SettledInv, Contested
    <3>3. BigBlind \in Int
      BY <2>1, BigBlindIsABlind
    <3> QED BY <2>2, <3>2, <3>3 DEF BlindInv, PositiveStakes
  <2>4. CASE ~Owes(state, p)
    BY <2>2, <2>4 DEF Owes
  <2> QED BY <2>3, <2>4
<1> QED
  BY <1>1, ChipsHold, PayoffsHold, BlindsHold, ShowdownIsBetting, PTL

(* The hand that is scored can be counted, and in chips nobody lacks.       *)
LEMMA ScoredIsCountable ==
  ASSUME ChipsInv, PayoffInv, ScoredInv, Scored
  PROVE  /\ Countable(state, rank)
         /\ \A p \in Players : value[p] = ValueOfState(state, rank, p)
         /\ NumFolded(state) \in Nat /\ NumFolded(state) < NumPlayers /\ NumPlayers \in Nat
<1>1. state \in State /\ rank \in [Players -> Ranks]
      /\ \A p \in Players : value[p] = ValueOfState(state, rank, p)
  BY DEF ChipsInv, TypeOK, ScoredInv
<1>2. state.spent \in [Players -> Nat]
  <2>1. state.spent \in [Players -> Int] /\ \A p \in Players : state.spent[p] >= 0
    BY <1>1 DEF State, PayoffInv, StakesInv, Stakes
  <2>2. ASSUME NEW p \in Players PROVE state.spent[p] \in Nat
    <3>1. state.spent[p] \in Int /\ state.spent[p] >= 0
      BY <2>1
    <3> QED BY <3>1
  <2> HIDE DEF Players
  <2> QED BY <2>1, <2>2
<1>3. rank \in [Players -> Nat \cup {-1}] /\ state.playerFolded \in [Players -> BOOLEAN]
  BY <1>1, RanksAssumption DEF State
<1>4. NumFolded(state) \in Nat /\ NumFolded(state) < NumPlayers /\ NumPlayers \in Nat
  BY <1>1, CountsAreNats, GameAssumption DEF PayoffInv, ContestInv
<1> QED
  BY <1>1, <1>2, <1>3, <1>4 DEF Countable

(* The loop over the side pots gives every chip of a stake, in equal parts, *)
(* to the best hands among those who put in as many: table stakes.          *)
THEOREM TableStakesHold ==
  ASSUME PlayableStacks, BetsFit
  PROVE  ShowdownSpec => []SidePotsAreTableStakes
<1>1. ChipsInv /\ PayoffInv /\ ScoredInv => SidePotsAreTableStakes
  <2> SUFFICES ASSUME ChipsInv, PayoffInv, ScoredInv, Scored, NEW p \in Players,
                      NumFolded(state) + 1 # NumPlayers
               PROVE  value[p] = SumOver([k \in 1 .. state.spent[p] |->
                                            ChipShare(state, rank, p, k)], 1 .. state.spent[p])
    BY DEF SidePotsAreTableStakes
  <2>1. value[p] = Total(Chips(state, rank, p), 1 .. state.spent[p])
    BY ScoredIsCountable, ValueIsChips
  <2> QED BY <2>1, SumOverIsTotal DEF Chips
<1> QED
  BY <1>1, ChipsHold, PayoffsHold, ScoresHold, ShowdownIsBetting, PTL

(* Nobody loses more than its stake, and at a showdown nobody wins more     *)
(* from an opponent than it risked itself.                                  *)
THEOREM RiskBoundsGains ==
  ASSUME PlayableStacks, BetsFit
  PROVE  ShowdownSpec => []NobodyWinsMoreThanItRisked
<1>1. ChipsInv /\ PayoffInv /\ ScoredInv => NobodyWinsMoreThanItRisked
  <2> SUFFICES ASSUME ChipsInv, PayoffInv, ScoredInv, Scored, NEW p \in Players
               PROVE  /\ value[p] >= -(Scale * state.spent[p])
                      /\ NumFolded(state) + 1 < NumPlayers =>
                           value[p] <= Scale * SumOver([q \in Players |->
                             Smaller(state.spent[p], state.spent[q])], Players \ {p})
    BY DEF NobodyWinsMoreThanItRisked
  <2> DEFINE n    == state.spent[p]
             risk == [q \in Players |-> Smaller(n, state.spent[q])]
             T    == Total(risk, Players \ {p})
  <2>1. /\ Countable(state, rank) /\ value[p] = ValueOfState(state, rank, p)
        /\ NumFolded(state) \in Nat /\ NumFolded(state) < NumPlayers /\ NumPlayers \in Nat
    BY ScoredIsCountable
  <2>2. Scale \in Nat /\ n \in Nat
    <3>1. n \in Nat
      BY <2>1 DEF Countable
    <3> QED BY <3>1, ScaleAssumption
  <2>3. SumOver(risk, Players \ {p}) = T
    BY SumOverIsTotal
  <2>4. -(Scale * n) \in Int /\ -(Scale * n) <= 0
    BY <2>2
  <2>5. ASSUME value[p] = -(Scale * n)
        PROVE  /\ value[p] >= -(Scale * n)
               /\ value[p] <= Scale * SumOver(risk, Players \ {p})
    <3>2. T \in Nat
      <4>1. /\ IsFiniteSet(Players \ {p})
            /\ \A q \in Players \ {p} : risk[q] \in Nat
        <5>1. \A q \in Players : state.spent[q] \in Nat
          BY <2>1 DEF Countable
        <5> HIDE DEF n
        <5>2. \A q \in Players : risk[q] \in Nat
          BY <2>2, <5>1 DEF Smaller
        <5> QED BY <5>2, PlayersFinite, FS_Subset
      <4> HIDE DEF risk
      <4> QED BY <4>1, TotalIsNat
    <3>3. 0 <= Scale * T
      <4> HIDE DEF T
      <4> QED BY <2>2, <3>2
    <3> HIDE DEF T
    <3> QED BY <2>2, <2>3, <2>4, <2>5, <3>2, <3>3
  <2>6. CASE ~state.playerFolded[p] /\ NumFolded(state) + 1 = NumPlayers
    <3>1. /\ value[p] = Scale * Total(state.spent, Players \ {p})
          /\ Total(state.spent, Players \ {p}) \in Nat
      BY <2>1, <2>6, ValueOfTheLast
    <3>2. value[p] >= 0 /\ value[p] \in Int
      BY <2>2, <3>1
    <3> QED BY <2>1, <2>4, <2>6, <3>2
  <2>7. CASE ~state.playerFolded[p] /\ NumFolded(state) + 1 # NumPlayers /\ p \in Shown(state, rank)
    <3>1. value[p] = Total(Chips(state, rank, p), 1 .. n)
      BY <2>1, <2>7, ValueIsChips
    <3>2. /\ Total(Chips(state, rank, p), 1 .. n) \in Int
          /\ -(Scale * n) <= Total(Chips(state, rank, p), 1 .. n)
          /\ Total(Chips(state, rank, p), 1 .. n) <= Scale * T
      BY <2>1, <2>7, ShareBounds
    <3> QED BY <2>3, <2>4, <3>1, <3>2
  <2>8. CASE state.playerFolded[p]
    <3>1. value[p] = -(Scale * n)
      BY <2>1, <2>8 DEF ValueOfState
    <3> QED BY <2>5, <3>1
  <2>9. CASE ~state.playerFolded[p] /\ NumFolded(state) + 1 # NumPlayers /\ p \notin Shown(state, rank)
    <3>1. value[p] = -(Scale * n)
      BY <2>1, <2>9, ValueIsChips, HiddenChips
    <3> QED BY <2>5, <3>1
  <2> QED BY <2>6, <2>7, <2>8, <2>9
<1> QED
  BY <1>1, ChipsHold, PayoffsHold, ScoresHold, ShowdownIsBetting, PTL

(* What the losers pay is what the winners get, whoever wins and however    *)
(* the pots split.  Only chips beyond the reach of every hand shown are     *)
(* lost to all, and there are none when all who are in show theirs, unless  *)
(* somebody folded facing no bet.                                           *)
THEOREM PotIsPaid ==
  ASSUME PlayableStacks, BetsFit
  PROVE  ShowdownSpec => []PotIsPaidOut
<1>1. ChipsInv /\ BetInv /\ PayoffInv /\ ScoredInv => PotIsPaidOut
  <2> SUFFICES ASSUME ChipsInv, BetInv, PayoffInv, ScoredInv, Scored
               PROVE  /\ SumOver(value, Players) = -(Scale * Unclaimed(state, rank))
                      /\ PrematureFolds(state) = {} /\ Shown(state, rank) = Unfolded(state) =>
                           SumOver(value, Players) = 0
    BY DEF PotIsPaidOut
  <2>1. /\ Countable(state, rank) /\ \A p \in Players : value[p] = ValueOfState(state, rank, p)
        /\ NumFolded(state) \in Nat /\ NumFolded(state) < NumPlayers /\ NumPlayers \in Nat
    BY ScoredIsCountable
  <2>2. SumOver(value, Players) = Total(value, Players) /\ Scale \in Nat
    BY SumOverIsTotal, ScaleAssumption
  <2>3. CASE NumFolded(state) + 1 = NumPlayers
    <3>1. Total(value, Players) = 0
      BY <2>1, <2>3, LastIsPaid
    <3>2. Unclaimed(state, rank) = 0
      BY <2>3 DEF Unclaimed
    <3> QED BY <2>2, <3>1, <3>2
  <2>4. CASE NumFolded(state) + 1 < NumPlayers
    <3>1. Total(value, Players) = -(Scale * Unclaimed(state, rank))
      BY <2>1, <2>4, ShowdownIsPaid
    <3>2. ASSUME PrematureFolds(state) = {}, Shown(state, rank) = Unfolded(state)
          PROVE  Unclaimed(state, rank) = 0
      <4>1. PICK w \in Unfolded(state) : state.spent[w] = state.maxSpent
        BY <3>2 DEF PayoffInv, ReachInv
      <4>2. state.spent \in [Players -> Nat]
        BY <2>1 DEF Countable
      <4>3. Top(state, rank) \in Nat /\ state.maxSpent <= Top(state, rank) /\ state.maxSpent \in Nat
        <5>1. w \in Players
          BY DEF Unfolded
        <5> QED BY <3>2, <4>1, <4>2, <5>1, TopIsAStake
      <4>4. ASSUME NEW q \in Hidden(state, rank) PROVE state.spent[q] <= Top(state, rank)
        <5>1. q \in Players
          BY DEF Hidden
        <5>2. state.spent[q] <= state.maxSpent /\ state.spent[q] \in Nat
          BY <4>2, <5>1 DEF BetInv, MaxSpentIsLargest
        <5> QED BY <4>3, <5>2
      <4> QED BY <4>2, <4>4, NothingOutOfReach
    <3> QED BY <2>2, <3>1, <3>2
  <2> QED BY <2>1, <2>3, <2>4
<1> QED
  BY <1>1, ChipsHold, BetsHold, PayoffsHold, ScoresHold, ShowdownIsBetting, PTL

=============================================================================
