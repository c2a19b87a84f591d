----------------------------- MODULE GameProofs -----------------------------
(***************************************************************************)
(* Proofs about the operators of Game, for any number of players, rounds,  *)
(* blinds, stacks and raise sizes: nextPlayer's walk round the table, what *)
(* RecordAction and Settle (the halves of doAction) do to a State, what a  *)
(* hand in play satisfies, and that an action keeps it so; and what        *)
(* valueOfState (Payoff) pays out of the chips a hand has at stake.        *)
(*                                                                         *)
(* The state machines that drive a hand (Betting, Dealer) take their       *)
(* lemmas from here.                                                       *)
(***************************************************************************)
EXTENDS Payoff, SumProofs, TLAPS, FiniteSetTheorems

Reader == INSTANCE FoldProofs WITH Op <- ReadOne

USE DEF Players, Rounds

(* A table has two seats or more.                                           *)
LEMMA Sizes == NumPlayers \in Nat \ {0} /\ NumPlayers >= 2
  BY GameAssumption

(* The seats are a finite set, so they can be counted.                      *)
LEMMA PlayersFinite == IsFiniteSet(Players)
  BY FS_Interval, GameAssumption

(* Arithmetic round the table: a seat number modulo the number of seats.    *)
LEMMA ModRange ==
  ASSUME NEW n \in Nat \ {0}, NEW x \in Nat
  PROVE  x % n \in 0 .. n - 1
  OBVIOUS

(* Going once or twice round the table leads back to the same seat.         *)
LEMMA ModWrap ==
  ASSUME NEW n \in Nat \ {0}, NEW q \in 0 .. n - 1
  PROVE  q % n = q /\ (q + n) % n = q /\ (q + 2 * n) % n = q
  OBVIOUS

(* Walking round the table from seat p (or beyond) meets every seat.        *)
LEMMA SomeDistance ==
  ASSUME NEW n \in Nat \ {0}, NEW q \in 0 .. n - 1, NEW p \in 0 .. 2 * n - 1
  PROVE  \E d \in 1 .. n : (p + d) % n = q
<1>1. CASE q > p
  <2>1. q - p \in 1 .. n /\ p + (q - p) = q
    BY <1>1
  <2> QED BY <2>1, ModWrap
<1>2. CASE q <= p /\ q + n > p
  <2>1. q + n - p \in 1 .. n /\ p + (q + n - p) = q + n
    BY <1>2
  <2> QED BY <2>1, ModWrap
<1>3. CASE q + n <= p
  <2>1. q + 2 * n - p \in 1 .. n /\ p + (q + 2 * n - p) = q + 2 * n
    BY <1>3
  <2> QED BY <2>1, ModWrap
<1> QED
  BY <1>1, <1>2, <1>3

-----------------------------------------------------------------------------
(* With somebody left to act, nextPlayer finds such a player.               *)
LEMMA NextPlayerCanAct ==
  ASSUME NEW s, Acting(s) # {}, NEW p \in 0 .. 2 * NumPlayers - 1
  PROVE  NextPlayer(s, p) \in Acting(s)
<1>1. PICK q \in Players : CanAct(s, q)
  BY DEF Acting
<1>2. PICK d \in 1 .. NumPlayers : (p + d) % NumPlayers = q
  BY Sizes, SomeDistance
<1>3. Distances(s, p) # {} /\ Distances(s, p) \subseteq Nat
  <2>1. CanAct(s, (p + d) % NumPlayers)
    BY <1>1, <1>2
  <2>2. 1 .. NumPlayers \subseteq Nat
    BY Sizes
  <2> QED BY <2>1, <2>2 DEF Distances
<1>4. \E e \in Distances(s, p) : \A f \in Distances(s, p) : e <= f
  BY <1>3, Reader!LeastNatural
<1>5. \E e \in Distances(s, p) : NextPlayer(s, p) = (p + e) % NumPlayers
  BY <1>4 DEF NextPlayer
<1>6. PICK e \in 1 .. NumPlayers :
         CanAct(s, (p + e) % NumPlayers) /\ NextPlayer(s, p) = (p + e) % NumPlayers
  BY <1>5 DEF Distances
<1>7. (p + e) % NumPlayers \in Players
  BY ModRange, Sizes
<1> QED
  BY <1>6, <1>7 DEF Acting

(* currentPlayer names a player who is neither folded nor all-in.           *)
LEMMA TurnIsAnActingPlayers ==
  ASSUME NEW s \in State, Acting(s) # {}
  PROVE  CurrentPlayer(s) \in Acting(s)
<1>1. s.round \in Rounds /\ RoundLog(s) \in Seq(LogEntry)
  BY DEF State, RoundLog
<1>2. CASE RoundLog(s) # << >>
  <2>1. RoundLog(s)[Len(RoundLog(s))] \in LogEntry
    BY <1>1, <1>2
  <2>2. RoundLog(s)[Len(RoundLog(s))].player \in 0 .. 2 * NumPlayers - 1
    BY <2>1, Sizes DEF LogEntry
  <2> QED BY <1>2, <2>2, NextPlayerCanAct DEF CurrentPlayer
<1>3. CASE RoundLog(s) = << >>
  <2>1. FirstPlayer[s.round] \in Players
    BY <1>1, GameAssumption
  <2>2. FirstPlayer[s.round] + NumPlayers - 1 \in 0 .. 2 * NumPlayers - 1
    BY <2>1, Sizes
  <2> QED BY <1>3, <2>2, NextPlayerCanAct DEF CurrentPlayer
<1> QED
  BY <1>2, <1>3

-----------------------------------------------------------------------------
Played == {"fold", "call", "raise"}

(* The amounts an action sets are integers.                                 *)
LEMMA AmountsAreInts ==
  ASSUME NEW s \in State, NEW a \in Action, a.type \in Played, CurrentPlayer(s) \in Players
  PROVE  NewSpent(s, a) \in Int /\ NewMinRaiseTo(s, a) \in Int
<1>1. s.spent[CurrentPlayer(s)] \in Int /\ s.stackPlayer[CurrentPlayer(s)] \in Int
  BY DEF State
<1>2. s.maxSpent \in Int /\ s.minNoLimitRaiseTo \in Int /\ RaiseSize[s.round] \in Int
  BY GameAssumption DEF State
<1>3. a.size \in Int
  BY DEF Action
<1>4. NewSpent(s, a) \in Int
  BY <1>1, <1>2, <1>3 DEF NewSpent, Smaller, Played
<1>5. \A x \in Int : Wrap(x) \in Int
  BY GameAssumption DEF Wrap
<1>6. NewMinRaiseTo(s, a) \in Int
  BY <1>2, <1>3, <1>5 DEF NewMinRaiseTo, Larger
<1> QED
  BY <1>4, <1>6

(* The first half of doAction keeps the types and touches what it says.     *)
LEMMA RecordActionEffect ==
  ASSUME NEW s \in State, NEW a \in Action, a.type \in Played,
         NEW p \in Players, p = CurrentPlayer(s)
  PROVE  /\ RecordAction(s, a) \in State
         /\ RecordAction(s, a).spent = [s.spent EXCEPT ![p] = NewSpent(s, a)]
         /\ RecordAction(s, a).stackPlayer = s.stackPlayer
         /\ RecordAction(s, a).maxSpent =
              IF a.type = "raise" THEN NewSpent(s, a) ELSE s.maxSpent
         /\ RecordAction(s, a).minNoLimitRaiseTo = NewMinRaiseTo(s, a)
<1> DEFINE n     == NewSpent(s, a)
           entry == [type |-> a.type, size |-> a.size, player |-> p]
           r     == RecordAction(s, a)
<1>1. n \in Int /\ NewMinRaiseTo(s, a) \in Int
  BY AmountsAreInts
<1>2. entry \in LogEntry
  BY DEF LogEntry, Action, Played
<1>3. s.round \in Rounds /\ s.action[s.round] \in Seq(LogEntry)
  BY DEF State
<1>4. Append(s.action[s.round], entry) \in Seq(LogEntry)
  BY <1>2, <1>3
<1>5. /\ r.handId = s.handId /\ r.round = s.round /\ r.finished = s.finished
      /\ r.stackPlayer = s.stackPlayer /\ DOMAIN r = DOMAIN s
  BY DEF RecordAction, State
<1>6. r.action = [s.action EXCEPT ![s.round] = Append(s.action[s.round], entry)]
  BY DEF RecordAction, State
<1>7. r.playerFolded = [s.playerFolded EXCEPT ![p] = s.playerFolded[p] \/ a.type = "fold"]
  BY DEF RecordAction, State
<1>8. r.spent = [s.spent EXCEPT ![p] = n]
  BY DEF RecordAction, State
<1>9. PICK m \in Int : r.sumRoundSpent = [s.sumRoundSpent EXCEPT
                                           ![s.round] = [s.sumRoundSpent[s.round] EXCEPT ![p] = m]]
  <2> DEFINE m == IF a.type = "fold" THEN s.sumRoundSpent[s.round][p] ELSE n
  <2>1. s.sumRoundSpent[s.round][p] \in Int
    <3>1. s.sumRoundSpent \in [Rounds -> [Players -> Int]]
      BY DEF State
    <3>2. s.sumRoundSpent[s.round] \in [Players -> Int]
      BY <1>3, <3>1
    <3> QED BY <3>2
  <2>2. r.sumRoundSpent = [s.sumRoundSpent EXCEPT
                             ![s.round] = [s.sumRoundSpent[s.round] EXCEPT ![p] = m]]
    BY DEF RecordAction, State
  <2> QED BY <1>1, <2>1, <2>2
<1>10. r.maxSpent = IF a.type = "raise" THEN n ELSE s.maxSpent
  BY DEF RecordAction, State
<1>11. r.minNoLimitRaiseTo = NewMinRaiseTo(s, a)
  BY DEF RecordAction, State
<1>12. r \in State
  <2> HIDE DEF n, entry
  <2>1. r.action \in [Rounds -> Seq(LogEntry)]
    BY <1>3, <1>4, <1>6 DEF State
  <2>2. r.playerFolded \in [Players -> BOOLEAN]
    BY <1>7 DEF State
  <2>3. r.spent \in [Players -> Int]
    BY <1>1, <1>8 DEF State
  <2>4. r.sumRoundSpent \in [Rounds -> [Players -> Int]]
    <3>1. s.sumRoundSpent \in [Rounds -> [Players -> Int]]
      BY DEF State
    <3>2. [s.sumRoundSpent[s.round] EXCEPT ![p] = m] \in [Players -> Int]
      BY <1>3, <3>1
    <3> QED BY <1>3, <1>9, <3>1, <3>2
  <2>5. r.maxSpent \in Int /\ r.minNoLimitRaiseTo \in Int
    BY <1>1, <1>10, <1>11 DEF State
  <2>6. r = [s EXCEPT !.action = r.action, !.playerFolded = r.playerFolded, !.spent = r.spent,
                      !.sumRoundSpent = r.sumRoundSpent, !.maxSpent = r.maxSpent,
                      !.minNoLimitRaiseTo = r.minNoLimitRaiseTo]
    BY DEF RecordAction, State
  <2> HIDE DEF r
  <2> QED BY <2>1, <2>2, <2>3, <2>4, <2>5, <2>6 DEF State
<1> QED
  BY <1>5, <1>8, <1>10, <1>11, <1>12

(* A bounded set of numbers has a largest one.                              *)
LEMMA BoundedMax ==
  ASSUME NEW T \in SUBSET Nat, T # {}, NEW b \in Nat, \A x \in T : x <= b
  PROVE  Max(T) \in T /\ \A x \in T : x <= Max(T)
<1> DEFINE Bounds == {n \in Nat : \A x \in T : x <= n}
<1>1. b \in Bounds
  OBVIOUS
<1>2. PICK n \in Bounds : \A m \in Bounds : n <= m
  BY <1>1, Reader!LeastNatural
<1>3. n \in T
  <2>1. SUFFICES ASSUME n \notin T PROVE FALSE
    OBVIOUS
  <2>2. \A x \in T : x <= n - 1
    BY <2>1
  <2>3. n - 1 \in Nat
    <3>1. PICK x \in T : TRUE
      OBVIOUS
    <3> QED BY <2>2, <3>1
  <2> QED BY <1>2, <2>2, <2>3
<1>4. n \in T /\ \A x \in T : n >= x
  BY <1>3
<1> QED
  BY <1>4 DEF Max

(* The biggest blind is one of the blinds and no smaller than any: the set  *)
(* of blinds has a maximum because every blind is within its player's stack.*)
LEMMA BigBlindIsABlind ==
  ASSUME Stacks # {}
  PROVE  /\ BigBlind \in Nat
         /\ \A p \in Players : Blind[p] <= BigBlind
         /\ \E p \in Players : Blind[p] = BigBlind
<1> DEFINE T == {Blind[p] : p \in Players}
<1>1. /\ Blind \in [Players -> Nat] /\ MaxInt \in Nat /\ 0 \in Players
      /\ \A p \in Players : Blind[p] <= MaxInt
  <2>1. PICK st \in Stacks : TRUE
    OBVIOUS
  <2>2. st \in [Players -> 0 .. MaxInt] /\ MaxInt \in Nat /\ Blind \in [Players -> Nat]
    BY GameAssumption
  <2>3. \A p \in Players : Blind[p] <= st[p]
    BY GameAssumption
  <2> QED BY <2>2, <2>3, Sizes
<1>2. T \in SUBSET Nat /\ T # {} /\ \A x \in T : x <= MaxInt
  BY <1>1
<1>3. Max(T) \in T /\ \A x \in T : x <= Max(T)
  <2> HIDE DEF T
  <2> QED BY <1>1, <1>2, BoundedMax
<1> QED
  BY <1>1, <1>3 DEF BigBlind

(* What the code counts, it can count.                                      *)
LEMMA CountsAreNats ==
  ASSUME NEW s \in State
  PROVE  NumFolded(s) \in Nat /\ NumActing(s) \in Nat /\ NumCalled(s) \in Nat
<1>1. IsFiniteSet(Folded(s)) /\ IsFiniteSet(Acting(s))
  BY PlayersFinite, FS_Subset DEF Folded, Acting
<1>2. IsFiniteSet(Callers(s))
  <2>1. RoundLog(s) \in Seq(LogEntry)
    BY DEF State, RoundLog
  <2>2. DOMAIN RoundLog(s) = 1 .. Len(RoundLog(s)) /\ Len(RoundLog(s)) \in Nat
    BY <2>1
  <2>3. IsFiniteSet(1 .. Len(RoundLog(s)))
    BY <2>2, FS_Interval
  <2> QED BY <2>2, <2>3, FS_Subset DEF Callers
<1> QED
  BY <1>1, <1>2, FS_CardinalityType DEF NumFolded, NumActing, NumCalled

(* The second half of doAction: an unfinished hand has somebody to act, and *)
(* the chips are left as they are.                                          *)
LEMMA SettleEffect ==
  ASSUME NEW s \in State, Stacks # {}
  PROVE  /\ Settle(s) \in State
         /\ Settle(s).spent = s.spent
         /\ Settle(s).stackPlayer = s.stackPlayer
         /\ Settle(s).handId = s.handId
         /\ Settle(s).maxSpent = s.maxSpent
         /\ Settle(s).minNoLimitRaiseTo = MinRaiseOfNextRound(s)
              \/ Settle(s).minNoLimitRaiseTo = s.minNoLimitRaiseTo
         /\ ~Settle(s).finished => Acting(Settle(s)) # {}
<1>1. NumFolded(s) \in Nat /\ NumActing(s) \in Nat /\ NumCalled(s) \in Nat
  BY CountsAreNats
<1>2. NumActing(s) > 0 => Acting(s) # {}
  BY FS_EmptySet DEF NumActing
<1>3. NumPlayers \in Nat /\ NumRounds \in Nat /\ NumRounds >= 1 /\ s.round \in Rounds
  BY GameAssumption DEF State
<1>4. MinRaiseOfNextRound(s) \in Int
  <2>1. BigBlind \in Nat /\ s.maxSpent \in Int
    BY BigBlindIsABlind DEF State
  <2>2. MaxInt \in Nat
    BY GameAssumption
  <2> QED BY <2>1, <2>2 DEF MinRaiseOfNextRound, Wrap, Larger
<1>5. CASE NumFolded(s) + 1 >= NumPlayers
  <2>1. Settle(s) = [s EXCEPT !.finished = TRUE]
    BY <1>1, <1>3, <1>5 DEF Settle
  <2> QED BY <2>1 DEF State
<1>6. CASE NumFolded(s) + 1 < NumPlayers /\ NumCalled(s) < NumActing(s)
  <2>1. Settle(s) = s
    BY <1>1, <1>3, <1>6 DEF Settle
  <2> QED BY <1>1, <1>2, <1>6, <2>1
<1>7. CASE NumFolded(s) + 1 < NumPlayers /\ NumCalled(s) >= NumActing(s) /\ NumActing(s) <= 1
  <2>1. Settle(s) = [s EXCEPT !.finished = TRUE, !.round = NumRounds - 1]
    BY <1>1, <1>3, <1>7 DEF Settle
  <2>2. NumRounds - 1 \in Rounds
    BY <1>3
  <2>3. Settle(s) \in State
    BY <2>1, <2>2 DEF State
  <2>4. /\ Settle(s).spent = s.spent /\ Settle(s).stackPlayer = s.stackPlayer
        /\ Settle(s).maxSpent = s.maxSpent /\ Settle(s).minNoLimitRaiseTo = s.minNoLimitRaiseTo
        /\ Settle(s).finished /\ Settle(s).handId = s.handId
    BY <2>1 DEF State
  <2> QED BY <2>3, <2>4
<1>8. CASE /\ NumFolded(s) + 1 < NumPlayers /\ NumCalled(s) >= NumActing(s)
           /\ NumActing(s) > 1 /\ s.round + 1 < NumRounds
  <2>1. Settle(s) = [s EXCEPT !.round = s.round + 1,
                              !.minNoLimitRaiseTo = MinRaiseOfNextRound(s)]
    BY <1>1, <1>3, <1>8 DEF Settle
  <2>2. Acting(Settle(s)) = Acting(s)
    BY <2>1 DEF Acting, CanAct, Owes, State
  <2>3. s.round + 1 \in Rounds
    BY <1>3, <1>8
  <2>4. Settle(s) \in State
    BY <1>4, <2>1, <2>3 DEF State
  <2>5. /\ Settle(s).spent = s.spent /\ Settle(s).stackPlayer = s.stackPlayer
        /\ Settle(s).maxSpent = s.maxSpent /\ Settle(s).handId = s.handId
        /\ Settle(s).minNoLimitRaiseTo = MinRaiseOfNextRound(s)
    BY <2>1 DEF State
  <2>6. Acting(Settle(s)) # {}
    BY <1>1, <1>2, <1>8, <2>2
  <2> QED BY <1>4, <2>4, <2>5, <2>6
<1>9. CASE /\ NumFolded(s) + 1 < NumPlayers /\ NumCalled(s) >= NumActing(s)
           /\ NumActing(s) > 1 /\ s.round + 1 >= NumRounds
  <2>1. Settle(s) = [s EXCEPT !.finished = TRUE]
    BY <1>1, <1>3, <1>9 DEF Settle
  <2> QED BY <2>1 DEF State
<1> QED
  BY <1>1, <1>3, <1>5, <1>6, <1>7, <1>8, <1>9

-----------------------------------------------------------------------------
(***************************************************************************)
(* What is needed of a game beyond what readGame checks.                   *)
(***************************************************************************)

(* Some player has chips behind its blind.  (Otherwise nextPlayer's loop    *)
(* does not terminate on the very first action of a hand.)                  *)
PlayableStacks == \A st \in Stacks : \E p \in Players : Blind[p] < st[p]

(* Twice a stack still is an int32_t: doAction's 2 * size - maxSpent and    *)
(* initState's 2 * blind do not overflow.                                   *)
StacksFit == \A st \in Stacks : \A p \in Players : 2 * st[p] <= MaxInt

(* All players sit down with the same stack, as they do in every limit game *)
(* definition of the repository.                                            *)
StacksEqual == \A st \in Stacks : \A p, q \in Players : st[p] = st[q]

BetsFit == IF NoLimit THEN StacksFit ELSE StacksEqual

(***************************************************************************)
(* What every hand in play satisfies.  HandChips is what keeps it going    *)
(* and needs PlayableStacks only; HandBets adds what maxSpent and the      *)
(* minimum raise mean, and needs BetsFit as well.                          *)
(***************************************************************************)
HandChips(s) ==
  /\ s \in State
  /\ s.stackPlayer \in Stacks
  /\ \A p \in Players : s.spent[p] <= s.stackPlayer[p]
  /\ ~s.finished => Acting(s) # {}

HandBets(s) ==
  /\ \A p \in Players : s.spent[p] <= s.maxSpent
  /\ \E p \in Players : s.spent[p] = s.maxSpent
  /\ s.maxSpent >= 0
  /\ NoLimit => s.minNoLimitRaiseTo > s.maxSpent

-----------------------------------------------------------------------------
(* initState with stacks a hand may be played with.                         *)
LEMMA InitStateEffect ==
  ASSUME NEW h \in Nat, NEW st \in Stacks
  PROVE  /\ InitState(h, st) \in State
         /\ InitState(h, st).spent = Blind
         /\ InitState(h, st).stackPlayer = st
         /\ InitState(h, st).maxSpent = BigBlind
         /\ \A p \in Players : Blind[p] <= st[p]
         /\ ~InitState(h, st).finished
         /\ PlayableStacks => Acting(InitState(h, st)) # {}
<1> DEFINE i == InitState(h, st)
<1>1. /\ h \in Nat /\ 0 \in Rounds /\ Blind \in [Players -> Int]
      /\ BigBlind \in Int /\ st \in [Players -> Int]
  <2>1. BigBlind \in Int
    BY BigBlindIsABlind
  <2>2. 0 \in Rounds
    BY GameAssumption
  <2>3. Blind \in [Players -> Nat]
    BY GameAssumption
  <2>4. st \in [Players -> 0 .. MaxInt]
    BY GameAssumption
  <2> QED BY <2>1, <2>2, <2>3, <2>4
<1>2. i.minNoLimitRaiseTo \in Int
  BY <1>1, GameAssumption DEF InitState, Wrap
<1>3. i.sumRoundSpent \in [Rounds -> [Players -> Int]]
  BY <1>1 DEF InitState
<1>4. i.action \in [Rounds -> Seq(LogEntry)] /\ i.playerFolded \in [Players -> BOOLEAN]
  BY DEF InitState
<1>5. /\ i.spent = Blind /\ i.stackPlayer = st /\ i.maxSpent = BigBlind
      /\ i.handId = h /\ i.round = 0 /\ i.finished = FALSE
  BY DEF InitState
<1>6. i = [handId |-> i.handId, round |-> i.round, maxSpent |-> i.maxSpent,
           minNoLimitRaiseTo |-> i.minNoLimitRaiseTo, spent |-> i.spent,
           stackPlayer |-> i.stackPlayer, sumRoundSpent |-> i.sumRoundSpent,
           action |-> i.action, finished |-> i.finished, playerFolded |-> i.playerFolded]
  BY DEF InitState
<1>7. i \in State
  <2> HIDE DEF i
  <2> QED BY <1>1, <1>2, <1>3, <1>4, <1>5, <1>6 DEF State
<1>8. ASSUME PlayableStacks PROVE Acting(i) # {}
  <2>1. PICK p \in Players : Blind[p] < st[p]
    BY <1>8 DEF PlayableStacks
  <2>2. p \in Acting(i)
    BY <2>1 DEF Acting, CanAct, Owes, InitState
  <2> QED BY <2>2
<1>9. \A p \in Players : Blind[p] <= st[p]
  BY GameAssumption
<1> QED
  BY <1>5, <1>7, <1>8, <1>9

(* What isValidAction leaves of an action it accepts: one that doAction can *)
(* log, whose size in a no-limit raise is within the raiser's stack.        *)
LEMMA FixedActionIsPlayable ==
  ASSUME NEW s \in State, NEW a \in Action, IsValidAction(s, TRUE, a),
         CurrentPlayer(s) \in Players
  PROVE  /\ FixedAction(s, a) \in Action
         /\ FixedAction(s, a).type = a.type
         /\ a.type \in Played
         /\ a.type = "raise" /\ NoLimit =>
              FixedAction(s, a).size <= s.stackPlayer[CurrentPlayer(s)]
<1>1. a.type \in Played /\ a.size \in Int
  BY DEF Action, IsValidAction, Played
<1>2. s.minNoLimitRaiseTo \in Int /\ s.stackPlayer[CurrentPlayer(s)] \in Int
  BY DEF State
<1>3. MinRaiseTo(s) \in Int /\ MaxRaiseTo(s) = s.stackPlayer[CurrentPlayer(s)]
  BY <1>2 DEF MinRaiseTo, MaxRaiseTo, Smaller
<1> DEFINE n == IF a.type = "raise" /\ NoLimit
                THEN Smaller(Larger(a.size, MinRaiseTo(s)), MaxRaiseTo(s)) ELSE 0
<1>4. n \in Int /\ (a.type = "raise" /\ NoLimit => n <= MaxRaiseTo(s))
  BY <1>1, <1>2, <1>3 DEF Smaller, Larger
<1>5. FixedAction(s, a) = [a EXCEPT !.size = n]
  BY DEF FixedAction
<1> HIDE DEF n
<1> QED
  BY <1>1, <1>3, <1>4, <1>5 DEF Action

(* An accepted no-limit raise goes beyond the bet, as long as the minimum   *)
(* raise does: the second disjunct of raiseIsValid's stack test is an all-in*)
(* for more than the bet.                                                   *)
LEMMA RaiseExceedsBet ==
  ASSUME NEW s \in State, NEW a \in Action, IsValidAction(s, TRUE, a),
         CurrentPlayer(s) \in Players, a.type = "raise", NoLimit,
         s.minNoLimitRaiseTo > s.maxSpent
  PROVE  FixedAction(s, a).size > s.maxSpent
<1>1. /\ s.minNoLimitRaiseTo \in Int /\ s.maxSpent \in Int
      /\ s.stackPlayer[CurrentPlayer(s)] \in Int /\ a.size \in Int
  BY DEF State, Action
<1>2. s.maxSpent < s.stackPlayer[CurrentPlayer(s)]
  BY <1>1 DEF IsValidAction, RaiseIsValid
<1>3. FixedAction(s, a).size = Smaller(Larger(a.size, MinRaiseTo(s)), MaxRaiseTo(s))
  BY DEF FixedAction, Action
<1>4. MinRaiseTo(s) > s.maxSpent /\ MaxRaiseTo(s) > s.maxSpent
      /\ MinRaiseTo(s) \in Int /\ MaxRaiseTo(s) \in Int
  BY <1>1, <1>2 DEF MinRaiseTo, MaxRaiseTo, Smaller
<1> QED
  BY <1>1, <1>3, <1>4 DEF Smaller, Larger

-----------------------------------------------------------------------------
(* A hand is dealt into the invariants.                                     *)
LEMMA InitBets ==
  ASSUME BetsFit, NEW h \in Nat, NEW st \in Stacks, NEW i, i = InitState(h, st)
  PROVE  /\ \A p \in Players : i.spent[p] <= i.maxSpent
         /\ \E p \in Players : i.spent[p] = i.maxSpent
         /\ i.maxSpent >= 0
         /\ NoLimit => i.minNoLimitRaiseTo > i.maxSpent
<1>1. i.spent = Blind /\ i.maxSpent = BigBlind
  BY InitStateEffect
<1>2. /\ BigBlind \in Nat
      /\ \A p \in Players : Blind[p] <= BigBlind
      /\ \E p \in Players : Blind[p] = BigBlind
  BY BigBlindIsABlind
<1>3. ASSUME NoLimit PROVE i.minNoLimitRaiseTo > BigBlind
  <2>1. i.minNoLimitRaiseTo = IF BigBlind = 0 THEN 1 ELSE Wrap(2 * BigBlind)
    BY <1>3 DEF InitState
  <2>2. 2 * BigBlind <= MaxInt
    <3>1. PICK p \in Players : Blind[p] = BigBlind
      BY <1>2
    <3>a. MaxInt \in Nat /\ st \in [Players -> 0 .. MaxInt]
      BY GameAssumption
    <3>b. Blind[p] <= st[p]
      BY GameAssumption
    <3>c. 2 * st[p] <= MaxInt
      BY <1>3 DEF BetsFit, StacksFit
    <3>2. Blind[p] <= st[p] /\ 2 * st[p] <= MaxInt /\ st[p] \in Nat /\ MaxInt \in Nat
      BY <3>a, <3>b, <3>c
    <3> QED BY <1>2, <3>1, <3>2
  <2> QED BY <1>2, <2>1, <2>2, GameAssumption DEF Wrap
<1> QED
  BY <1>1, <1>2, <1>3

(***************************************************************************)
(* An action a player takes, split as the code splits it: what was to act  *)
(* and what RecordAction and Settle did.                                   *)
(***************************************************************************)
Moved(s, a, t) ==
  LET p == CurrentPlayer(s)
      n == NewSpent(s, FixedAction(s, a))
  IN  /\ p \in Players /\ n \in Int
      /\ s.spent[p] < s.stackPlayer[p]
      /\ a.type \in Played
      /\ t \in State
      /\ t.spent = [s.spent EXCEPT ![p] = n]
      /\ t.stackPlayer = s.stackPlayer
      /\ t.maxSpent = IF a.type = "raise" THEN n ELSE s.maxSpent
      /\ \/ t.minNoLimitRaiseTo = MinRaiseOfNextRound(t)
         \/ t.minNoLimitRaiseTo = NewMinRaiseTo(s, FixedAction(s, a))
      /\ ~t.finished => Acting(t) # {}

(* The effect of an action, field by field.                                 *)
LEMMA ActionEffect ==
  ASSUME NEW s, HandChips(s), NEW a \in Action, IsValidAction(s, TRUE, a),
         NEW t, t = DoAction(s, FixedAction(s, a))
  PROVE  Moved(s, a, t)
<1> DEFINE p == CurrentPlayer(s)
           f == FixedAction(s, a)
           r == RecordAction(s, f)
<1>1. s \in State /\ Stacks # {} /\ IsValidAction(s, TRUE, a)
  BY DEF HandChips
<1>2. p \in Players /\ CanAct(s, p)
  <2>1. Acting(s) # {}
    BY <1>1 DEF HandChips, IsValidAction
  <2> QED BY <1>1, <2>1, TurnIsAnActingPlayers DEF Acting
<1>3. f \in Action /\ f.type = a.type /\ a.type \in Played
  BY <1>1, <1>2, FixedActionIsPlayable
<1>4. NewSpent(s, f) \in Int
  BY <1>1, <1>2, <1>3, AmountsAreInts
<1>5. /\ r \in State
      /\ r.spent = [s.spent EXCEPT ![p] = NewSpent(s, f)]
      /\ r.stackPlayer = s.stackPlayer
      /\ r.maxSpent = IF a.type = "raise" THEN NewSpent(s, f) ELSE s.maxSpent
      /\ r.minNoLimitRaiseTo = NewMinRaiseTo(s, f)
  BY <1>1, <1>2, <1>3, RecordActionEffect
<1>6. t = Settle(r)
  BY DEF DoAction
<1>7. /\ t \in State
      /\ t.spent = r.spent /\ t.stackPlayer = r.stackPlayer
      /\ t.maxSpent = r.maxSpent
      /\ \/ t.minNoLimitRaiseTo = MinRaiseOfNextRound(t)
         \/ t.minNoLimitRaiseTo = r.minNoLimitRaiseTo
      /\ ~t.finished => Acting(t) # {}
  <2> HIDE DEF r
  <2> QED BY <1>1, <1>5, <1>6, SettleEffect DEF MinRaiseOfNextRound
<1>8. s.spent[p] < s.stackPlayer[p]
  BY <1>2 DEF CanAct, Owes
<1> HIDE DEF r, f, p
<1>9. /\ p \in Players /\ NewSpent(s, f) \in Int
      /\ s.spent[p] < s.stackPlayer[p]
      /\ a.type \in Played
      /\ t \in State
      /\ t.spent = [s.spent EXCEPT ![p] = NewSpent(s, f)]
      /\ t.stackPlayer = s.stackPlayer
      /\ t.maxSpent = IF a.type = "raise" THEN NewSpent(s, f) ELSE s.maxSpent
      /\ \/ t.minNoLimitRaiseTo = MinRaiseOfNextRound(t)
         \/ t.minNoLimitRaiseTo = NewMinRaiseTo(s, f)
      /\ ~t.finished => Acting(t) # {}
  BY <1>2, <1>3, <1>4, <1>5, <1>7, <1>8
<1> QED
  BY <1>9 DEF Moved, p, f

(* No action puts in more than the stack: calls and limit raises are cut    *)
(* off there, no-limit raises were moved there by isValidAction.            *)
LEMMA ActionKeepsChips ==
  ASSUME NEW s, HandChips(s), NEW a \in Action, IsValidAction(s, TRUE, a),
         NEW t, t = DoAction(s, FixedAction(s, a))
  PROVE  HandChips(t)
<1> DEFINE p == CurrentPlayer(s)
           f == FixedAction(s, a)
           n == NewSpent(s, f)
<1>1. /\ p \in Players /\ n \in Int
      /\ s.spent[p] < s.stackPlayer[p]
      /\ a.type \in Played
      /\ t \in State
      /\ t.spent = [s.spent EXCEPT ![p] = n]
      /\ t.stackPlayer = s.stackPlayer
      /\ ~t.finished => Acting(t) # {}
  BY ActionEffect DEF Moved
<1>2. /\ s \in State /\ s.stackPlayer \in Stacks
      /\ \A q \in Players : s.spent[q] <= s.stackPlayer[q]
  BY DEF HandChips
<1>3. /\ f.type = a.type
      /\ a.type = "raise" /\ NoLimit => f.size <= s.stackPlayer[p]
  BY <1>1, <1>2, FixedActionIsPlayable
<1>4. n <= s.stackPlayer[p]
  <2>1. /\ s.spent[p] \in Int /\ s.stackPlayer[p] \in Int /\ s.maxSpent \in Int
        /\ RaiseSize[s.round] \in Int
    <3>1. RaiseSize \in [Rounds -> Nat]
      BY GameAssumption
    <3>2. /\ s.round \in Rounds /\ s.maxSpent \in Int
          /\ s.spent \in [Players -> Int] /\ s.stackPlayer \in [Players -> Int]
      BY <1>2 DEF State
    <3>3. p \in Players
      BY <1>1
    <3> HIDE DEF n, f, p
    <3>4. s.spent[p] \in Int /\ s.stackPlayer[p] \in Int
      BY <3>2, <3>3
    <3>5. RaiseSize[s.round] \in Nat
      BY <3>1, <3>2
    <3> QED BY <3>2, <3>4, <3>5
  <2>2. CASE a.type = "fold"
    BY <1>1, <1>3, <2>1, <2>2 DEF NewSpent
  <2>3. CASE a.type = "call"
    BY <1>3, <2>1, <2>3 DEF NewSpent, Smaller
  <2>4. CASE a.type = "raise"
    BY <1>3, <2>1, <2>4 DEF NewSpent, Smaller
  <2> QED BY <1>1, <2>2, <2>3, <2>4 DEF Played
<1> HIDE DEF n, f, p
<1>5. \A q \in Players : t.spent[q] <= t.stackPlayer[q]
  BY <1>1, <1>2, <1>4 DEF State
<1> QED
  BY <1>1, <1>2, <1>5 DEF HandChips

(* The minimum a new round starts with goes beyond the bet.                 *)
LEMMA NextRoundMinimum ==
  ASSUME NoLimit, BetsFit, NEW t, HandChips(t), t.maxSpent >= 0,
         \E p \in Players : t.spent[p] = t.maxSpent
  PROVE  MinRaiseOfNextRound(t) > t.maxSpent
<1>1. PICK p \in Players : t.spent[p] = t.maxSpent
  OBVIOUS
<1>2. PICK b \in Players : BigBlind = Blind[b]
  BY BigBlindIsABlind DEF HandChips
<1>3. /\ t.maxSpent \in Int /\ t.stackPlayer[p] \in Int /\ t.stackPlayer[b] \in Int
      /\ t.stackPlayer \in Stacks /\ t.spent[p] <= t.stackPlayer[p]
  BY DEF HandChips, State
<1>4. 2 * t.stackPlayer[p] <= MaxInt /\ 2 * t.stackPlayer[b] <= MaxInt
  BY <1>3 DEF BetsFit, StacksFit
<1>5. BigBlind \in Nat /\ BigBlind <= t.stackPlayer[b] /\ MaxInt \in Nat /\ MaxInt >= 1
  <2>1. Blind \in [Players -> Nat] /\ Blind[b] <= t.stackPlayer[b]
    BY <1>3, GameAssumption
  <2>2. MaxInt \in Nat /\ MaxInt >= 1
    BY GameAssumption
  <2> QED BY <1>2, <2>1, <2>2
<1> DEFINE L == Larger(1, BigBlind)
<1>6. L \in Nat /\ L >= 1 /\ L + t.maxSpent <= MaxInt
  BY <1>1, <1>3, <1>4, <1>5 DEF Larger
<1>7. MinRaiseOfNextRound(t) = L + t.maxSpent
  BY <1>5, <1>6, <1>3 DEF MinRaiseOfNextRound, Wrap
<1> HIDE DEF L
<1> QED
  BY <1>3, <1>6, <1>7

(* Only a raise moves maxSpent, and it moves it to the raiser's own, larger *)
(* total; nobody calls or folds away the last chips at that level.          *)
LEMMA ActionKeepsBets ==
  ASSUME NEW s, HandChips(s), HandBets(s), BetsFit, NEW a \in Action,
         IsValidAction(s, TRUE, a), NEW t, t = DoAction(s, FixedAction(s, a))
  PROVE  HandBets(t)
<1> DEFINE p == CurrentPlayer(s)
           f == FixedAction(s, a)
           n == NewSpent(s, f)
           M == s.maxSpent
<1>0. Moved(s, a, t)
  BY ActionEffect
<1>1. /\ p \in Players /\ n \in Int
      /\ s.spent[p] < s.stackPlayer[p]
      /\ a.type \in Played
      /\ t \in State
      /\ t.spent = [s.spent EXCEPT ![p] = n]
      /\ t.maxSpent = IF a.type = "raise" THEN n ELSE M
      /\ \/ t.minNoLimitRaiseTo = MinRaiseOfNextRound(t)
         \/ t.minNoLimitRaiseTo = NewMinRaiseTo(s, f)
  BY <1>0 DEF Moved
<1>2. /\ s \in State /\ s.stackPlayer \in Stacks
      /\ \A q \in Players : s.spent[q] <= s.stackPlayer[q]
  BY DEF HandChips
<1>3. /\ \A q \in Players : s.spent[q] <= M
      /\ \E q \in Players : s.spent[q] = M
      /\ M >= 0
      /\ NoLimit => s.minNoLimitRaiseTo > M
  BY DEF HandBets
<1>4. /\ f.type = a.type
      /\ a.type = "raise" /\ NoLimit => f.size <= s.stackPlayer[p] /\ f.size > M
      /\ f.size \in Int
  BY <1>1, <1>2, <1>3, FixedActionIsPlayable, RaiseExceedsBet DEF Action
<1>5. /\ M \in Int /\ s.minNoLimitRaiseTo \in Int
      /\ s.spent \in [Players -> Int] /\ s.stackPlayer \in [Players -> Int]
  BY <1>2 DEF State
<1>6. s.spent[p] \in Int /\ s.stackPlayer[p] \in Int /\ p \in Players
  <2>1. p \in Players
    BY <1>1
  <2> HIDE DEF p
  <2> QED BY <1>5, <2>1
<1>7. RaiseSize[s.round] \in Nat
  <2>1. RaiseSize \in [Rounds -> Nat]
    BY GameAssumption
  <2>2. s.round \in Rounds
    BY <1>2 DEF State
  <2> QED BY <2>1, <2>2
<1>8. ASSUME a.type # "raise"
      PROVE  n <= M /\ (s.spent[p] = M => n = M)
  <2>1. CASE a.type = "fold"
    <3>1. n = s.spent[p]
      BY <1>4, <2>1 DEF NewSpent
    <3> HIDE DEF n, p
    <3> QED BY <1>3, <1>6, <3>1
  <2>2. CASE a.type = "call"
    <3>1. n = Smaller(M, s.stackPlayer[p])
      BY <1>4, <2>2 DEF NewSpent
    <3>2. s.spent[p] < s.stackPlayer[p]
      BY <1>1
    <3> HIDE DEF n, p, M
    <3> QED BY <1>5, <1>6, <3>1, <3>2 DEF Smaller
  <2> QED BY <1>1, <1>8, <2>1, <2>2 DEF Played
<1>9. ASSUME a.type = "raise" PROVE n >= M /\ (NoLimit => n > M /\ n = f.size)
  <2>1. CASE NoLimit
    <3>1. n = f.size
      BY <1>4, <1>9, <2>1 DEF NewSpent
    <3>2. f.size > M
      BY <1>4, <1>9, <2>1
    <3> HIDE DEF n, f, M
    <3> QED BY <1>4, <1>5, <3>1, <3>2
  <2>2. CASE ~NoLimit
    <3>1. n = Smaller(M + RaiseSize[s.round], s.stackPlayer[p])
      BY <1>4, <1>9, <2>2 DEF NewSpent
    <3>2. PICK w \in Players : s.spent[w] = M
      BY <1>3
    <3>3. s.stackPlayer[p] = s.stackPlayer[w]
      BY <1>2, <1>6, <2>2 DEF BetsFit, StacksEqual
    <3>4. s.stackPlayer[w] \in Int /\ M <= s.stackPlayer[w]
      BY <1>2, <1>5, <3>2
    <3> HIDE DEF n, p, M
    <3> QED BY <1>5, <1>7, <2>2, <3>1, <3>3, <3>4 DEF Smaller
  <2> QED BY <2>1, <2>2
<1>11. t.spent = [s.spent EXCEPT ![p] = n] /\ n \in Int
  BY <1>1
<1>12. \A q \in Players : t.spent[q] = IF q = p THEN n ELSE s.spent[q]
  <2> HIDE DEF n, p
  <2> QED BY <1>5, <1>6, <1>11
<1>13. /\ \A q \in Players : t.spent[q] <= t.maxSpent
       /\ \E q \in Players : t.spent[q] = t.maxSpent
       /\ t.maxSpent >= 0
  <2>1. CASE a.type # "raise"
    <3>1. t.maxSpent = M /\ n <= M /\ (s.spent[p] = M => n = M)
      BY <1>1, <1>8, <2>1
    <3>2. PICK w \in Players : s.spent[w] = M
      BY <1>3
    <3> HIDE DEF n, p, M
    <3>3. t.spent[w] = M
      BY <1>12, <3>1, <3>2
    <3> QED BY <1>3, <1>12, <3>1, <3>2, <3>3
  <2>2. CASE a.type = "raise"
    <3>1. t.maxSpent = n /\ n >= M
      BY <1>1, <1>9, <2>2
    <3>2. n \in Int /\ M \in Int /\ M >= 0 /\ p \in Players
      BY <1>1, <1>3, <1>5, <1>6
    <3> HIDE DEF n, p, M
    <3>3. ASSUME NEW q \in Players PROVE s.spent[q] <= n
      <4>1. s.spent[q] \in Int /\ s.spent[q] <= M
        BY <1>3, <1>5
      <4> QED BY <3>1, <3>2, <4>1
    <3> QED BY <1>12, <3>1, <3>2, <3>3
  <2> QED BY <2>1, <2>2
<1>10. NoLimit => t.minNoLimitRaiseTo > t.maxSpent
  <2>1. SUFFICES ASSUME NoLimit, t.minNoLimitRaiseTo = NewMinRaiseTo(s, f)
                 PROVE  t.minNoLimitRaiseTo > t.maxSpent
    <3>1. ASSUME NoLimit, t.minNoLimitRaiseTo = MinRaiseOfNextRound(t)
          PROVE  t.minNoLimitRaiseTo > t.maxSpent
      BY <1>13, <3>1, ActionKeepsChips, NextRoundMinimum
    <3> QED BY <1>1, <3>1
  <2>2. CASE a.type # "raise"
    <3>1. NewMinRaiseTo(s, f) = s.minNoLimitRaiseTo
      BY <1>4, <2>2 DEF NewMinRaiseTo
    <3>2. t.maxSpent = M
      BY <1>1, <2>2
    <3> QED BY <1>3, <2>1, <3>1, <3>2
  <2>3. CASE a.type = "raise"
    <3>1. NewMinRaiseTo(s, f) = Larger(s.minNoLimitRaiseTo, Wrap(2 * f.size - M))
      BY <1>4, <2>1, <2>3 DEF NewMinRaiseTo
    <3>2. t.maxSpent = n /\ n = f.size /\ f.size > M /\ f.size <= s.stackPlayer[p]
      BY <1>1, <1>4, <1>9, <2>1, <2>3
    <3>3. 2 * s.stackPlayer[p] <= MaxInt
      BY <1>2, <1>6, <2>1 DEF BetsFit, StacksFit
    <3>4. M >= 0 /\ M \in Int /\ f.size \in Int /\ s.stackPlayer[p] \in Int /\ MaxInt \in Nat
      BY <1>3, <1>4, <1>5, <1>6, GameAssumption
    <3> HIDE DEF n, f, p, M
    <3>5. 2 * f.size - M <= MaxInt
      BY <3>2, <3>3, <3>4
    <3>6. Wrap(2 * f.size - M) = 2 * f.size - M
      BY <3>4, <3>5 DEF Wrap
    <3>7. Larger(s.minNoLimitRaiseTo, Wrap(2 * f.size - M)) > f.size
      BY <1>5, <3>2, <3>4, <3>6 DEF Larger
    <3> QED BY <2>1, <3>1, <3>2, <3>7
  <2> QED BY <2>2, <2>3
<1> QED
  BY <1>10, <1>13 DEF HandBets

(* Nobody's stake is negative.                                              *)
Stakes(s) == \A p \in Players : s.spent[p] >= 0

(* It is the blind to begin with.                                           *)
LEMMA DealtStakes ==
  ASSUME NEW h, NEW st, NEW i, i = InitState(h, st)
  PROVE  Stakes(i)
<1>1. i.spent = Blind
  BY DEF InitState
<1>2. ASSUME NEW p \in Players PROVE Blind[p] >= 0
  <2>1. Blind[p] \in Nat
    BY GameAssumption
  <2> QED BY <2>1
<1> QED
  BY <1>1, <1>2 DEF Stakes

(* An action makes it no less than nothing: a call is up to the bet or the  *)
(* stack, a raise beyond the bet.                                           *)
LEMMA ActionKeepsStakes ==
  ASSUME NEW s, HandChips(s), HandBets(s), Stakes(s), BetsFit, NEW a \in Action,
         IsValidAction(s, TRUE, a), NEW t, t = DoAction(s, FixedAction(s, a))
  PROVE  Stakes(t)
<1> DEFINE p == CurrentPlayer(s)
           f == FixedAction(s, a)
           n == NewSpent(s, f)
<1>0. Moved(s, a, t)
  BY ActionEffect
<1>1. /\ p \in Players /\ n \in Int /\ a.type \in Played
      /\ t.spent = [s.spent EXCEPT ![p] = n]
      /\ (a.type = "raise" => t.maxSpent = n)
  BY <1>0 DEF Moved
<1>2. s \in State /\ s.stackPlayer \in Stacks
  BY DEF HandChips
<1>3. s.spent \in [Players -> Int] /\ s.maxSpent \in Int
  BY <1>2 DEF State
<1>4. f.type = a.type
  BY <1>1, <1>2, FixedActionIsPlayable
<1>5. n >= 0
  <2>1. CASE a.type = "fold"
    <3>1. n = s.spent[p]
      BY <1>4, <2>1 DEF NewSpent
    <3> QED BY <1>1, <3>1 DEF Stakes
  <2>2. CASE a.type = "call"
    <3>1. n = Smaller(s.maxSpent, s.stackPlayer[p])
      BY <1>4, <2>2 DEF NewSpent
    <3>2. s.stackPlayer[p] \in Int /\ s.stackPlayer[p] >= 0
      <4>1. s.stackPlayer \in [Players -> 0 .. MaxInt] /\ MaxInt \in Nat
        BY <1>2, GameAssumption
      <4> HIDE DEF p
      <4>2. s.stackPlayer[p] \in 0 .. MaxInt
        BY <1>1, <4>1
      <4> QED BY <4>1, <4>2
    <3>3. s.maxSpent >= 0
      BY DEF HandBets
    <3> QED BY <1>3, <3>1, <3>2, <3>3 DEF Smaller
  <2>3. CASE a.type = "raise"
    <3>1. t.maxSpent >= 0
      BY ActionKeepsBets DEF HandBets
    <3> QED BY <1>1, <2>3, <3>1
  <2> QED BY <1>1, <2>1, <2>2, <2>3 DEF Played
<1> HIDE DEF n, p
<1>6. ASSUME NEW q \in Players PROVE t.spent[q] >= 0
  <2>1. t.spent[q] = IF q = p THEN n ELSE s.spent[q]
    BY <1>1, <1>3
  <2> QED BY <1>5, <2>1 DEF Stakes
<1> QED
  BY <1>6 DEF Stakes

-----------------------------------------------------------------------------
(***************************************************************************)
(* Actions as they are logged: fixed already, and valid as they stand.     *)
(***************************************************************************)
Playable(s, f) ==
  /\ f \in Action /\ f.type \in Played
  /\ FixedAction(s, f) = f
  /\ PrintedAction(f) = f
  /\ IsValidAction(s, TRUE, f) /\ IsValidAction(s, FALSE, f)

(* The fixed form of an action that isValidAction lets through needs no     *)
(* second fixing, is printed as it is and read back as valid.               *)
LEMMA FixedIsPlayable ==
  ASSUME NEW s, HandChips(s), NEW a \in Action, IsValidAction(s, TRUE, a),
         NEW f, f = FixedAction(s, a)
  PROVE  Playable(s, f)
<1>1. s \in State /\ CurrentPlayer(s) \in Players
  <2>1. s \in State /\ Acting(s) # {}
    BY DEF HandChips, IsValidAction
  <2> QED BY <2>1, TurnIsAnActingPlayers DEF Acting
<1>2. f \in Action /\ f.type = a.type /\ f.type \in Played
  BY <1>1, FixedActionIsPlayable
<1>3. /\ MinRaiseTo(s) \in Int /\ MaxRaiseTo(s) \in Int /\ MinRaiseTo(s) <= MaxRaiseTo(s)
  <2>1. s.minNoLimitRaiseTo \in Int /\ s.stackPlayer[CurrentPlayer(s)] \in Int
    BY <1>1 DEF State
  <2> QED BY <2>1 DEF MinRaiseTo, MaxRaiseTo, Smaller
<1>4. f.size = IF f.type = "raise" /\ NoLimit
               THEN Smaller(Larger(a.size, MinRaiseTo(s)), MaxRaiseTo(s)) ELSE 0
  BY <1>2 DEF FixedAction, Action
<1>5. f.type = "raise" /\ NoLimit => f.size \in MinRaiseTo(s) .. MaxRaiseTo(s)
  <2>1. a.size \in Int
    BY DEF Action
  <2> QED BY <1>3, <1>4, <2>1 DEF Smaller, Larger
<1>6. IsValidAction(s, TRUE, f) /\ IsValidAction(s, FALSE, f)
  BY <1>2, <1>5 DEF IsValidAction, Played
<1>7. f = [type |-> f.type, size |-> f.size]
  BY <1>2 DEF Action
<1>8. PrintedAction(f) = f
  BY <1>4, <1>7 DEF PrintedAction
<1>9. FixedAction(s, f) = f
  <2>1. f.type = "raise" /\ NoLimit
          => Smaller(Larger(f.size, MinRaiseTo(s)), MaxRaiseTo(s)) = f.size
    BY <1>3, <1>5 DEF Smaller, Larger
  <2> DEFINE n == IF f.type = "raise" /\ NoLimit
                  THEN Smaller(Larger(f.size, MinRaiseTo(s)), MaxRaiseTo(s)) ELSE 0
  <2>2. n = f.size /\ FixedAction(s, f) = [f EXCEPT !.size = n]
    BY <1>4, <2>1 DEF FixedAction
  <2>3. [f EXCEPT !.size = f.size] = f
    BY <1>2 DEF Action
  <2> HIDE DEF n
  <2> QED BY <2>2, <2>3
<1> QED
  BY <1>2, <1>6, <1>8, <1>9 DEF Playable

(* Nor does it ask for less than nothing or more than there is.             *)
LEMMA FixedSizeInStack ==
  ASSUME NEW s, HandChips(s), NEW a \in Action, IsValidAction(s, TRUE, a), a.size >= 0,
         NEW b \in Nat, \A p \in Players : s.stackPlayer[p] <= b
  PROVE  FixedAction(s, a).size \in 0 .. b
<1> DEFINE p == CurrentPlayer(s)
<1>1. s \in State /\ p \in Players
  <2>1. s \in State /\ Acting(s) # {}
    BY DEF HandChips, IsValidAction
  <2> QED BY <2>1, TurnIsAnActingPlayers DEF Acting
<1>2. s.stackPlayer[p] \in Nat /\ s.stackPlayer[p] <= b /\ s.minNoLimitRaiseTo \in Int
  <2>1. s.stackPlayer \in [Players -> 0 .. MaxInt] /\ MaxInt \in Nat
    BY GameAssumption DEF HandChips
  <2> HIDE DEF p
  <2>2. s.stackPlayer[p] \in 0 .. MaxInt
    BY <1>1, <2>1
  <2> QED BY <1>1, <2>1, <2>2 DEF State
<1>3. a.size \in Int /\ a.type \in Played
  BY DEF Action, IsValidAction, Played
<1>4. FixedAction(s, a).size = IF a.type = "raise" /\ NoLimit
                               THEN Smaller(Larger(a.size, MinRaiseTo(s)), s.stackPlayer[p])
                               ELSE 0
  BY DEF FixedAction, Action, MaxRaiseTo
<1>5. MinRaiseTo(s) \in Int
  BY <1>2 DEF MinRaiseTo, MaxRaiseTo, Smaller
<1> HIDE DEF p
<1> QED
  BY <1>2, <1>3, <1>4, <1>5 DEF Smaller, Larger

(* A call can always be made, whatever is in the way of other actions.      *)
LEMMA CallIsPlayable ==
  ASSUME NEW s, HandChips(s), ~s.finished
  PROVE  Playable(s, [type |-> "call", size |-> 0])
<1> DEFINE c == [type |-> "call", size |-> 0]
<1>1. c \in Action /\ IsValidAction(s, TRUE, c) /\ FixedAction(s, c) = c
  BY DEF Action, IsValidAction, FixedAction
<1> HIDE DEF c
<1> QED
  BY <1>1, FixedIsPlayable DEF c

(* The hand keeps its number.                                               *)
LEMMA HandIdStays ==
  ASSUME Stacks # {}, NEW s \in State, NEW a \in Action, a.type \in Played,
         CurrentPlayer(s) \in Players
  PROVE  DoAction(s, a).handId = s.handId
<1>1. RecordAction(s, a).handId = s.handId
  BY DEF RecordAction, State
<1>2. RecordAction(s, a) \in State
  BY RecordActionEffect
<1> QED
  BY <1>1, <1>2, SettleEffect DEF DoAction

(* A hand in play stays one.                                                *)
LEMMA PlayedHand ==
  ASSUME NEW s, HandChips(s), NEW f, Playable(s, f), NEW t, t = DoAction(s, f)
  PROVE  HandChips(t) /\ t.handId = s.handId /\ t.stackPlayer = s.stackPlayer
<1>1. f \in Action /\ IsValidAction(s, TRUE, f) /\ FixedAction(s, f) = f
  BY DEF Playable
<1>2. HandChips(t) /\ Moved(s, f, t)
  BY <1>1, ActionKeepsChips, ActionEffect
<1>3. s \in State
  BY DEF HandChips
<1> QED
  BY <1>2, <1>3, HandIdStays DEF Moved, Playable, HandChips

-----------------------------------------------------------------------------
(***************************************************************************)
(* The betting of a hand: the logs of its rounds, one after the other      *)
(***************************************************************************)
Concat(x, y) == x \o y

Whole == INSTANCE FoldProofs WITH Op <- Concat

Logs == [Rounds -> Seq(LogEntry)]

(* The logs of the first n rounds, and what was done in them.               *)
Parts(f, n)  == [i \in 1 .. n |-> f[i - 1]]
Joined(f, n) == Whole!Scan(Parts(f, n))

(* Nothing is logged for a round to come.                                   *)
Later(s) == \A r \in Rounds : r > s.round => s.action[r] = << >>

(* The betting of a hand is the logs of its rounds so far, joined.          *)
LEMMA BettingIsJoined ==
  ASSUME NEW s \in State
  PROVE  Betting(s) = Joined(s.action, s.round + 1)
<1> DEFINE ss == Parts(s.action, s.round + 1)
<1>1. s.round + 1 \in Nat /\ s.round + 1 # 0
  <2>1. s.round \in Rounds /\ NumRounds \in Nat
    BY GameAssumption DEF State
  <2> QED BY <2>1
<1>2. Len(ss) = s.round + 1 /\ Len(ss) # 0
  BY <1>1 DEF Parts
<1>3. Betting(s) = FlattenSeq(ss)
  BY DEF Betting, Parts
<1> HIDE DEF ss
<1>4. FlattenSeq(ss) = Whole!Scan(ss)
  BY <1>2 DEF FlattenSeq, Whole!Scan, Whole!ScanFun, Concat
<1> QED
  BY <1>3, <1>4 DEF Joined, ss

(* One round more is one log more.                                          *)
LEMMA PartsOf ==
  ASSUME NEW f \in Logs, NEW n \in 1 .. NumRounds
  PROVE  /\ Parts(f, n) \in Seq(Seq(LogEntry)) /\ Len(Parts(f, n)) = n
         /\ n < NumRounds => Parts(f, n + 1) = Append(Parts(f, n), f[n])
<1>1. NumRounds \in Nat /\ n \in Nat
  BY GameAssumption
<1>2. \A k \in Nat : k <= NumRounds =>
        Parts(f, k) \in Seq(Seq(LogEntry)) /\ Len(Parts(f, k)) = k
  <2>1. SUFFICES ASSUME NEW k \in Nat, k <= NumRounds
                 PROVE  Parts(f, k) \in Seq(Seq(LogEntry)) /\ Len(Parts(f, k)) = k
    OBVIOUS
  <2>2. \A i \in 1 .. k : f[i - 1] \in Seq(LogEntry)
    BY <1>1, <2>1 DEF Logs
  <2> QED BY <2>2 DEF Parts
<1>3. ASSUME n < NumRounds PROVE Parts(f, n + 1) = Append(Parts(f, n), f[n])
  <2> DEFINE u == Append(Parts(f, n), f[n])
  <2>1. f[n] \in Seq(LogEntry)
    BY <1>1, <1>3 DEF Logs
  <2>2. u \in Seq(Seq(LogEntry)) /\ Len(u) = n + 1
    BY <1>1, <1>2, <2>1
  <2>3. ASSUME NEW i \in 1 .. n + 1 PROVE u[i] = f[i - 1]
    <3>1. CASE i = n + 1
      <4>1. u[i] = f[n] /\ i - 1 = n
        BY <1>1, <1>2, <2>1, <3>1
      <4> QED BY <4>1
    <3>2. CASE i # n + 1
      <4>1. i \in 1 .. n
        BY <1>1, <3>2
      <4>2. u[i] = Parts(f, n)[i]
        BY <1>1, <1>2, <2>1, <4>1
      <4> QED BY <4>1, <4>2 DEF Parts
    <3> QED BY <3>1, <3>2
  <2>4. u = [i \in 1 .. n + 1 |-> u[i]]
    <3> HIDE DEF u
    <3> QED BY <2>2
  <2> HIDE DEF u
  <2>5. u = [i \in 1 .. n + 1 |-> f[i - 1]]
    BY <2>3, <2>4
  <2> QED BY <2>5 DEF Parts, u
<1> QED
  BY <1>1, <1>2, <1>3

(* The log of the first round.                                              *)
LEMMA JoinedOne ==
  ASSUME NEW f \in Logs
  PROVE  Joined(f, 1) = f[0]
<1>1. 1 \in 1 .. NumRounds
  BY GameAssumption
<1>2. Parts(f, 1) \in Seq(Seq(LogEntry)) /\ Len(Parts(f, 1)) = 1
  BY <1>1, PartsOf
<1>3. Whole!Scan(Parts(f, 1)) = Parts(f, 1)[1]
  BY <1>2, Whole!ScanOne
<1> QED
  BY <1>3 DEF Joined, Parts

(* ... and of one round more.                                               *)
LEMMA JoinedNext ==
  ASSUME NEW f \in Logs, NEW n \in 1 .. NumRounds, n < NumRounds
  PROVE  Joined(f, n + 1) = Joined(f, n) \o f[n]
<1> DEFINE ss == Parts(f, n)
<1>1. n \in Nat /\ n >= 1 /\ NumRounds \in Nat
  BY GameAssumption
<1>2. ss \in Seq(Seq(LogEntry)) /\ Len(ss) = n /\ Parts(f, n + 1) = Append(ss, f[n])
  BY PartsOf
<1>3. f[n] \in Seq(LogEntry)
  BY <1>1 DEF Logs
<1> HIDE DEF ss
<1>4. ss # << >>
  BY <1>1, <1>2
<1>5. Whole!Scan(Append(ss, f[n])) = Concat(Whole!Scan(ss), f[n])
  BY <1>2, <1>3, <1>4, Whole!ScanAppend
<1> QED
  BY <1>2, <1>5 DEF Joined, Concat, ss

(* What was done is a sequence of log entries; rounds with an empty log do  *)
(* not show in it.                                                          *)
LEMMA JoinedIsLog ==
  ASSUME NEW f \in Logs, NEW n \in 1 .. NumRounds
  PROVE  Joined(f, n) \in Seq(LogEntry)
<1> DEFINE S == {k \in Nat : k + 1 <= NumRounds => Joined(f, k + 1) \in Seq(LogEntry)}
<1>1. NumRounds \in Nat /\ NumRounds >= 1
  BY GameAssumption
<1>2. 0 \in S
  <2>1. f[0] \in Seq(LogEntry)
    BY <1>1 DEF Logs
  <2> QED BY <2>1, JoinedOne
<1>3. ASSUME NEW k \in Nat, k \in S PROVE k + 1 \in S
  <2> SUFFICES ASSUME k + 2 <= NumRounds PROVE Joined(f, (k + 1) + 1) \in Seq(LogEntry)
    BY <1>1
  <2>1. k + 1 \in 1 .. NumRounds /\ k + 1 < NumRounds
    BY <1>1
  <2>2. Joined(f, (k + 1) + 1) = Joined(f, k + 1) \o f[k + 1]
    BY <2>1, JoinedNext
  <2>3. Joined(f, k + 1) \in Seq(LogEntry)
    BY <1>1, <1>3
  <2>4. f[k + 1] \in Seq(LogEntry)
    BY <1>1, <2>1 DEF Logs
  <2>5. \A u, v \in Seq(LogEntry) : u \o v \in Seq(LogEntry)
    OBVIOUS
  <2> QED BY <2>2, <2>3, <2>4, <2>5
<1> HIDE DEF S
<1>4. n - 1 \in Nat /\ n - 1 \in S
  BY <1>1, <1>2, <1>3, Whole!Induction
<1> QED
  BY <1>1, <1>4 DEF S

(* An empty round adds nothing.                                             *)
LEMMA JoinedWithoutTail ==
  ASSUME NEW f \in Logs, NEW n \in 1 .. NumRounds, NEW m \in n .. NumRounds,
         \A r \in Rounds : r >= n => f[r] = << >>
  PROVE  Joined(f, m) = Joined(f, n)
<1> DEFINE S == {k \in Nat : n + k <= NumRounds => Joined(f, n + k) = Joined(f, n)}
<1>1. NumRounds \in Nat /\ n \in Nat /\ n >= 1
  BY GameAssumption
<1>2. 0 \in S
  BY <1>1
<1>3. ASSUME NEW k \in Nat, k \in S PROVE k + 1 \in S
  <2> SUFFICES ASSUME n + (k + 1) <= NumRounds PROVE Joined(f, n + (k + 1)) = Joined(f, n)
    OBVIOUS
  <2>1. n + k \in 1 .. NumRounds /\ n + k < NumRounds /\ n + (k + 1) = (n + k) + 1
    BY <1>1
  <2>2. Joined(f, (n + k) + 1) = Joined(f, n + k) \o f[n + k]
    BY <2>1, JoinedNext
  <2>3. f[n + k] = << >>
    BY <1>1, <2>1
  <2>4. Joined(f, n + k) = Joined(f, n)
    BY <1>1, <1>3, <2>1
  <2>5. Joined(f, n) \in Seq(LogEntry)
    BY JoinedIsLog
  <2> QED BY <2>1, <2>2, <2>3, <2>4, <2>5
<1> HIDE DEF S
<1>4. m - n \in Nat /\ m - n \in S
  BY <1>1, <1>2, <1>3, Whole!Induction
<1>5. n + (m - n) = m
  BY <1>1
<1> QED
  BY <1>1, <1>4, <1>5 DEF S

(* An entry in the last of the logs is the last of the entries.             *)
LEMMA JoinedAppend ==
  ASSUME NEW f \in Logs, NEW r \in Rounds, NEW e \in LogEntry,
         NEW g, g = [f EXCEPT ![r] = Append(f[r], e)]
  PROVE  g \in Logs /\ Joined(g, r + 1) = Append(Joined(f, r + 1), e)
<1>1. NumRounds \in Nat /\ r \in Nat /\ r + 1 \in 1 .. NumRounds
  BY GameAssumption
<1>2. f[r] \in Seq(LogEntry)
  BY DEF Logs
<1>3. /\ g \in Logs /\ g[r] = Append(f[r], e)
      /\ \A q \in Rounds : q # r => g[q] = f[q]
  BY <1>2 DEF Logs
<1>4. CASE r = 0
  <2>1. Joined(g, 1) = g[0] /\ Joined(f, 1) = f[0]
    <3>1. g \in Logs
      BY <1>3
    <3> QED BY <3>1, JoinedOne
  <2>2. r + 1 = 1
    BY <1>4
  <2> QED BY <1>3, <1>4, <2>1, <2>2
<1>5. CASE r # 0
  <2>1. r \in 1 .. NumRounds /\ r < NumRounds
    BY <1>1, <1>5
  <2>2. Joined(g, r + 1) = Joined(g, r) \o g[r] /\ Joined(f, r + 1) = Joined(f, r) \o f[r]
    BY <1>3, <2>1, JoinedNext
  <2>3. Joined(g, r) = Joined(f, r)
    <3>1. \A i \in 1 .. r : g[i - 1] = f[i - 1]
      BY <1>1, <1>3
    <3> QED BY <3>1 DEF Joined, Parts
  <2>4. Joined(f, r) \in Seq(LogEntry)
    BY <2>1, JoinedIsLog
  <2>5. \A u, v \in Seq(LogEntry) : u \o Append(v, e) = Append(u \o v, e)
    OBVIOUS
  <2> QED BY <1>2, <1>3, <2>2, <2>3, <2>4, <2>5
<1> QED
  BY <1>3, <1>4, <1>5

(* The second half of doAction goes on to a later round or stays, and       *)
(* leaves the logs alone.                                                   *)
LEMMA SettleLogs ==
  ASSUME NEW s \in State, Stacks # {}
  PROVE  /\ Settle(s).action = s.action /\ Settle(s).round >= s.round
         /\ \/ Settle(s).minNoLimitRaiseTo = s.minNoLimitRaiseTo
            \/ Settle(s).round = s.round + 1
<1>1. NumFolded(s) \in Nat /\ NumActing(s) \in Nat /\ NumCalled(s) \in Nat
  BY CountsAreNats
<1>2. NumPlayers \in Nat /\ NumRounds \in Nat /\ s.round \in Nat /\ s.round <= NumRounds - 1
  <2>1. s.round \in Rounds /\ NumRounds \in Nat /\ NumPlayers \in Nat
    BY GameAssumption DEF State
  <2> QED BY <2>1
<1>3. \/ Settle(s) = [s EXCEPT !.finished = TRUE]
      \/ Settle(s) = s
      \/ Settle(s) = [s EXCEPT !.finished = TRUE, !.round = NumRounds - 1]
      \/ Settle(s) = [s EXCEPT !.round = s.round + 1,
                               !.minNoLimitRaiseTo = MinRaiseOfNextRound(s)]
  <2> DEFINE F == NumFolded(s)
             A == NumActing(s)
             C == NumCalled(s)
  <2>1. F \in Nat /\ A \in Nat /\ C \in Nat /\ NumPlayers \in Nat /\ NumRounds \in Nat
        /\ s.round \in Nat
    BY <1>1, <1>2
  <2>2. CASE F + 1 >= NumPlayers
    BY <2>1, <2>2 DEF Settle
  <2>3. CASE F + 1 < NumPlayers /\ C < A
    BY <2>1, <2>3 DEF Settle
  <2>4. CASE F + 1 < NumPlayers /\ C >= A /\ A <= 1
    BY <2>1, <2>4 DEF Settle
  <2>5. CASE F + 1 < NumPlayers /\ C >= A /\ A > 1 /\ s.round + 1 < NumRounds
    BY <2>1, <2>5 DEF Settle
  <2>6. CASE F + 1 < NumPlayers /\ C >= A /\ A > 1 /\ s.round + 1 >= NumRounds
    BY <2>1, <2>6 DEF Settle
  <2> HIDE DEF F, A, C
  <2> QED BY <2>1, <2>2, <2>3, <2>4, <2>5, <2>6
<1>4. Settle(s).action = s.action
  BY <1>3 DEF State
<1>5. \/ Settle(s).round = s.round \/ Settle(s).round = NumRounds - 1
      \/ Settle(s).round = s.round + 1
  BY <1>3 DEF State
<1>6. \/ Settle(s).minNoLimitRaiseTo = s.minNoLimitRaiseTo
      \/ Settle(s).round = s.round + 1
  BY <1>3 DEF State
<1> QED
  BY <1>2, <1>4, <1>5, <1>6

(* doAction adds one entry to the betting of the hand, at its end.          *)
LEMMA BettingGrows ==
  ASSUME Stacks # {}, NEW s \in State, Later(s), NEW a \in Action, a.type \in Played,
         CurrentPlayer(s) \in Players, NEW t, t = DoAction(s, a)
  PROVE  /\ t \in State /\ Later(t)
         /\ Betting(s) \in Seq(LogEntry)
         /\ LET e == [type |-> a.type, size |-> a.size, player |-> CurrentPlayer(s)]
            IN  e \in LogEntry /\ Betting(t) = Append(Betting(s), e)
<1> DEFINE p == CurrentPlayer(s)
           r == RecordAction(s, a)
           e == [type |-> a.type, size |-> a.size, player |-> p]
<1>1. r \in State /\ t = Settle(r)
  BY RecordActionEffect DEF DoAction
<1>2. /\ s.round \in Rounds /\ s.round + 1 \in 1 .. NumRounds /\ s.round \in Nat
      /\ NumRounds \in Nat /\ s.action \in Logs
  <2>1. s.round \in Rounds /\ NumRounds \in Nat /\ s.action \in Logs
    BY GameAssumption DEF State, Logs
  <2> QED BY <2>1
<1>3. e \in LogEntry
  BY DEF LogEntry, Action, Played
<1>4. r.action = [s.action EXCEPT ![s.round] = Append(s.action[s.round], e)] /\ r.round = s.round
  BY DEF RecordAction, State
<1>5. t \in State /\ t.action = r.action /\ t.round >= s.round
  <2> HIDE DEF r
  <2> QED BY <1>1, <1>4, SettleEffect, SettleLogs
<1> HIDE DEF e, r
<1>6. /\ r.action \in Logs
      /\ Joined(r.action, s.round + 1) = Append(Joined(s.action, s.round + 1), e)
  <2> DEFINE f == s.action
             n == s.round
             g == r.action
  <2>1. f \in Logs /\ n \in Rounds /\ e \in LogEntry /\ g = [f EXCEPT ![n] = Append(f[n], e)]
    BY <1>2, <1>3, <1>4
  <2> HIDE DEF f, n, g
  <2>2. g \in Logs /\ Joined(g, n + 1) = Append(Joined(f, n + 1), e)
    BY <2>1, JoinedAppend
  <2> QED BY <2>2 DEF f, n, g
<1>7. \A q \in Rounds : q > s.round => r.action[q] = << >>
  <2>1. \A q \in Rounds : q > s.round => s.action[q] = << >> /\ q # s.round
    BY <1>2 DEF Later
  <2>2. \A q \in Rounds : q # s.round => r.action[q] = s.action[q]
    BY <1>2, <1>4 DEF Logs
  <2> QED BY <2>1, <2>2
<1>8. t.round \in Rounds /\ t.round + 1 \in s.round + 1 .. NumRounds
  <2>1. t.round \in Rounds
    BY <1>5 DEF State
  <2> QED BY <1>2, <1>5, <2>1
<1>9. Joined(r.action, t.round + 1) = Joined(r.action, s.round + 1)
  <2>1. \A q \in Rounds : q >= s.round + 1 => r.action[q] = << >>
    BY <1>2, <1>7
  <2> QED BY <1>2, <1>6, <1>8, <2>1, JoinedWithoutTail
<1>10. Betting(t) = Append(Betting(s), e)
  <2>1. Betting(s) = Joined(s.action, s.round + 1) /\ Betting(t) = Joined(r.action, t.round + 1)
    BY <1>5, BettingIsJoined
  <2> QED BY <1>6, <1>9, <2>1
<1>11. Betting(s) \in Seq(LogEntry)
  BY <1>2, BettingIsJoined, JoinedIsLog
<1>12. Later(t)
  <2>1. \A q \in Rounds : q > t.round => q > s.round
    BY <1>2, <1>5, <1>8
  <2> QED BY <1>5, <1>7, <2>1 DEF Later
<1> QED
  BY <1>3, <1>5, <1>10, <1>11, <1>12 DEF e

(* A hand just dealt has no betting.                                        *)
LEMMA NoBettingYet ==
  ASSUME NEW h \in Nat, NEW st \in Stacks, NEW i, i = InitState(h, st)
  PROVE  Later(i) /\ Betting(i) = << >> /\ i.round = 0
<1>1. i \in State /\ i.round = 0 /\ i.action = [r \in Rounds |-> << >>]
  BY InitStateEffect DEF InitState
<1>2. i.action \in Logs /\ i.action[0] = << >>
  <2>1. 0 \in Rounds
    BY GameAssumption
  <2> QED BY <1>1, <2>1 DEF Logs
<1>3. Betting(i) = Joined(i.action, 1)
  BY <1>1, BettingIsJoined
<1> QED
  BY <1>1, <1>2, <1>3, JoinedOne DEF Later

(***************************************************************************)
(* A hand and the actions that led to it: replaying them, or reading them  *)
(* back as they are printed, gives the same hand.                          *)
(***************************************************************************)
Redo == INSTANCE FoldProofs WITH Op <- DoAction

Dealt(s) == InitState(s.handId, s.stackPlayer)

Retold(s) ==
  /\ Later(s)
  /\ ReadBetting(Dealt(s), Betting(s)) = [ok |-> TRUE, state |-> s]
  /\ Replay(Dealt(s), Betting(s)) = s

(* The loops that read and replay are folds.                                *)
LEMMA ReplayIsFold ==
  ASSUME NEW s, NEW log
  PROVE  /\ ReadBetting(s, log) = Reader!Fold([ok |-> TRUE, state |-> s], log)
         /\ Replay(s, log) = Redo!Fold(s, log)
<1>1. \A t : Max(t) = Reader!Top(t) /\ Max(t) = Redo!Top(t)
  BY DEF Max, Reader!Top, Redo!Top
<1>2. ReadBetting(s, log) = Reader!Fold([ok |-> TRUE, state |-> s], log)
  BY <1>1 DEF ReadBetting, FoldLeft, MapThenFoldSet, Reader!Fold, Reader!FoldFun
<1>3. Replay(s, log) = Redo!Fold(s, log)
  BY <1>1 DEF Replay, FoldLeft, MapThenFoldSet, Redo!Fold, Redo!FoldFun
<1> QED
  BY <1>2, <1>3

(* Only the type and the size of a logged action tell what it did.          *)
LEMMA LoggedAction ==
  ASSUME NEW s, NEW f, NEW e, e.type = f.type, e.size = f.size
  PROVE  DoAction(s, e) = DoAction(s, f) /\ PrintedAction(e) = PrintedAction(f)
<1>1. NewSpent(s, e) = NewSpent(s, f) /\ NewMinRaiseTo(s, e) = NewMinRaiseTo(s, f)
  BY DEF NewSpent, NewMinRaiseTo
<1>2. RecordAction(s, e) = RecordAction(s, f)
  BY <1>1 DEF RecordAction
<1> QED
  BY <1>2 DEF DoAction, PrintedAction

(* A hand just dealt.                                                       *)
LEMMA DealtIsRetold ==
  ASSUME NEW h \in Nat, NEW st \in Stacks, NEW i, i = InitState(h, st)
  PROVE  Retold(i) /\ Betting(i) = << >>
<1>1. Dealt(i) = i
  BY DEF Dealt, InitState
<1>2. Later(i) /\ Betting(i) = << >>
  BY NoBettingYet
<1>3. ReadBetting(i, << >>) = [ok |-> TRUE, state |-> i] /\ Replay(i, << >>) = i
  BY ReplayIsFold, Reader!FoldEmpty, Redo!FoldEmpty
<1> QED
  BY <1>1, <1>2, <1>3 DEF Retold

(* One action more is one entry more.                                       *)
LEMMA PlayedBetting ==
  ASSUME NEW s, HandChips(s), Later(s), NEW f, Playable(s, f), NEW t, t = DoAction(s, f)
  PROVE  /\ Later(t) /\ Betting(s) \in Seq(LogEntry)
         /\ \E e \in LogEntry : /\ e.type = f.type /\ e.size = f.size
                                /\ Betting(t) = Append(Betting(s), e)
<1>1. /\ s \in State /\ Stacks # {} /\ f \in Action /\ f.type \in Played
      /\ CurrentPlayer(s) \in Players
  <2>1. s \in State /\ Acting(s) # {}
    BY DEF HandChips, Playable, IsValidAction
  <2>2. CurrentPlayer(s) \in Players
    BY <2>1, TurnIsAnActingPlayers DEF Acting
  <2> QED BY <2>1, <2>2 DEF HandChips, Playable
<1> QED
  BY <1>1, BettingGrows

(* ... which is read back, and replayed, as that action.                    *)
LEMMA PlayedIsRetold ==
  ASSUME NEW s, HandChips(s), Retold(s), NEW f, Playable(s, f), NEW t, t = DoAction(s, f)
  PROVE  /\ Retold(t)
         /\ Betting(s) \in Seq(LogEntry)
         /\ \E e \in LogEntry : Betting(t) = Append(Betting(s), e)
<1> DEFINE b == Betting(s)
           d == Dealt(s)
<1>1. Later(s)
  BY DEF Retold
<1>2. PICK e \in LogEntry : e.type = f.type /\ e.size = f.size /\ Betting(t) = Append(b, e)
  BY <1>1, PlayedBetting
<1>3. Later(t) /\ b \in Seq(LogEntry)
  BY <1>1, PlayedBetting
<1>4. Dealt(t) = d
  BY PlayedHand DEF Dealt
<1>5. ReadBetting(d, b) = [ok |-> TRUE, state |-> s] /\ Replay(d, b) = s
  BY DEF Retold
<1> HIDE DEF b, d
<1>6. /\ ReadBetting(d, Append(b, e)) = ReadOne(ReadBetting(d, b), e)
      /\ Replay(d, Append(b, e)) = DoAction(Replay(d, b), e)
  <2> DEFINE base == [ok |-> TRUE, state |-> d]
  <2>1. Reader!Fold(base, Append(b, e)) = ReadOne(Reader!Fold(base, b), e)
    <3> HIDE DEF base
    <3> QED BY <1>3, Reader!FoldAppend
  <2>2. Redo!Fold(d, Append(b, e)) = DoAction(Redo!Fold(d, b), e)
    BY <1>3, Redo!FoldAppend
  <2> QED BY <2>1, <2>2, ReplayIsFold
<1>7. DoAction(s, e) = t /\ PrintedAction(e) = f
  BY <1>2, LoggedAction DEF Playable
<1>8. ReadOne([ok |-> TRUE, state |-> s], e) = [ok |-> TRUE, state |-> t]
  BY <1>7 DEF ReadOne, Playable
<1>9. Retold(t)
  BY <1>2, <1>3, <1>4, <1>5, <1>6, <1>7, <1>8 DEF Retold
<1> QED
  BY <1>2, <1>3, <1>9 DEF b

-----------------------------------------------------------------------------
(***************************************************************************)
(* The payoff: valueOfState adds up one share for every chip put in        *)
(***************************************************************************)
(* Adding up is the sum of SumProofs.                                       *)
LEMMA SumOverIsTotal ==
  ASSUME NEW f, NEW S
  PROVE  SumOver(f, S) = Total(f, S)
  BY DEF SumOver, MapThenSumSet, MapThenFoldSet, Total, TotalFun, AnElement

(* A multiple of the divisor leaves nothing over.                           *)
LEMMA ExactShares ==
  ASSUME NEW d \in Int, NEW w \in Nat \ {0}, NEW n, n = w * d
  PROVE  n \div w = d
  OBVIOUS

(* The numbers up to n.                                                     *)
LEMMA UpTo ==
  ASSUME NEW n \in Nat
  PROVE  IsFiniteSet(1 .. n) /\ Cardinality(1 .. n) = n
<1>1. 1 \in Int /\ n \in Int
  OBVIOUS
<1>2. IsFiniteSet(1 .. n) /\ Cardinality(1 .. n) = IF 1 > n THEN 0 ELSE n - 1 + 1
  BY <1>1, FS_Interval
<1> QED
  BY <1>2

(* What the division by a positive number leaves.                          *)
LEMMA Divides ==
  ASSUME NEW n \in Int, NEW w \in Nat, w > 0, n % w = 0
  PROVE  n = w * (n \div w) /\ n \div w \in Int
  OBVIOUS

(* A pot splits evenly among any number of players.                         *)
LEMMA ScaleSplits ==
  ASSUME NEW w \in 1 .. NumPlayers
  PROVE  \E c \in Int : Scale = w * c
<1>1. NumPlayers \in Nat
  BY GameAssumption
<1>2. w \in Nat /\ w > 0
  BY <1>1
<1>3. Scale \in Int /\ Scale % w = 0
  BY ScaleAssumption
<1> QED
  BY <1>2, <1>3, Divides

-----------------------------------------------------------------------------
(***************************************************************************)
(* One side pot: the parts of the loop body of SidePots by name.           *)
(***************************************************************************)
HandRank(s, rk, q)  == IF s.playerFolded[q] THEN -1 ELSE rk[q]
Contenders(s, b)    == {q \in Players : s.spent[q] > b}
PotSize(s, b)       == Min({s.spent[q] - b : q \in Contenders(s, b)})
WinRank(s, rk, b)   == Max({0} \cup {HandRank(s, rk, q) : q \in Contenders(s, b)})
Winners(s, rk, b)   == {q \in Contenders(s, b) : HandRank(s, rk, q) = WinRank(s, rk, b)}
NumLosers(s, rk, b) == Cardinality(Contenders(s, b)) - Cardinality(Winners(s, rk, b))

PotShare(s, rk, p, b) ==
    IF p \in Winners(s, rk, b)
    THEN (Scale * PotSize(s, b) * NumLosers(s, rk, b)) \div Cardinality(Winners(s, rk, b))
    ELSE -(Scale * PotSize(s, b))

Won(s, rk, p) ==
    CHOOSE won : won = [base \in 0 .. s.spent[p] |->
                          IF base = s.spent[p] THEN 0
                          ELSE won[base + PotSize(s, base)] + PotShare(s, rk, p, base)]

(* The same one chip at a time: who paid a k-th chip and who gets it.       *)
Payers(s, k)   == {q \in Players : s.spent[q] >= k}
Best(s, rk, k) == {q \in Payers(s, k) \cap Shown(s, rk) :
                     \A o \in Payers(s, k) \cap Shown(s, rk) : rk[o] <= rk[q]}

(* What the payoff needs of a hand: chips are natural numbers, and so are   *)
(* the ranks of the hands that are shown.                                   *)
Countable(s, rk) ==
    /\ s.spent \in [Players -> Nat]
    /\ s.playerFolded \in [Players -> BOOLEAN]
    /\ rk \in [Players -> Nat \cup {-1}]

(* The loop of SidePots in these terms.                                     *)
LEMMA SidePotsAreWon ==
  ASSUME NEW s, NEW rk, NEW p
  PROVE  SidePots(s, rk, p) = Won(s, rk, p)[0]
  BY DEF SidePots, Won, PotShare, NumLosers, Winners, WinRank, PotSize, Contenders, HandRank

(* A side pot takes as many chips a head as its smallest stake has left; up *)
(* to there its contenders are those who pay every chip.                    *)
LEMMA PotHasPayers ==
  ASSUME NEW s, s.spent \in [Players -> Nat], NEW p \in Players,
         NEW b \in Nat, b < s.spent[p]
  PROVE  /\ PotSize(s, b) \in Nat /\ PotSize(s, b) > 0 /\ b + PotSize(s, b) <= s.spent[p]
         /\ \A k \in b + 1 .. b + PotSize(s, b) : Payers(s, k) = Contenders(s, b)
<1> DEFINE T == {s.spent[q] - b : q \in Contenders(s, b)}
           n == PotSize(s, b)
<1>1. p \in Contenders(s, b) /\ \A q \in Contenders(s, b) :
        s.spent[q] - b \in Nat /\ s.spent[q] - b > 0 /\ s.spent[q] \in Nat /\ q \in Players
  <2>1. ASSUME NEW q \in Players, s.spent[q] > b
        PROVE  s.spent[q] - b \in Nat /\ s.spent[q] - b > 0 /\ s.spent[q] \in Nat
    <3>1. s.spent[q] \in Nat
      OBVIOUS
    <3> QED BY <2>1, <3>1
  <2> QED BY <2>1 DEF Contenders
<1>2. T \in SUBSET Nat /\ T # {}
  BY <1>1
<1>3. n \in T /\ \A m \in T : n <= m
  <2>1. \E m \in T : \A l \in T : m <= l
    <3> HIDE DEF T
    <3> QED BY <1>2, LeastNatural
  <2>2. n = CHOOSE m \in T : \A l \in T : m <= l
    BY DEF PotSize, Min
  <2> HIDE DEF T, n
  <2> QED BY <2>1, <2>2
<1>4. PICK o \in Contenders(s, b) : n = s.spent[o] - b
  BY <1>3
<1>5. \A q \in Contenders(s, b) : n <= s.spent[q] - b
  BY <1>3
<1> HIDE DEF T, n
<1>6. n \in Nat /\ n > 0 /\ b + n <= s.spent[p]
  <2>1. n \in Nat /\ n > 0 /\ n <= s.spent[p] - b /\ s.spent[p] \in Nat
    BY <1>1, <1>4, <1>5
  <2> QED BY <2>1
<1>7. ASSUME NEW k \in b + 1 .. b + n PROVE Payers(s, k) = Contenders(s, b)
  <2>1. k \in Int /\ b + 1 <= k /\ k <= b + n
    BY <1>6
  <2>2. ASSUME NEW q \in Players, s.spent[q] >= k PROVE s.spent[q] > b
    <3>1. s.spent[q] \in Nat
      OBVIOUS
    <3> QED BY <2>1, <2>2, <3>1
  <2>3. ASSUME NEW q \in Contenders(s, b) PROVE s.spent[q] >= k
    BY <1>1, <1>5, <1>6, <2>1
  <2> QED BY <2>2, <2>3 DEF Payers, Contenders
<1> QED
  BY <1>6, <1>7 DEF n

(* Of finitely many one has the largest number, which Max then is.          *)
LEMMA SomeLargest ==
  ASSUME NEW S, IsFiniteSet(S), S # {}, NEW f, \A x \in S : f[x] \in Int
  PROVE  \E x \in S : \A y \in S : f[y] <= f[x]
<1> DEFINE Q == {s \in SUBSET S : s # {} => \E x \in s : \A y \in s : f[y] <= f[x]}
<1>1. {} \in Q
  OBVIOUS
<1>2. ASSUME NEW s \in SUBSET S, NEW x \in S \ s, s \in Q PROVE s \cup {x} \in Q
  <2>1. CASE s = {}
    <3>1. f[x] \in Int
      OBVIOUS
    <3> QED BY <2>1, <3>1
  <2>2. CASE s # {}
    <3>1. PICK z \in s : \A y \in s : f[y] <= f[z]
      BY <1>2, <2>2
    <3>2. f[x] \in Int /\ f[z] \in Int /\ \A y \in s : f[y] \in Int
      OBVIOUS
    <3>3. CASE f[x] <= f[z]
      BY <3>1, <3>3
    <3>4. CASE ~(f[x] <= f[z])
      <4>1. \A y \in s \cup {x} : f[y] <= f[x]
        BY <3>1, <3>2, <3>4
      <4> QED BY <4>1
    <3> QED BY <3>3, <3>4
  <2> QED BY <2>1, <2>2
<1>3. S \in Q
  <2>1. Q \in SUBSET SUBSET S
    OBVIOUS
  <2> HIDE DEF Q
  <2> QED BY <1>1, <1>2, <2>1, SubsetInduction
<1> QED
  BY <1>3

(* Max is the largest element.                                              *)
LEMMA MaxIs ==
  ASSUME NEW T \in SUBSET Int, NEW x \in T, \A y \in T : y <= x
  PROVE  Max(T) = x
<1>1. Max(T) \in T /\ \A y \in T : y <= Max(T)
  BY DEF Max
<1>2. x <= Max(T) /\ Max(T) <= x /\ x \in Int /\ Max(T) \in Int
  BY <1>1
<1> QED
  BY <1>2

(* A hand that can win, of a player with chips in.                          *)
LEMMA ShownIsIn ==
  ASSUME NEW s, NEW rk, NEW p \in Shown(s, rk)
  PROVE  p \in Players /\ ~s.playerFolded[p] /\ rk[p] >= 0
  BY DEF Shown, Unfolded, Folded

(* The winners of a side pot are the best hands shown in it.                *)
LEMMA WinnersAreBest ==
  ASSUME NEW s, NEW rk, Countable(s, rk), NEW p \in Shown(s, rk),
         NEW b \in Nat, b < s.spent[p], NEW k, Payers(s, k) = Contenders(s, b)
  PROVE  Winners(s, rk, b) = Best(s, rk, k) /\ Winners(s, rk, b) # {}
<1> DEFINE C == Contenders(s, b)
           U == C \cap Shown(s, rk)
           T == {0} \cup {HandRank(s, rk, q) : q \in C}
<1>1. IsFiniteSet(U) /\ p \in U
  <2>1. U \in SUBSET Players /\ p \in U
    BY ShownIsIn DEF Contenders
  <2> HIDE DEF U
  <2> QED BY <2>1, PlayersFinite, FS_Subset
<1>2. /\ \A q \in U : q \in C /\ rk[q] \in Nat /\ HandRank(s, rk, q) = rk[q]
      /\ \A q \in C : q \notin U => HandRank(s, rk, q) = -1
  <2>1. \A q \in C : q \in Players /\ rk[q] \in Nat \cup {-1}
    BY DEF Countable, Contenders
  <2>2. \A q \in C : q \in U <=> ~s.playerFolded[q] /\ rk[q] >= 0
    BY <2>1 DEF Shown, Unfolded, Folded
  <2>3. ASSUME NEW q \in U PROVE q \in C /\ rk[q] \in Nat /\ HandRank(s, rk, q) = rk[q]
    BY <2>1, <2>2 DEF HandRank
  <2>4. ASSUME NEW q \in C, q \notin U PROVE HandRank(s, rk, q) = -1
    BY <2>1, <2>2, <2>4 DEF HandRank
  <2> QED BY <2>3, <2>4
<1>3. PICK x \in U : \A y \in U : rk[y] <= rk[x]
  <2> HIDE DEF U
  <2>1. \A q \in U : rk[q] \in Int
    BY <1>2
  <2> QED BY <1>1, <2>1, SomeLargest
<1> HIDE DEF U
<1>4. WinRank(s, rk, b) = rk[x]
  <2>1. T \in SUBSET Int /\ rk[x] \in T /\ \A y \in T : y <= rk[x]
    <3>1. \A q \in C : HandRank(s, rk, q) \in Int /\ HandRank(s, rk, q) <= rk[x]
      BY <1>2, <1>3
    <3>2. rk[x] \in Nat /\ HandRank(s, rk, x) = rk[x] /\ x \in C
      BY <1>2, <1>3
    <3> HIDE DEF C
    <3> QED BY <3>1, <3>2
  <2>2. WinRank(s, rk, b) = Max(T)
    BY DEF WinRank
  <2> HIDE DEF T
  <2> QED BY <2>1, <2>2, MaxIs
<1>5. ASSUME NEW q PROVE q \in Winners(s, rk, b) <=> q \in U /\ rk[q] = rk[x]
  BY <1>2, <1>3, <1>4 DEF Winners
<1>6. ASSUME NEW q PROVE q \in Best(s, rk, k) <=> q \in U /\ \A o \in U : rk[o] <= rk[q]
  BY DEF Best, U
<1>7. \A q \in U : rk[q] = rk[x] <=> \A o \in U : rk[o] <= rk[q]
  <2>1. ASSUME NEW q \in U, \A o \in U : rk[o] <= rk[q] PROVE rk[q] = rk[x]
    <3>1. rk[q] \in Nat /\ rk[x] \in Nat /\ rk[x] <= rk[q] /\ rk[q] <= rk[x]
      BY <1>2, <1>3, <2>1
    <3> QED BY <3>1
  <2> QED BY <1>3, <2>1
<1> QED
  BY <1>3, <1>5, <1>6, <1>7

(* How many pay and how many win.                                           *)
LEMMA PotCounts ==
  ASSUME NEW s, NEW rk, NEW k, Best(s, rk, k) # {}
  PROVE  /\ IsFiniteSet(Payers(s, k)) /\ IsFiniteSet(Best(s, rk, k))
         /\ Cardinality(Best(s, rk, k)) \in 1 .. NumPlayers
         /\ Cardinality(Payers(s, k)) \in Nat
         /\ Cardinality(Best(s, rk, k)) <= Cardinality(Payers(s, k))
<1> DEFINE P == Payers(s, k)
           W == Best(s, rk, k)
<1>1. P \in SUBSET Players /\ W \in SUBSET P
  BY DEF Payers, Best
<1>2. NumPlayers \in Nat /\ IsFiniteSet(Players) /\ Cardinality(Players) = NumPlayers
  <2>1. NumPlayers \in Nat /\ 0 \in Int /\ NumPlayers - 1 \in Int /\ 0 <= NumPlayers - 1
    BY GameAssumption
  <2>2. IsFiniteSet(0 .. NumPlayers - 1)
         /\ Cardinality(0 .. NumPlayers - 1) = NumPlayers - 1 - 0 + 1
    BY <2>1, FS_Interval
  <2> QED BY <2>1, <2>2
<1> HIDE DEF P, W
<1>3. IsFiniteSet(P) /\ IsFiniteSet(W) /\ Cardinality(W) <= Cardinality(P)
      /\ Cardinality(P) <= Cardinality(Players)
  BY <1>1, <1>2, FS_Subset
<1>4. Cardinality(P) \in Nat /\ Cardinality(W) \in Nat
  BY <1>3, FS_CardinalityType
<1>5. Cardinality(W) # 0
  BY <1>3, FS_EmptySet DEF W
<1> QED
  BY <1>2, <1>3, <1>4, <1>5 DEF P, W

(* A winner's part of a chip a head is a whole number of units.             *)
LEMMA ChipShareIs ==
  ASSUME NEW s, NEW rk, NEW p, NEW k, Best(s, rk, k) # {}
  PROVE  \E c \in Nat :
           /\ Scale = Cardinality(Best(s, rk, k)) * c
           /\ ChipShare(s, rk, p, k) = IF p \in Best(s, rk, k)
                                       THEN c * Cardinality(Payers(s, k)) - Scale ELSE -Scale
<1> DEFINE P == Cardinality(Payers(s, k))
           W == Cardinality(Best(s, rk, k))
<1>1. W \in 1 .. NumPlayers /\ P \in Nat /\ W \in Nat \ {0}
  BY PotCounts, GameAssumption
<1>2. ChipShare(s, rk, p, k) = IF p \in Best(s, rk, k) THEN (Scale * P) \div W - Scale
                               ELSE -Scale
  BY DEF ChipShare, Payers, Best
<1> HIDE DEF P, W
<1>3. PICK c \in Int : Scale = W * c
  BY <1>1, ScaleSplits
<1>4. c \in Nat
  <2>1. Scale \in Nat
    BY ScaleAssumption
  <2>2. CASE c < 0
    <3>1. W * c < 0
      BY <1>1, <2>2
    <3> QED BY <1>3, <2>1, <3>1
  <2> QED BY <2>2
<1>5. (Scale * P) \div W = c * P
  <2>1. Scale * P = W * (c * P) /\ c * P \in Int
    BY <1>1, <1>3
  <2> HIDE DEF ChipShare
  <2> QED BY <1>1, <2>1, ExactShares
<1> QED
  BY <1>2, <1>3, <1>4, <1>5 DEF P, W

(* Its bounds: a chip may be lost, and at most one won from each other payer. *)
LEMMA ChipShareBounds ==
  ASSUME NEW s, NEW rk, NEW p, NEW k, Best(s, rk, k) # {}
  PROVE  /\ ChipShare(s, rk, p, k) \in Int
         /\ -Scale <= ChipShare(s, rk, p, k)
         /\ ChipShare(s, rk, p, k) <= Scale * (Cardinality(Payers(s, k)) - 1)
<1> DEFINE P == Cardinality(Payers(s, k))
           W == Cardinality(Best(s, rk, k))
<1>1. W \in Nat /\ W >= 1 /\ P \in Nat /\ W <= P /\ Scale \in Nat
  BY PotCounts, GameAssumption, ScaleAssumption
<1>2. PICK c \in Nat :
        /\ Scale = W * c
        /\ ChipShare(s, rk, p, k) = IF p \in Best(s, rk, k) THEN c * P - Scale ELSE -Scale
  BY ChipShareIs
<1> HIDE DEF P, W
<1>3. c * P \in Nat /\ c * P <= Scale * P
  <2>1. c <= Scale
    BY <1>1, <1>2
  <2> QED BY <1>1, <2>1
<1>4. Scale * (P - 1) = Scale * P - Scale /\ Scale * P \in Nat /\ Scale * P >= Scale
  BY <1>1
<1> QED
  BY <1>1, <1>2, <1>3, <1>4 DEF P

(* A chip of a folded hand, or of one that is not shown, is lost.           *)
LEMMA HiddenLose ==
  ASSUME NEW s, NEW rk, NEW p, p \notin Shown(s, rk), NEW k
  PROVE  ChipShare(s, rk, p, k) = -Scale
  BY DEF ChipShare

(* A side pot pays its share of a chip, times the chips a head ...          *)
LEMMA PotPaysShown ==
  ASSUME NEW s, NEW rk, Countable(s, rk), NEW p \in Shown(s, rk),
         NEW b \in Nat, b < s.spent[p], NEW k, Payers(s, k) = Contenders(s, b)
  PROVE  PotShare(s, rk, p, b) = ChipShare(s, rk, p, k) * PotSize(s, b)
<1> DEFINE P == Cardinality(Payers(s, k))
           W == Cardinality(Best(s, rk, k))
           n == PotSize(s, b)
<1>1. Winners(s, rk, b) = Best(s, rk, k) /\ Best(s, rk, k) # {}
  BY WinnersAreBest
<1>2. W \in Nat \ {0} /\ P \in Nat /\ Scale \in Nat /\ n \in Nat
  <2>1. W \in 1 .. NumPlayers /\ P \in Nat /\ NumPlayers \in Nat
    BY <1>1, PotCounts, GameAssumption
  <2>2. n \in Nat
    BY ShownIsIn, PotHasPayers DEF Countable
  <2> QED BY <2>1, <2>2, ScaleAssumption
<1>3. PotShare(s, rk, p, b) = IF p \in Best(s, rk, k) THEN (Scale * n * (P - W)) \div W
                              ELSE -(Scale * n)
  BY <1>1 DEF PotShare, NumLosers
<1>4. PICK c \in Nat :
        /\ Scale = W * c
        /\ ChipShare(s, rk, p, k) = IF p \in Best(s, rk, k) THEN c * P - Scale ELSE -Scale
  BY <1>1, ChipShareIs
<1> HIDE DEF P, W, n
<1>5. (Scale * n * (P - W)) \div W = (c * P - Scale) * n
  <2> DEFINE d == (c * P - Scale) * n
  <2>1. Scale * n * (P - W) = W * d
    <3>1. Scale * n * (P - W) = (W * c) * n * P - (W * c) * n * W
      BY <1>2, <1>4
    <3>2. W * d = W * (c * P) * n - W * (W * c) * n
      BY <1>2, <1>4
    <3>3. (W * c) * n * P = W * (c * P) * n /\ (W * c) * n * W = W * (W * c) * n
      BY <1>2
    <3> QED BY <3>1, <3>2, <3>3
  <2>2. d \in Int
    BY <1>2
  <2> HIDE DEF d
  <2>3. (Scale * n * (P - W)) \div W = d
    BY <1>2, <2>1, <2>2, ExactShares
  <2> QED BY <2>3 DEF d
<1>6. -(Scale * n) = (-Scale) * n
  BY <1>2
<1> QED
  BY <1>3, <1>4, <1>5, <1>6 DEF n

(* ... and takes it from a player that is in but shows no hand.             *)
LEMMA PotPaysChips ==
  ASSUME NEW s, NEW rk, Countable(s, rk), NEW p \in Players, ~s.playerFolded[p],
         NEW b \in Nat, b < s.spent[p], NEW k, Payers(s, k) = Contenders(s, b)
  PROVE  PotShare(s, rk, p, b) = ChipShare(s, rk, p, k) * PotSize(s, b)
<1>1. CASE p \in Shown(s, rk)
  BY <1>1, PotPaysShown
<1>2. CASE p \notin Shown(s, rk)
  <2> DEFINE n == PotSize(s, b)
             T == {0} \cup {HandRank(s, rk, q) : q \in Contenders(s, b)}
  <2>1. HandRank(s, rk, p) = -1
    <3>1. rk[p] \in Nat \cup {-1} /\ ~(rk[p] >= 0)
      BY <1>2 DEF Countable, Shown, Unfolded, Folded
    <3> QED BY <3>1 DEF HandRank
  <2>2. IsFiniteSet(Contenders(s, b)) /\ \A q \in Contenders(s, b) : HandRank(s, rk, q) \in Int
    <3>1. Contenders(s, b) \in SUBSET Players
      BY DEF Contenders
    <3>2. \A q \in Players : HandRank(s, rk, q) \in Int
      BY DEF HandRank, Countable
    <3> QED BY <3>1, <3>2, PlayersFinite, FS_Subset
  <2>3. WinRank(s, rk, b) \in Int /\ 0 <= WinRank(s, rk, b)
    <3> DEFINE C  == Contenders(s, b)
               hr == [q \in C |-> HandRank(s, rk, q)]
    <3>1. p \in C /\ \A q \in C : hr[q] \in Int /\ hr[q] = HandRank(s, rk, q)
      BY <2>2 DEF Contenders
    <3>2. PICK x \in C : \A y \in C : hr[y] <= hr[x]
      <4> HIDE DEF C, hr
      <4> QED BY <2>2, <3>1, SomeLargest DEF C
    <3>3. WinRank(s, rk, b) = Max(T)
      BY DEF WinRank
    <3>4. T \in SUBSET Int /\ 0 \in T /\ hr[x] \in T
          /\ \A t \in T : t = 0 \/ \E q \in C : t = hr[q]
      <4>1. T = {0} \cup {HandRank(s, rk, q) : q \in C}
        OBVIOUS
      <4> HIDE DEF T, C, hr
      <4>2. \A t \in T : t = 0 \/ \E q \in C : t = hr[q]
        BY <3>1, <4>1
      <4>3. 0 \in T /\ hr[x] \in T
        BY <3>1, <3>2, <4>1
      <4> QED BY <3>1, <4>2, <4>3
    <3> HIDE DEF T, C, hr
    <3>5. CASE hr[x] >= 0
      <4>1. \A t \in T : t <= hr[x]
        BY <3>1, <3>2, <3>4, <3>5
      <4>2. Max(T) = hr[x]
        BY <3>4, <4>1, MaxIs
      <4> QED BY <3>1, <3>2, <3>3, <3>5, <4>2
    <3>6. CASE ~(hr[x] >= 0)
      <4>1. \A t \in T : t <= 0
        <5>1. ASSUME NEW q \in C PROVE hr[q] <= 0
          BY <3>1, <3>2, <3>6
        <5> QED BY <3>4, <5>1
      <4>2. Max(T) = 0
        BY <3>4, <4>1, MaxIs
      <4> QED BY <3>3, <4>2
    <3> QED BY <3>5, <3>6
  <2>4. p \notin Winners(s, rk, b)
    BY <2>1, <2>3 DEF Winners
  <2>5. PotShare(s, rk, p, b) = -(Scale * n)
    BY <2>4 DEF PotShare
  <2>6. n \in Nat /\ Scale \in Nat
    BY PotHasPayers, ScaleAssumption DEF Countable
  <2>7. -(Scale * n) = (-Scale) * n
    <3> HIDE DEF n
    <3> QED BY <2>6
  <2> QED BY <1>2, <2>5, <2>7, HiddenLose
<1> QED
  BY <1>1, <1>2

-----------------------------------------------------------------------------
(***************************************************************************)
(* The side pots of a player together                                      *)
(***************************************************************************)
Chips(s, rk, p) == [k \in 1 .. s.spent[p] |-> ChipShare(s, rk, p, k)]

(* The stakes from base on, chip by chip.                                   *)
FromBase(s, rk, p) == [b \in 0 .. s.spent[p] |-> Total(Chips(s, rk, p), b + 1 .. s.spent[p])]

(* Every chip of a hand that is shown has a best hand to go to.             *)
LEMMA ChipsHaveWinners ==
  ASSUME NEW s, NEW rk, Countable(s, rk), NEW p \in Shown(s, rk),
         NEW k \in 1 .. s.spent[p]
  PROVE  Best(s, rk, k) # {}
<1>1. s.spent[p] \in Nat
  BY ShownIsIn DEF Countable
<1>2. k - 1 \in Nat /\ k - 1 < s.spent[p]
  BY <1>1
<1>3. Payers(s, k) = Contenders(s, k - 1)
  <2>1. ASSUME NEW q \in Players PROVE s.spent[q] >= k <=> s.spent[q] > k - 1
    <3>1. s.spent[q] \in Nat
      BY DEF Countable
    <3>2. k \in Int
      BY <1>1
    <3> QED BY <3>1, <3>2
  <2> QED BY <2>1 DEF Payers, Contenders
<1> QED
  BY <1>2, <1>3, WinnersAreBest

(* Chips are whole units, and what is summed up of them.                    *)
LEMMA ChipsAreInts ==
  ASSUME NEW s, NEW rk, Countable(s, rk), NEW p \in Players
  PROVE  /\ s.spent[p] \in Nat /\ IsFiniteSet(1 .. s.spent[p])
         /\ \A k \in 1 .. s.spent[p] : /\ Chips(s, rk, p)[k] \in Int
                                       /\ Chips(s, rk, p)[k] = ChipShare(s, rk, p, k)
<1>1. s.spent[p] \in Nat
  BY DEF Countable
<1>2. IsFiniteSet(1 .. s.spent[p])
  BY <1>1, FS_Interval
<1>3. ASSUME NEW k \in 1 .. s.spent[p]
      PROVE  Chips(s, rk, p)[k] \in Int /\ Chips(s, rk, p)[k] = ChipShare(s, rk, p, k)
  <2>1. ChipShare(s, rk, p, k) \in Int
    <3>1. CASE p \in Shown(s, rk)
      BY <3>1, ChipsHaveWinners, ChipShareBounds
    <3>2. CASE p \notin Shown(s, rk)
      BY <3>2, HiddenLose, ScaleAssumption
    <3> QED BY <3>1, <3>2
  <2> QED BY <2>1 DEF Chips
<1> QED
  BY <1>1, <1>2, <1>3

(* One turn of the loop.                                                    *)
LEMMA LoopPaysChips ==
  ASSUME NEW s, NEW rk, Countable(s, rk), NEW p \in Players, ~s.playerFolded[p],
         NEW b \in Nat, b < s.spent[p]
  PROVE  /\ b + PotSize(s, b) \in b + 1 .. s.spent[p]
         /\ FromBase(s, rk, p)[b]
              = FromBase(s, rk, p)[b + PotSize(s, b)] + PotShare(s, rk, p, b)
<1> DEFINE n == s.spent[p]
           z == PotSize(s, b)
           f == Chips(s, rk, p)
           c == ChipShare(s, rk, p, b + 1)
<1>1. /\ n \in Nat /\ z \in Nat /\ z > 0 /\ b + z <= n
      /\ \A k \in b + 1 .. b + z : Payers(s, k) = Contenders(s, b)
  BY PotHasPayers DEF Countable
<1>2. \A k \in 1 .. n : f[k] \in Int /\ f[k] = ChipShare(s, rk, p, k)
  BY ChipsAreInts
<1>3. \A k \in b + 1 .. b + z : ChipShare(s, rk, p, k) = c
  <2>1. b + 1 \in b + 1 .. b + z
    BY <1>1
  <2> QED BY <1>1, <2>1 DEF ChipShare, Payers
<1>4. PotShare(s, rk, p, b) = c * z
  <2>1. Payers(s, b + 1) = Contenders(s, b)
    BY <1>1
  <2> QED BY <2>1, PotPaysChips
<1>5. FromBase(s, rk, p)[b] = Total(f, b + 1 .. n)
      /\ FromBase(s, rk, p)[b + z] = Total(f, b + z + 1 .. n)
  BY <1>1 DEF FromBase
<1> HIDE DEF n, z, f, c
<1> DEFINE D == b + 1 .. n
           E == b + 1 .. b + z
           R == b + z + 1 .. n
<1>6. /\ E \in SUBSET D /\ D \ E = R
      /\ \A k \in D : k \in 1 .. n
      /\ b + 1 \in 1 .. n /\ b + 1 \in E
  BY <1>1
<1>7. IsFiniteSet(D) /\ IsFiniteSet(E) /\ IsFiniteSet(R) /\ Cardinality(E) = z
  <2>1. IsFiniteSet(b + 1 .. n)
    BY <1>1, FS_Interval
  <2>2. Cardinality(b + 1 .. b + z) = (b + z) - (b + 1) + 1
    <3>1. b + 1 \in Int /\ b + z \in Int /\ b + 1 <= b + z
      BY <1>1
    <3> QED BY <3>1, FS_Interval
  <2> QED BY <1>1, <1>6, <2>1, <2>2, FS_Subset
<1> HIDE DEF D, E, R
<1>8. /\ \A k \in D : f[k] \in Int
      /\ \A k \in E : f[k] = c
      /\ \A k \in R : f[k] \in Int
  BY <1>2, <1>3, <1>6 DEF E
<1>9. c \in Int
  BY <1>6, <1>8
<1>10. Total(f, D) = Total(f, E) + Total(f, R)
  BY <1>6, <1>7, <1>8, TotalSplit
<1>11. Total(f, E) = c * z
  BY <1>7, <1>8, <1>9, TotalConstant
<1>12. Total(f, R) \in Int /\ c * z \in Int
  BY <1>1, <1>7, <1>8, <1>9, TotalIsInt
<1> QED
  BY <1>1, <1>4, <1>5, <1>10, <1>11, <1>12 DEF z, n, D, R

(* What the loop adds up is one share of every chip put in.                 *)
LEMMA SidePotsSum ==
  ASSUME NEW s, NEW rk, Countable(s, rk), NEW p \in Players, ~s.playerFolded[p]
  PROVE  SidePots(s, rk, p) = Total(Chips(s, rk, p), 1 .. s.spent[p])
<1> DEFINE n == s.spent[p]
           F == FromBase(s, rk, p)
           Loop(w) == [base \in 0 .. n |->
                         IF base = n THEN 0
                         ELSE w[base + PotSize(s, base)] + PotShare(s, rk, p, base)]
           w == Won(s, rk, p)
<1>1. n \in Nat /\ F = [b \in 0 .. n |-> F[b]]
  BY DEF Countable, FromBase
<1>2. F[n] = 0
  <2>1. n + 1 .. n = {} /\ n \in 0 .. n
    BY <1>1
  <2> QED BY <2>1, TotalEmpty DEF FromBase
<1>3. \A b \in 0 .. n : b # n => /\ b + PotSize(s, b) \in b + 1 .. n
                               /\ F[b] = F[b + PotSize(s, b)] + PotShare(s, rk, p, b)
  <2>1. ASSUME NEW b \in 0 .. n, b # n PROVE b \in Nat /\ b < s.spent[p]
    BY <1>1, <2>1
  <2> QED BY <2>1, LoopPaysChips
<1> HIDE DEF F
<1>4. F = Loop(F)
  BY <1>1, <1>2, <1>3
<1>5. w = Loop(w)
  <2>1. w = CHOOSE v : v = Loop(v)
    BY DEF Won
  <2> HIDE DEF w, Loop
  <2> QED BY <1>4, <2>1
<1> HIDE DEF w
<1> DEFINE I == {i \in Nat : \A b \in 0 .. n : n - b <= i => w[b] = F[b]}
<1>6. 0 \in I
  <2>1. ASSUME NEW b \in 0 .. n, n - b <= 0 PROVE b = n
    BY <1>1, <2>1
  <2>2. w[n] = 0
    BY <1>1, <1>5
  <2> QED BY <1>2, <2>1, <2>2
<1>7. ASSUME NEW i \in Nat, i \in I PROVE i + 1 \in I
  <2> SUFFICES ASSUME NEW b \in 0 .. n, n - b <= i + 1 PROVE w[b] = F[b]
    OBVIOUS
  <2>1. CASE b = n
    BY <1>6, <2>1
  <2>2. CASE b # n
    <3> DEFINE z == b + PotSize(s, b)
    <3>1. z \in b + 1 .. n /\ F[b] = F[z] + PotShare(s, rk, p, b)
      BY <1>3, <2>2
    <3>2. w[b] = w[z] + PotShare(s, rk, p, b)
      BY <1>5, <2>2
    <3> HIDE DEF z
    <3>3. z \in 0 .. n /\ n - z <= i
      BY <1>1, <3>1
    <3> QED BY <1>7, <3>1, <3>2, <3>3
  <2> QED BY <2>1, <2>2
<1> HIDE DEF I
<1>8. n \in I
  BY <1>1, <1>6, <1>7, Induction
<1>9. w[0] = F[0]
  BY <1>1, <1>8 DEF I
<1>10. F[0] = Total(Chips(s, rk, p), 1 .. n)
  BY <1>1 DEF F, FromBase
<1> QED
  BY <1>9, <1>10, SidePotsAreWon DEF w

-----------------------------------------------------------------------------
(***************************************************************************)
(* What a hand is worth to each player                                     *)
(***************************************************************************)
(* The chips of a hand that is not shown are lost, every one.               *)
LEMMA HiddenChips ==
  ASSUME NEW s, NEW rk, Countable(s, rk), NEW p \in Players, p \notin Shown(s, rk)
  PROVE  Total(Chips(s, rk, p), 1 .. s.spent[p]) = -(Scale * s.spent[p])
<1> DEFINE n == s.spent[p]
           f == Chips(s, rk, p)
<1>1. n \in Nat /\ -Scale \in Int /\ Scale \in Nat
  <2>1. n \in Nat
    BY DEF Countable
  <2> QED BY <2>1, ScaleAssumption
<1>2. \A k \in 1 .. n : f[k] = -Scale
  BY HiddenLose DEF Chips
<1>3. IsFiniteSet(1 .. n) /\ Cardinality(1 .. n) = n
  BY <1>1, UpTo
<1> HIDE DEF n, f
<1>4. Total(f, 1 .. n) = (-Scale) * Cardinality(1 .. n)
  BY <1>1, <1>2, <1>3, TotalConstant
<1>5. (-Scale) * n = -(Scale * n)
  BY <1>1
<1> QED
  BY <1>3, <1>4, <1>5 DEF n, f

(* A folded hand loses every chip it put in; any other gets its share.      *)
LEMMA ValueIsChips ==
  ASSUME NEW s, NEW rk, Countable(s, rk), NEW p \in Players,
         s.playerFolded[p] \/ NumFolded(s) + 1 # NumPlayers
  PROVE  ValueOfState(s, rk, p) = Total(Chips(s, rk, p), 1 .. s.spent[p])
<1>1. CASE ~s.playerFolded[p]
  <2>1. ValueOfState(s, rk, p) = SidePots(s, rk, p)
    BY <1>1 DEF ValueOfState
  <2> QED BY <1>1, <2>1, SidePotsSum
<1>2. CASE s.playerFolded[p]
  <2>1. ValueOfState(s, rk, p) = -(Scale * s.spent[p])
    BY <1>2 DEF ValueOfState
  <2>2. p \notin Shown(s, rk)
    BY <1>2, ShownIsIn
  <2> QED BY <2>1, <2>2, HiddenChips
<1> QED
  BY <1>1, <1>2

(* The last player in takes what the others put in.                         *)
LEMMA ValueOfTheLast ==
  ASSUME NEW s, NEW rk, Countable(s, rk), NEW p \in Players,
         ~s.playerFolded[p], NumFolded(s) + 1 = NumPlayers
  PROVE  /\ ValueOfState(s, rk, p) = Scale * Total(s.spent, Players \ {p})
         /\ Total(s.spent, Players \ {p}) \in Nat
<1> DEFINE R == Players \ {p}
           zero == [q \in R |-> 0]
<1>1. ValueOfState(s, rk, p) = Scale * Total(s.spent, R)
  BY SumOverIsTotal DEF ValueOfState
<1>2. IsFiniteSet(R) /\ \A q \in R : s.spent[q] \in Nat
  <2>1. R \in SUBSET Players /\ \A q \in Players : s.spent[q] \in Nat
    BY DEF Countable
  <2> QED BY <2>1, PlayersFinite, FS_Subset
<1>3. \A q \in R : zero[q] = 0
  OBVIOUS
<1> HIDE DEF R, zero
<1>4. Total(zero, R) = 0 * Cardinality(R) /\ Cardinality(R) \in Nat
  BY <1>2, <1>3, TotalConstant, FS_CardinalityType
<1>5. Total(s.spent, R) \in Int /\ Total(zero, R) <= Total(s.spent, R)
  BY <1>2, <1>3, TotalIsInt, TotalGrows
<1> QED
  BY <1>1, <1>4, <1>5 DEF R

(* Whatever a hand is worth, it is a whole number of units.                 *)
LEMMA ValueIsInt ==
  ASSUME NEW s, NEW rk, Countable(s, rk), NEW p \in Players
  PROVE  ValueOfState(s, rk, p) \in Int
<1>1. Scale \in Nat /\ s.spent[p] \in Nat
  BY ScaleAssumption DEF Countable
<1>2. CASE s.playerFolded[p]
  BY <1>1, <1>2 DEF ValueOfState
<1>3. CASE ~s.playerFolded[p] /\ NumFolded(s) + 1 = NumPlayers
  <2> DEFINE others == Total(s.spent, Players \ {p})
  <2>1. ValueOfState(s, rk, p) = Scale * others /\ others \in Nat
    BY <1>3, ValueOfTheLast
  <2> HIDE DEF others
  <2> QED BY <1>1, <2>1
<1>4. CASE ~s.playerFolded[p] /\ NumFolded(s) + 1 # NumPlayers
  <2>1. Total(Chips(s, rk, p), 1 .. s.spent[p]) \in Int
    BY <1>4, ChipsAreInts, TotalIsInt
  <2> QED BY <1>4, <2>1, ValueIsChips
<1> QED
  BY <1>2, <1>3, <1>4

=============================================================================
