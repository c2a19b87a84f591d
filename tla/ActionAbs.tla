----------------------------- MODULE ActionAbs ------------------------------
(***************************************************************************)
(* The abstract game's nodes (action_abs.cpp): the actions the engine      *)
(* thinks about in a state, and the children the betting tree gets there.  *)
(* Trees start from states of real hands, so the properties are asked of   *)
(* every state of Betting.                                                 *)
(*                                                                         *)
(* A ratio is a pair of naturals, or AllIn for the code's -1.  Actions are *)
(* compared by type and size; the code's sorting is left out.              *)
(***************************************************************************)
EXTENDS Betting

CONSTANTS
  ActionConfs,  \* Fcpa objects: raise_mode_, high_filter_ and raise_config_
  Similar       \* 100: two raises closer than this are one

AllIn == <<-1, 1>>

ASSUME ActionAbsAssumption ==
  /\ Similar \in Nat
  /\ \A c \in ActionConfs :
       /\ c.mode \in {"net", "after_call", "x", "net_or_x"}
       /\ \A i \in DOMAIN c.raises : c.raises[i].ratio \in (Nat \X (Nat \ {0})) \cup {AllIn}

Times(ratio, n) == (ratio[1] * n) \div ratio[2]

(* The blinds count as a raise before the flop.                             *)
WithEarlyRaiseAction(s) == s.round = 0 \/ NumRaises(s) > 0

Mode(s, c) ==
  IF c.mode # "net_or_x" THEN c.mode
  ELSE IF WithEarlyRaiseAction(s) THEN "x" ELSE "net"

Pot(s) == FoldFunction(+, 0, s.spent)

(* What p had put in before this round.                                     *)
Before(s, p) == IF s.round = 0 THEN 0 ELSE s.sumRoundSpent[s.round - 1][p]

RaiseIndices(s) == {i \in DOMAIN RoundLog(s) : RoundLog(s)[i].type = "raise"}
LastRaiser(s)   == RoundLog(s)[Max(RaiseIndices(s))].player

OnlyBlinds(s) ==
  s.round = 0 /\ (RoundLog(s) = << >> \/ (Len(RoundLog(s)) = 1 /\ RoundLog(s)[1].type = "call"))

(* GetRaiseBase leaves the program when the mode asks for a raise and there *)
(* is none: two players who limp are one too many for it.                   *)
HasRaiseBase(s, c) == RaiseIsValid(s) /\ Mode(s, c) = "x" => OnlyBlinds(s) \/ RaiseIndices(s) # {}

(* BigBlind(game) looks at the first two players only.                      *)
BlindOfTheFirstTwo == Larger(Blind[0], Blind[1])

GetRaiseBase(s, mode) ==
  CASE mode = "net"        -> Pot(s)
    [] mode = "after_call" -> Pot(s) + s.maxSpent - s.spent[CurrentPlayer(s)]
    [] mode = "x"          ->
         IF OnlyBlinds(s) THEN BlindOfTheFirstTwo
         ELSE s.sumRoundSpent[s.round][LastRaiser(s)] - Before(s, LastRaiser(s))

(* final_raise_size before it is adjusted.                                  *)
RaiseTo(s, mode, ratio) ==
  Times(ratio, GetRaiseBase(s, mode))
  + CASE mode = "net"        -> s.spent[CurrentPlayer(s)]
      [] mode = "after_call" -> s.maxSpent
      [] mode = "x"          -> Before(s, CurrentPlayer(s))

(* IsApplicable, by the raise's mode and the number of the action.          *)
Applicable(s, c) ==
  {i \in DOMAIN c.raises : /\ c.raises[i].mode = Mode(s, c)
                           /\ Len(RoundLog(s)) \in c.raises[i].begin .. c.raises[i].end}

(* Mutant: a raise below the minimum is kept as it is.                      *)
AdjustedUnclamped(s, size) == Smaller(size, MaxRaiseTo(s))
Adjusted(s, size) == Smaller(Larger(size, MinRaiseTo(s)), MaxRaiseTo(s))

(* The configured raises in order, up to the first that takes everything;   *)
(* a raise that is nearly all-in is dropped.                                *)
Raises(s, c) ==
  LET allIn == {i \in Applicable(s, c) : c.raises[i].ratio = AllIn}
      to(i) == RaiseTo(s, Mode(s, c), c.raises[i].ratio)
      ends  == {i \in Applicable(s, c) \ allIn : to(i) >= MaxRaiseTo(s)}
      kept(i) == \/ i \in allIn \cup ends
                 \/ Adjusted(s, to(i)) * c.filter[2] < c.filter[1] * MaxRaiseTo(s)
  IN  {IF i \in allIn THEN MaxRaiseTo(s) ELSE Adjusted(s, to(i)) :
         i \in {k \in Applicable(s, c) : kept(k) /\ \A e \in ends : k <= e}}

a_fold == [type |-> "fold", size |-> 0]
a_call == [type |-> "call", size |-> 0]

(* isValidAction = 1: a fold by a player who owes nothing is premature.     *)
FoldIsSensible(s) ==
  LET p == CurrentPlayer(s) IN s.spent[p] # s.maxSpent /\ s.spent[p] # s.stackPlayer[p]

(* Mutant: a call only when there is something to call.                     *)
PassiveActionsWhenFacingBet(s) ==
  {a \in {a_fold, a_call} : IsValidAction(s, FALSE, a) /\ FoldIsSensible(s)}
PassiveActions(s) ==
  {a \in {a_fold, a_call} : IsValidAction(s, FALSE, a) /\ (a = a_fold => FoldIsSensible(s))}

GetCandidateActions(s, c) ==
  PassiveActions(s)
  \cup IF RaiseIsValid(s) THEN {[type |-> "raise", size |-> n] : n \in Raises(s, c)} ELSE {}

Distance(a, b) == Larger(a.size, b.size) - Smaller(a.size, b.size)

(* The actions of BuildBettingTreeInner's recursion, where the hand that is *)
(* forced into the tree goes on with the actions in forced, none or one.    *)
Children(s, c, forced) ==
  LET candidates == GetCandidateActions(s, c)
      tooClose(f) == IF f.type = "raise" /\ f \notin candidates
                     THEN {a \in candidates : Distance(a, f) < Similar} ELSE {}
  IN  (candidates \ UNION {tooClose(f) : f \in forced}) \cup forced

-----------------------------------------------------------------------------
(* The actions a real hand may go on with.                                  *)
RealActions(s) ==
  {FixedAction(s, a) : a \in {b \in {a_fold, a_call} \cup [type : {"raise"}, size : RaiseSizes] :
                                IsValidAction(s, TRUE, b)}}

ForcedActions(s) == {{}} \cup {{a} : a \in RealActions(s)}

(* "calling should always be an available action" (action_abs.cpp:194): in  *)
(* no state does the configuration, or making room for what the opponent    *)
(* did, take the call out of the tree.                                      *)
CallIsAChild ==
  ~state.finished =>
    \A c \in ActionConfs : HasRaiseBase(state, c) =>
      \A forced \in ForcedActions(state) : a_call \in Children(state, c, forced)

(* The tree is built with doAction and no check: every raise a ratio yields *)
(* is one isValidAction accepts as it is, and the raise base it comes from  *)
(* is more than nothing.                                                    *)
ChildrenArePlayable ==
  ~state.finished =>
    \A c \in ActionConfs : HasRaiseBase(state, c) =>
      /\ RaiseIsValid(state) => GetRaiseBase(state, Mode(state, c)) > 0
      /\ \A a \in Children(state, c, {}) : IsValidAction(state, FALSE, a)
=============================================================================
