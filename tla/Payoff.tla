------------------------------- MODULE Payoff -------------------------------
(***************************************************************************)
(* What a finished hand is worth to each player: valueOfState of           *)
(* src/modules/core/src/game.c, with its loop over the side pots.  Hole    *)
(* and board cards are abstracted to the rank each hand has at the         *)
(* showdown (rankHand), -1 where the hole cards are not known ("mucked").  *)
(***************************************************************************)
EXTENDS Game

CONSTANT Scale   \* chips are counted in 1/Scale units so that split pots stay exact

ASSUME ScaleAssumption ==
  Scale \in Nat /\ \A n \in 1 .. NumPlayers : Scale % n = 0

Unfolded(s) == Players \ Folded(s)

(* The hands that can win: a player may be in without showing its cards.    *)
Shown(s, rk) == {p \in Unfolded(s) : rk[p] >= 0}

SumOver(f, S) == MapThenSumSet(LAMBDA p : f[p], S)

(* Mutants: a tie does not split the pot; a folded hand still competes; the *)
(* pot is as large as the player's own stake.                               *)
SidePotsMutant(s, rk, p, foldRank, tie, own) ==
  LET handRank(q) == IF s.playerFolded[q] /\ foldRank THEN -1 ELSE rk[q]
      won[base \in 0 .. s.spent[p]] ==
        IF base = s.spent[p] THEN 0
        ELSE LET contenders == {q \in Players : s.spent[q] > base}
                 size       == IF own THEN s.spent[p] - base
                               ELSE Min({s.spent[q] - base : q \in contenders})
                 winRank    == Max({0} \cup {handRank(q) : q \in contenders})
                 winners    == {q \in contenders : handRank(q) = winRank}
                 shares     == IF tie THEN Cardinality(winners) ELSE 1
             IN  won[base + size]
                 + IF p \in winners
                   THEN (Scale * size * (Cardinality(contenders) - shares)) \div shares
                   ELSE -(Scale * size)
  IN  won[0]
SidePotsNoSplit(s, rk, p)     == SidePotsMutant(s, rk, p, TRUE, FALSE, FALSE)
SidePotsFoldedPlays(s, rk, p) == SidePotsMutant(s, rk, p, FALSE, TRUE, FALSE)
SidePotsOwnStake(s, rk, p)    == SidePotsMutant(s, rk, p, TRUE, TRUE, TRUE)

(* The loop of valueOfState for player p, from the side pot that starts at  *)
(* base chips a head on: the smallest remaining stake closes the pot, the   *)
(* best rank in it (a folded or mucked hand counts as -1) takes it.         *)
SidePots(s, rk, p) ==
  LET handRank(q) == IF s.playerFolded[q] THEN -1 ELSE rk[q]
      won[base \in 0 .. s.spent[p]] ==
        IF base = s.spent[p] THEN 0
        ELSE LET contenders == {q \in Players : s.spent[q] > base}
                 size       == Min({s.spent[q] - base : q \in contenders})
                 winRank    == Max({0} \cup {handRank(q) : q \in contenders})
                 winners    == {q \in contenders : handRank(q) = winRank}
                 losers     == Cardinality(contenders) - Cardinality(winners)
             IN  won[base + size]
                 + IF p \in winners
                   THEN (Scale * size * losers) \div Cardinality(winners)
                   ELSE -(Scale * size)
  IN  won[0]

(* valueOfState for player p, in 1/Scale chips.                             *)
ValueOfState(s, rk, p) ==
  CASE s.playerFolded[p] -> -(Scale * s.spent[p])
    [] ~s.playerFolded[p] /\ NumFolded(s) + 1 = NumPlayers ->
         Scale * SumOver(s.spent, Players \ {p})
    [] ~s.playerFolded[p] /\ NumFolded(s) + 1 # NumPlayers ->
         SidePots(s, rk, p)

(* What the rules of table stakes give p for its k-th chip: the k-th chips  *)
(* of all who put in k go, in equal parts, to the best hands shown by these *)
(* players.                                                                 *)
ChipShare(s, rk, p, k) ==
  LET payers == {q \in Players : s.spent[q] >= k}
      shown  == payers \cap Shown(s, rk)
      best   == {q \in shown : \A o \in shown : rk[o] <= rk[q]}
  IN  IF p \in best THEN (Scale * Cardinality(payers)) \div Cardinality(best) - Scale
                    ELSE -Scale

=============================================================================
