---------------------------- MODULE DealerProofs ----------------------------
(***************************************************************************)
(* Proofs about Dealer for any game, any number of hands and any limits:   *)
(* at every moment the transaction log recreates the match the dealer is   *)
(* playing, a new dealer accepts it, restarts give no time back, the log   *)
(* of the hands adds up to the totals, and the match the log holds is one  *)
(* uninterrupted match.                                                    *)
(***************************************************************************)
EXTENDS Dealer, GameProofs

(* processTransactionFile is a loop over the lines of the file.             *)
Recovery == INSTANCE FoldProofs WITH Op <- RecoverOne

USE DEF Players, Rounds, Seats

-----------------------------------------------------------------------------
(***************************************************************************)
(* Recovery, a line at a time                                              *)
(***************************************************************************)
Line == [action : Action, handId : Nat, micros : Int]

NothingRead == [ok |-> TRUE, match |-> FirstMatch, errs |-> NoErrs]

(* Recover is the function FoldProofs folds with, which its theorems are    *)
(* about.                                                                   *)
LEMMA RecoverIsFold ==
  ASSUME NEW lines
  PROVE  /\ \A base : FoldLeft(RecoverOne, base, lines) = Recovery!Fold(base, lines)
         /\ Recover(lines) = Recovery!Fold(NothingRead, lines)
<1>1. \A t : Max(t) = Recovery!Top(t)
  BY DEF Max, Recovery!Top
<1>2. ASSUME NEW base PROVE FoldLeft(RecoverOne, base, lines) = Recovery!Fold(base, lines)
  BY <1>1 DEF FoldLeft, MapThenFoldSet, Recovery!Fold, Recovery!FoldFun
<1>3. Recover(lines) = FoldLeft(RecoverOne, NothingRead, lines)
  BY DEF Recover, NothingRead
<1> QED
  BY <1>2, <1>3

(* A new log recovers the first match.                                      *)
LEMMA RecoverNothing == Recover(<< >>) = NothingRead
  BY RecoverIsFold, Recovery!FoldEmpty

(* A line more is read after the lines before it.                           *)
LEMMA RecoverLine ==
  ASSUME NEW lines \in Seq(Line), NEW e \in Line
  PROVE  Recover(Append(lines, e)) = RecoverOne(Recover(lines), e)
<1>1. /\ Recover(lines) = Recovery!Fold(NothingRead, lines)
      /\ Recover(Append(lines, e)) = Recovery!Fold(NothingRead, Append(lines, e))
  BY RecoverIsFold
<1>2. Recovery!Fold(NothingRead, Append(lines, e))
        = RecoverOne(Recovery!Fold(NothingRead, lines), e)
  BY Recovery!FoldAppend
<1> QED
  BY <1>1, <1>2

(* A single line is read from wherever the replay has come to.              *)
LEMMA RecoverOneLine ==
  ASSUME NEW r, NEW e \in Line
  PROVE  FoldLeft(RecoverOne, r, Append(<< >>, e)) = RecoverOne(r, e)
<1>1. << >> \in Seq(Line)
  OBVIOUS
<1>2. Recovery!Fold(r, Append(<< >>, e)) = RecoverOne(Recovery!Fold(r, << >>), e)
  BY <1>1, Recovery!FoldAppend
<1>3. FoldLeft(RecoverOne, r, Append(<< >>, e)) = Recovery!Fold(r, Append(<< >>, e))
  BY RecoverIsFold
<1> QED
  BY <1>2, <1>3, Recovery!FoldEmpty

-----------------------------------------------------------------------------
(***************************************************************************)
(* The locals of gameLoop, and what each step makes of them                *)
(***************************************************************************)
Good(m) ==
  /\ m = [hand |-> m.hand, player0Seat |-> m.player0Seat, dealt |-> m.dealt, total |-> m.total]
  /\ m.player0Seat \in Players
  /\ HandChips(m.hand) /\ m.hand.stackPlayer = TableStack
  /\ Later(m.hand)

(* The game is one that can be played: a stack for every player, and one    *)
(* with chips behind its blind.                                             *)
GameIsPlayable == Stacks # {} /\ PlayableStacks

(* A hand just dealt.                                                       *)
LEMMA DealtHand ==
  ASSUME GameIsPlayable, NEW h \in Nat, NEW i, i = InitState(h, TableStack)
  PROVE  HandChips(i) /\ i.stackPlayer = TableStack /\ ~i.finished /\ i.handId = h /\ Later(i)
<1>1. TableStack \in Stacks
  BY DEF GameIsPlayable, TableStack
<1>2. i.handId = h
  BY DEF InitState
<1> QED
  BY <1>1, <1>2, InitStateEffect, NoBettingYet DEF HandChips, GameIsPlayable

(* What a dealer starts from when the log is empty.                         *)
LEMMA FirstMatchIsGood ==
  ASSUME GameIsPlayable
  PROVE  Good(FirstMatch) /\ ~FirstMatch.hand.finished /\ FirstMatch.hand.handId = 0
<1> DEFINE i == InitState(0, TableStack)
<1>1. HandChips(i) /\ i.stackPlayer = TableStack /\ ~i.finished /\ i.handId = 0 /\ Later(i)
  BY DealtHand
<1>2. 0 \in Players
  BY Sizes
<1>3. FirstMatch = [hand |-> i, player0Seat |-> 0, dealt |-> 0,
                    total |-> [seat \in Seats |-> 0]]
  BY DEF FirstMatch
<1> HIDE DEF i
<1> QED
  BY <1>1, <1>2, <1>3 DEF Good

(* The acting seat is one of the table's.                                   *)
LEMMA ActingSeatIsASeat ==
  ASSUME NEW m, Good(m), ~m.hand.finished
  PROVE  ActingSeat(m) \in Seats
<1>1. CurrentPlayer(m.hand) \in Players
  BY TurnIsAnActingPlayers DEF Good, HandChips, Acting
<1>2. CurrentPlayer(m.hand) + m.player0Seat \in Nat
  BY <1>1, Sizes DEF Good
<1> QED
  BY <1>2, ModRange, Sizes DEF ActingSeat, PlayerToSeat

(* A playable action leaves the seats, the cards and the totals alone.      *)
LEMMA PlayedMatch ==
  ASSUME NEW m, Good(m), NEW f, Playable(m.hand, f), NEW t, t = DoHandAction(m, f)
  PROVE  /\ Good(t) /\ t.hand = DoAction(m.hand, f) /\ t.hand.handId = m.hand.handId
         /\ t.player0Seat = m.player0Seat /\ t.dealt = m.dealt /\ t.total = m.total
<1> DEFINE h == DoAction(m.hand, f)
<1>1. HandChips(h) /\ h.handId = m.hand.handId /\ h.stackPlayer = m.hand.stackPlayer /\ Later(h)
  BY PlayedHand, PlayedBetting DEF Good
<1>2. t = [hand |-> h, player0Seat |-> m.player0Seat, dealt |-> m.dealt, total |-> m.total]
  <2>1. t = [m EXCEPT !.hand = h]
    BY DEF DoHandAction
  <2> HIDE DEF h
  <2> QED BY <2>1 DEF Good
<1> HIDE DEF h
<1>3. Good(t) /\ t.hand = h
  BY <1>1, <1>2 DEF Good
<1> QED
  BY <1>1, <1>2, <1>3 DEF h

(* The next hand is dealt.                                                  *)
LEMMA NextMatch ==
  ASSUME GameIsPlayable, NEW m, Good(m), NEW t, t = SetUpNewHand(m)
  PROVE  Good(t) /\ ~t.hand.finished /\ t.hand.handId = m.hand.handId + 1
<1> DEFINE i == InitState(m.hand.handId + 1, TableStack)
           z == IF FixedSeats THEN m.player0Seat ELSE (m.player0Seat + 1) % NumPlayers
<1>1. /\ HandChips(i) /\ i.stackPlayer = TableStack /\ ~i.finished
      /\ i.handId = m.hand.handId + 1 /\ Later(i)
  <2>1. m.hand.handId + 1 \in Nat
    BY DEF Good, HandChips, State
  <2> QED BY <2>1, DealtHand
<1>2. z \in Players
  <2>1. m.player0Seat \in Players /\ m.player0Seat + 1 \in Nat
    BY Sizes DEF Good
  <2> QED BY <2>1, Sizes, ModRange
<1>3. t = [hand |-> i, player0Seat |-> z, dealt |-> m.dealt + 1, total |-> m.total]
  <2>1. t = [m EXCEPT !.hand = i, !.player0Seat = z, !.dealt = m.dealt + 1]
    BY DEF SetUpNewHand, Good
  <2> HIDE DEF i, z
  <2> QED BY <2>1 DEF Good
<1> HIDE DEF i, z
<1> QED
  BY <1>1, <1>2, <1>3 DEF Good

(* The values of a hand only change the totals.                             *)
LEMMA ValuedMatch ==
  ASSUME NEW m, Good(m), NEW t, t = AddValues(m)
  PROVE  Good(t) /\ t.hand = m.hand
<1> DEFINE n == [seat \in Seats |-> m.total[seat] + Value(m, SeatToPlayer(m, seat))]
<1>1. t = [m EXCEPT !.total = n]
  BY DEF AddValues, Good
<1> HIDE DEF n
<1>2. t = [hand |-> m.hand, player0Seat |-> m.player0Seat, dealt |-> m.dealt, total |-> n]
  BY <1>1 DEF Good
<1> QED
  BY <1>2 DEF Good

(* A hand is never left over in what the log recreates.                     *)
LEMMA CompletedMatch ==
  ASSUME GameIsPlayable, NEW m, Good(m), NEW t, t = Completed(m)
  PROVE  Good(t) /\ ~t.hand.finished
  BY ValuedMatch, NextMatch DEF Completed

-----------------------------------------------------------------------------
(***************************************************************************)
(* The error counters                                                      *)
(***************************************************************************)
Counters == [Seats -> Nat]
ErrInfo  == [invalid : Counters, usedHand : Counters, usedMatch : Counters]

WithinLimits(e) ==
  \A seat \in Seats : e.usedHand[seat] <= MaxUsedHand /\ e.usedMatch[seat] <= MaxUsedMatch

NoTime == [seat \in Seats |-> 0]

(* Nobody has used any time yet.                                            *)
LEMMA NoErrsYet == NoErrs \in ErrInfo /\ WithinLimits(NoErrs)
<1>1. 0 <= MaxUsedHand /\ 0 <= MaxUsedMatch
  BY DealerAssumption
<1> QED
  BY <1>1 DEF NoErrs, ErrInfo, Counters, WithinLimits

(* One counter goes up.                                                     *)
LEMMA CountedUp ==
  ASSUME NEW f \in Counters, NEW s \in Seats, NEW n \in Nat
  PROVE  [f EXCEPT ![s] = f[s] + n] \in Counters
  BY DEF Counters

(* What checkErrorTimes changes, and that the limits hold if it found them  *)
(* kept.                                                                    *)
LEMMA ChargedTime ==
  ASSUME NEW k \in ErrInfo, NEW s \in Seats, NEW i \in Int, NEW c, c = Charged(k, s, i),
         NEW n, n = Larger(0, i)
  PROVE  /\ c \in ErrInfo /\ c.invalid = k.invalid /\ n \in Nat
         /\ c.usedHand = [k.usedHand EXCEPT ![s] = k.usedHand[s] + n]
         /\ c.usedMatch = [k.usedMatch EXCEPT ![s] = k.usedMatch[s] + n]
         /\ (InTime(k, s, i) /\ WithinLimits(k)) => WithinLimits(c)
<1>0. n \in Nat /\ (i < 0 => n = 0) /\ (~(i < 0) => n = i)
  BY DEF Larger
<1>1. /\ k = [invalid |-> k.invalid, usedHand |-> k.usedHand, usedMatch |-> k.usedMatch]
      /\ k.invalid \in Counters /\ k.usedHand \in Counters /\ k.usedMatch \in Counters
  BY DEF ErrInfo
<1> DEFINE h == [k.usedHand EXCEPT ![s] = k.usedHand[s] + n]
           u == [k.usedMatch EXCEPT ![s] = k.usedMatch[s] + n]
<1>2. h \in Counters /\ u \in Counters
  BY <1>0, <1>1, CountedUp
<1>3. c = [k EXCEPT !.usedHand = h, !.usedMatch = u]
  BY <1>1 DEF Charged
<1>4. ASSUME InTime(k, s, i), WithinLimits(k), NEW seat \in Seats
      PROVE  h[seat] <= MaxUsedHand /\ u[seat] <= MaxUsedMatch
  <2>1. /\ k.usedHand[s] + n <= MaxUsedHand /\ k.usedMatch[s] + n <= MaxUsedMatch
    <3>1. k.usedHand[s] \in Nat /\ k.usedMatch[s] \in Nat
      BY <1>1 DEF Counters
    <3>2. CASE i < 0
      BY <1>0, <1>4, <3>1, <3>2 DEF WithinLimits
    <3>3. CASE ~(i < 0)
      BY <1>0, <1>4, <3>1, <3>3 DEF InTime
    <3> QED BY <3>2, <3>3
  <2> QED BY <1>1, <1>4, <2>1 DEF WithinLimits, Counters
<1> HIDE DEF h, u
<1>5. c = [invalid |-> k.invalid, usedHand |-> h, usedMatch |-> u]
  BY <1>1, <1>3
<1>6. c \in ErrInfo /\ c.invalid = k.invalid /\ c.usedHand = h /\ c.usedMatch = u
  BY <1>1, <1>2, <1>5 DEF ErrInfo
<1> QED
  BY <1>0, <1>4, <1>6 DEF WithinLimits, h, u

(* Time charged within the limits leaves them kept.                         *)
LEMMA ChargedInTime ==
  ASSUME NEW k \in ErrInfo, NEW s \in Seats, NEW n \in Int,
         InTime(k, s, n), WithinLimits(k)
  PROVE  WithinLimits(Charged(k, s, n))
  BY ChargedTime

(* A bad action costs no time of its own.                                   *)
LEMMA CountedInvalid ==
  ASSUME NEW k \in ErrInfo, NEW s \in Seats, NEW c, c = OneMoreInvalid(k, s)
  PROVE  c \in ErrInfo /\ c.usedHand = k.usedHand /\ c.usedMatch = k.usedMatch
<1>1. /\ k = [invalid |-> k.invalid, usedHand |-> k.usedHand, usedMatch |-> k.usedMatch]
      /\ k.invalid \in Counters /\ k.usedHand \in Counters /\ k.usedMatch \in Counters
  BY DEF ErrInfo
<1> DEFINE i == [k.invalid EXCEPT ![s] = k.invalid[s] + 1]
<1>2. i \in Counters
  BY <1>1, CountedUp
<1>3. c = [k EXCEPT !.invalid = i]
  BY <1>1 DEF OneMoreInvalid
<1> HIDE DEF i
<1>4. c = [invalid |-> i, usedHand |-> k.usedHand, usedMatch |-> k.usedMatch]
  BY <1>1, <1>3
<1> QED
  BY <1>1, <1>2, <1>4 DEF ErrInfo

(* A new hand gives every seat its time for the hand back.                  *)
LEMMA FreshHandTime ==
  ASSUME NEW k \in ErrInfo, NEW c, c = NewHandErrs(k)
  PROVE  /\ c \in ErrInfo /\ c.usedHand = NoTime /\ c.usedMatch = k.usedMatch
         /\ (WithinLimits(k) => WithinLimits(c))
<1>1. /\ k = [invalid |-> k.invalid, usedHand |-> k.usedHand, usedMatch |-> k.usedMatch]
      /\ k.invalid \in Counters /\ k.usedHand \in Counters /\ k.usedMatch \in Counters
  BY DEF ErrInfo
<1>2. c = [k EXCEPT !.usedHand = NoTime]
  BY DEF NewHandErrs, NoTime
<1>3. NoTime \in Counters
  BY DEF NoTime, Counters
<1>4. c = [invalid |-> k.invalid, usedHand |-> NoTime, usedMatch |-> k.usedMatch]
  BY <1>1, <1>2
<1>5. c \in ErrInfo /\ c.usedHand = NoTime /\ c.usedMatch = k.usedMatch
  BY <1>1, <1>3, <1>4 DEF ErrInfo
<1>6. \A seat \in Seats : NoTime[seat] <= MaxUsedHand
  BY DealerAssumption DEF NoTime
<1> QED
  BY <1>5, <1>6 DEF WithinLimits

(***************************************************************************)
(* A good line, as processTransactionFile takes it                         *)
(***************************************************************************)
IsRecovery(r) == r = [ok |-> r.ok, match |-> r.match, errs |-> r.errs]

(* A line that fits the recovered match is accepted and played.             *)
LEMMA GoodLine ==
  ASSUME NEW r, IsRecovery(r), r.ok, Good(r.match), ~r.match.hand.finished,
         r.errs \in ErrInfo, WithinLimits(r.errs),
         NEW e \in Line, e.handId = r.match.hand.handId, Playable(r.match.hand, e.action),
         NEW s, s = ActingSeat(r.match), InTime(r.errs, s, e.micros),
         NEW t, t = RecoverOne(r, e)
  PROVE  /\ IsRecovery(t) /\ t.ok
         /\ t.match = Completed(DoHandAction(r.match, e.action))
         /\ t.errs = IF DoAction(r.match.hand, e.action).finished
                     THEN NewHandErrs(Charged(r.errs, s, e.micros))
                     ELSE Charged(r.errs, s, e.micros)
         /\ t.errs \in ErrInfo /\ WithinLimits(t.errs)
<1> DEFINE new == DoHandAction(r.match, e.action)
           c   == Charged(r.errs, s, e.micros)
           f   == IF new.hand.finished THEN NewHandErrs(c) ELSE c
<1>1. t = [ok |-> TRUE, match |-> Completed(new), errs |-> f]
  BY DEF RecoverOne, Playable
<1>2. new.hand = DoAction(r.match.hand, e.action)
  BY PlayedMatch
<1>3. c \in ErrInfo /\ WithinLimits(c)
  <2>1. s \in Seats /\ e.micros \in Int
    BY ActingSeatIsASeat DEF Line
  <2> QED BY <2>1, ChargedTime, ChargedInTime
<1> HIDE DEF c, new
<1>4. f \in ErrInfo /\ WithinLimits(f)
  BY <1>3, FreshHandTime
<1>5. f = IF DoAction(r.match.hand, e.action).finished THEN NewHandErrs(c) ELSE c
  BY <1>2
<1> HIDE DEF f
<1>6. IsRecovery(t) /\ t.ok /\ t.match = Completed(new) /\ t.errs = f
  BY <1>1 DEF IsRecovery
<1> QED
  BY <1>4, <1>5, <1>6 DEF c, new

-----------------------------------------------------------------------------
(***************************************************************************)
(* The inductive invariant of the running and the logged match             *)
(***************************************************************************)
Phases == {"down", "send", "wait", "log", "do", "score", "final", "next", "done"}

(* A player's line is read once and gone: at most one is on its way, whole  *)
(* or begun.                                                                *)
Mailbox(box) == box = << >> \/ (box = <<Head(box)>> /\ Head(box).action \in Requests)

TypesInv ==
  /\ phase \in Phases /\ toSend \in Seats /\ elapsed \in Int
  /\ errs \in ErrInfo
  /\ inbox = [seat \in Seats |-> inbox[seat]] /\ \A seat \in Seats : Mailbox(inbox[seat])
  /\ Mailbox(half) /\ (half # << >> => phase = "wait" /\ inbox[Seat] = << >>)
  /\ tlog \in Seq(Line)

InPlay == {"send", "wait", "log", "do"}
Over   == {"score", "final", "next"}

MatchInv ==
  /\ Good(match)
  /\ phase \in InPlay => ~match.hand.finished
  /\ phase \in Over => match.hand.finished
  /\ phase \in InPlay \cup Over => ~MatchOver(match)
  /\ phase \in {"log", "do"} => /\ Playable(match.hand, pending.action)
                                /\ pending.action \in Actions /\ pending.micros \in Int

(* The stamps may be read as anything: as long as the lines are accepted,   *)
(* they lead to the match that the log was written for.                     *)
Alike(lines, others) ==
  /\ Len(lines) = Len(others)
  /\ \A i \in 1 .. Len(lines) :
       lines[i].action = others[i].action /\ lines[i].handId = others[i].handId

LeadsTo(r, m) ==
  /\ IsRecovery(r)
  /\ r.ok => r.match = m /\ r.errs \in ErrInfo /\ WithinLimits(r.errs)

ReadsAlike ==
  \A lines \in Seq(Line) : Alike(lines, tlog) => LeadsTo(Recover(lines), recovered.match)

RecoveryInv ==
  /\ IsRecovery(recovered) /\ recovered.ok
  /\ Good(recovered.match) /\ ~recovered.match.hand.finished
  /\ recovered.errs \in ErrInfo /\ WithinLimits(recovered.errs)
  /\ RecoveryAgrees
  /\ ReadsAlike

(* Time charged to the acting seat for an action that is not yet logged.    *)
Due(seat) == IF phase = "log" /\ seat = Seat THEN Larger(0, pending.micros) ELSE 0

(* The log has the last action of a hand.                                   *)
HandIsLogged ==
  phase \in Over \/ (phase = "do" /\ DoAction(match.hand, pending.action).finished)

ClockInv ==
  /\ phase # "down" =>
       /\ WithinLimits(errs)
       /\ \A seat \in Seats :
            /\ recovered.errs.usedHand[seat] + Due(seat) <= errs.usedHand[seat]
            /\ recovered.errs.usedMatch[seat] + Due(seat) <= errs.usedMatch[seat]
  /\ phase = "log" => pending.micros <= MaxResponse
  /\ HandIsLogged => recovered.errs.usedHand = NoTime

DealerInv == TypesInv /\ MatchInv /\ RecoveryInv /\ ClockInv

-----------------------------------------------------------------------------
(* Before the first dealer is started.                                      *)
LEMMA InitInv ==
  ASSUME GameIsPlayable, DealerInit
  PROVE  DealerInv
<1>1. TypesInv
  <2>1. 0 \in Seats
    BY Sizes
  <2>2. << >> \in Seq(Line)
    OBVIOUS
  <2> QED BY <2>1, <2>2, NoErrsYet DEF DealerInit, TypesInv, Phases, Mailbox
<1>2. MatchInv
  BY FirstMatchIsGood DEF DealerInit, MatchInv, InPlay, Over
<1>3. RecoveryInv
  <2>1. recovered = NothingRead /\ phase = "down" /\ tlog = << >>
    BY RecoverNothing DEF DealerInit
  <2>2. IsRecovery(NothingRead)
    BY DEF NothingRead, IsRecovery
  <2>3. ReadsAlike
    <3>1. \A lines \in Seq(Line) : Alike(lines, << >>) => lines = << >>
      BY DEF Alike
    <3>2. LeadsTo(NothingRead, FirstMatch)
      BY <2>2, NoErrsYet DEF LeadsTo, NothingRead
    <3>3. recovered.match = FirstMatch
      BY <2>1 DEF NothingRead
    <3> QED BY <2>1, <3>1, <3>2, <3>3, RecoverNothing DEF ReadsAlike
  <2> QED BY <2>1, <2>2, <2>3, FirstMatchIsGood, NoErrsYet
          DEF RecoveryInv, NothingRead, RecoveryAgrees
<1>4. ClockInv
  BY DEF DealerInit, ClockInv, HandIsLogged, Over
<1> QED
  BY <1>1, <1>2, <1>3, <1>4 DEF DealerInv

(* A dealer that stops leaves the log.                                      *)
LEMMA StopInv ==
  ASSUME GameIsPlayable, DealerInv, Stop
  PROVE  DealerInv'
<1>1. TypesInv'
  <2>1. 0 \in Seats
    BY Sizes
  <2> QED BY <2>1, NoErrsYet DEF Stop, DealerInv, TypesInv, Phases, Mailbox, fileVars
<1>2. MatchInv'
  BY FirstMatchIsGood DEF Stop, MatchInv, InPlay, Over
<1>3. RecoveryInv'
  BY DEF Stop, DealerInv, RecoveryInv, RecoveryAgrees, ReadsAlike, fileVars
<1>4. ClockInv'
  BY DEF Stop, ClockInv, HandIsLogged, Over
<1> QED
  BY <1>1, <1>2, <1>3, <1>4 DEF DealerInv

(* Stamps read as costing nothing are stamps.                               *)
LEMMA UnchargedIsAlike ==
  ASSUME NEW lines \in Seq(Line)
  PROVE  Uncharged(lines) \in Seq(Line) /\ Alike(Uncharged(lines), lines) /\ Alike(lines, lines)
<1> DEFINE u == Uncharged(lines)
           n == Len(lines)
<1>1. n \in Nat /\ DOMAIN lines = 1 .. n
  OBVIOUS
<1>2. ASSUME NEW i \in 1 .. n
      PROVE  u[i] \in Line /\ u[i].action = lines[i].action /\ u[i].handId = lines[i].handId
  <2>1. lines[i] \in Line
    BY <1>2
  <2>2. lines[i] = [action |-> lines[i].action, handId |-> lines[i].handId,
                    micros |-> lines[i].micros]
    BY <2>1 DEF Line
  <2>3. u[i] = [lines[i] EXCEPT !.micros = -1]
    BY <1>1 DEF Uncharged
  <2>4. u[i] = [action |-> lines[i].action, handId |-> lines[i].handId, micros |-> -1]
    BY <2>2, <2>3
  <2> QED BY <2>1, <2>4 DEF Line
<1>3. u = [i \in 1 .. n |-> u[i]]
  BY <1>1 DEF Uncharged
<1> HIDE DEF u
<1>4. u \in Seq(Line) /\ Len(u) = n
  BY <1>1, <1>2, <1>3
<1> QED
  BY <1>1, <1>2, <1>4 DEF Alike, u

(* What a new dealer reads is accepted, and leads to the logged match.      *)
LEMMA StartEffect ==
  ASSUME DealerInv, Start
  PROVE  /\ phase = "down" /\ match' = recovered.match /\ recovered'.match = recovered.match
         /\ errs' = recovered'.errs /\ recovered'.errs \in ErrInfo
         /\ IsRecovery(recovered') /\ recovered'.ok /\ WithinLimits(recovered'.errs)
         /\ phase' = IF MatchOver(recovered.match) THEN "done" ELSE "send"
         /\ starts' = starts + 1
         /\ UNCHANGED <<toSend, pending, elapsed, inbox, half, seen, strays, tlog, log>>
<1>1. PICK lines \in {tlog, Uncharged(tlog)} :
        LET r == Recover(lines)
        IN  /\ r.ok
            /\ match' = r.match /\ errs' = r.errs /\ recovered' = r
            /\ phase' = IF MatchOver(r.match) THEN "done" ELSE "send"
  BY DEF Start
<1>2. tlog \in Seq(Line)
  BY DEF DealerInv, TypesInv
<1>3. lines \in Seq(Line) /\ Alike(lines, tlog)
  BY <1>2, UnchargedIsAlike
<1>4. LeadsTo(Recover(lines), recovered.match)
  BY <1>3 DEF DealerInv, RecoveryInv, ReadsAlike
<1> QED
  BY <1>1, <1>4 DEF LeadsTo, Start, clockVars, socketVars

(* A new dealer goes on from what the log recreates.                        *)
LEMMA StartInv ==
  ASSUME GameIsPlayable, DealerInv, Start
  PROVE  DealerInv'
<1>1. /\ match' = recovered.match /\ recovered'.match = recovered.match
      /\ errs' = recovered'.errs /\ recovered'.errs \in ErrInfo
      /\ IsRecovery(recovered') /\ recovered'.ok /\ WithinLimits(recovered'.errs)
      /\ phase' = IF MatchOver(recovered.match) THEN "done" ELSE "send"
      /\ UNCHANGED <<toSend, pending, elapsed, inbox, half, tlog>>
  BY StartEffect
<1>2. phase' \in {"send", "done"} /\ (phase' = "send" => ~MatchOver(match')) /\ phase = "down"
  BY <1>1, StartEffect
<1>3. TypesInv'
  BY <1>1, <1>2 DEF DealerInv, TypesInv, RecoveryInv, Phases, Mailbox
<1>4. MatchInv'
  BY <1>1, <1>2 DEF DealerInv, MatchInv, RecoveryInv, InPlay, Over
<1>5. RecoveryInv'
  BY <1>1, <1>2 DEF DealerInv, RecoveryInv, RecoveryAgrees, AheadMatch, ReadsAlike
<1>6. ClockInv'
  <2>1. ASSUME NEW seat \in Seats
        PROVE  /\ recovered'.errs.usedHand[seat] + Due(seat)' <= errs'.usedHand[seat]
               /\ recovered'.errs.usedMatch[seat] + Due(seat)' <= errs'.usedMatch[seat]
    <3>1. Due(seat)' = 0
      BY <1>2 DEF Due
    <3>2. recovered'.errs.usedHand[seat] \in Nat /\ recovered'.errs.usedMatch[seat] \in Nat
      BY <1>1 DEF ErrInfo, Counters
    <3> QED BY <1>1, <3>1, <3>2
  <2> QED BY <1>1, <1>2, <2>1 DEF DealerInv, RecoveryInv, ClockInv, HandIsLogged, Over
<1> QED
  BY <1>3, <1>4, <1>5, <1>6 DEF DealerInv

(* The steps that leave the match, the files and the counters as they are:  *)
(* the phase moves on, if at all, to one that means the same.               *)
SameKind(p, q) ==
  \/ p = q
  \/ p = "send" /\ q = "wait"
  \/ p = "final" /\ q = "next"

(* Steps that leave the match, the counters and the log alone, and stay in a*)
(* phase in which the log is as far as it was.                              *)
LEMMA QuietInv ==
  ASSUME DealerInv, SameKind(phase, phase'), UNCHANGED <<match, errs, pending, tlog, recovered>>,
         TypesInv'
  PROVE  DealerInv'
<1>1. MatchInv'
  BY DEF DealerInv, MatchInv, SameKind, InPlay, Over
<1>2. RecoveryInv'
  <2>1. AheadMatch' = AheadMatch
    BY DEF SameKind, AheadMatch
  <2> QED BY <2>1 DEF DealerInv, RecoveryInv, RecoveryAgrees, ReadsAlike, SameKind
<1>3. ClockInv'
  <2>1. \A seat : Due(seat)' = Due(seat)
    BY DEF Due, SameKind, Seat
  <2>2. HandIsLogged' = HandIsLogged
    BY DEF HandIsLogged, SameKind, Over
  <2> QED BY <2>1, <2>2 DEF DealerInv, ClockInv, SameKind
<1> QED
  BY <1>1, <1>2, <1>3 DEF DealerInv

(* Sending the state is such a step.                                        *)
LEMMA SendStateInv ==
  ASSUME GameIsPlayable, DealerInv, SendState
  PROVE  DealerInv'
<1>1. (toSend + 1) % NumPlayers \in Seats
  <2>1. toSend \in Seats
    BY DEF DealerInv, TypesInv
  <2> QED BY <2>1, Sizes, ModRange
<1>2. SameKind(phase, phase') /\ phase' \in Phases
  <2>1. toSend + 1 < NumPlayers \/ toSend + 1 = NumPlayers
    BY Sizes DEF DealerInv, TypesInv
  <2>2. toSend + 1 < NumPlayers => toSend + 1 # NumPlayers
    BY Sizes DEF DealerInv, TypesInv
  <2> QED BY <2>1, <2>2 DEF SendState, SameKind, Phases
<1>3. /\ UNCHANGED <<match, errs, pending, inbox, half, tlog, recovered>>
      /\ toSend' \in Seats /\ elapsed' = 0 /\ phase \in {"send", "final"}
  BY <1>1 DEF SendState, fileVars
<1>4. TypesInv'
  BY <1>2, <1>3 DEF DealerInv, TypesInv
<1> QED
  BY <1>2, <1>3, <1>4, QuietInv

(* A line that comes in changes nothing the log depends on.                 *)
LEMMA ArrivalInv ==
  ASSUME DealerInv, NEW seat \in Seats, Reply(seat) \/ Stray(seat)
  PROVE  DealerInv'
<1>1. NoAction \in Requests /\ CallInstead \in Requests
  BY DEF NoAction, CallInstead, Requests
<1>2. PICK line : line.action \in Requests /\ Send(seat, line)
  <2>1. CASE Reply(seat)
    BY <2>1 DEF Reply
  <2>2. CASE Stray(seat)
    BY <1>1, <2>2 DEF Stray
  <2> QED BY <2>1, <2>2
<1>3. /\ UNCHANGED <<phase, match, errs, toSend, pending, elapsed, tlog, recovered>>
      /\ inbox[seat] = << >> /\ half = << >>
  BY <1>2 DEF Send, clockVars, fileVars
<1>4. Mailbox(<<line>>) /\ Seat' = Seat
  BY <1>2, <1>3 DEF Mailbox, Seat
<1>5. TypesInv'
  <2>1. CASE inbox' = [inbox EXCEPT ![seat] = <<line>>] /\ half' = half
    <3>1. \A q \in Seats : inbox'[q] = IF q = seat THEN <<line>> ELSE inbox[q]
      BY <2>1 DEF DealerInv, TypesInv
    <3>2. inbox' = [q \in Seats |-> inbox'[q]]
      BY <2>1 DEF DealerInv, TypesInv
    <3> QED BY <1>3, <1>4, <2>1, <3>1, <3>2 DEF DealerInv, TypesInv
  <2>2. CASE Waiting /\ seat = Seat /\ half' = <<line>> /\ inbox' = inbox
    BY <1>3, <1>4, <2>2 DEF DealerInv, TypesInv, Waiting
  <2> QED BY <1>2, <2>1, <2>2 DEF Send
<1> QED
  BY <1>3, <1>5, QuietInv DEF SameKind

(* So does the rest of a line.                                              *)
LEMMA FinishLineInv ==
  ASSUME DealerInv, FinishLine
  PROVE  DealerInv' /\ Seat \in Seats /\ phase = "wait"
<1>1. /\ UNCHANGED <<phase, match, errs, toSend, pending, elapsed, tlog, recovered>>
      /\ half # << >> /\ half' = << >>
  BY DEF FinishLine, clockVars, fileVars
<1>2. phase = "wait" /\ Mailbox(half)
  BY <1>1 DEF DealerInv, TypesInv
<1>3. Seat \in Seats
  BY <1>2, ActingSeatIsASeat DEF DealerInv, MatchInv, InPlay, Seat
<1>4. TypesInv'
  <2> DEFINE s == Seat
  <2>1. s \in Seats /\ inbox' = [inbox EXCEPT ![s] = half]
    BY <1>3 DEF FinishLine
  <2> HIDE DEF s
  <2>2. /\ \A q \in Seats : inbox'[q] = IF q = s THEN half ELSE inbox[q]
        /\ inbox' = [q \in Seats |-> inbox'[q]]
    BY <2>1 DEF DealerInv, TypesInv
  <2>3. Mailbox(half')
    BY <1>1 DEF Mailbox
  <2> QED BY <1>1, <1>2, <2>2, <2>3 DEF DealerInv, TypesInv
<1> QED
  BY <1>1, <1>2, <1>3, <1>4, QuietInv DEF SameKind

(* So do the clock and a dealer that cannot start.                          *)
LEMMA TickInv ==
  ASSUME DealerInv, Tick \/ ClockBack \/ RefuseLog
  PROVE  DealerInv'
<1>1. /\ UNCHANGED <<phase, match, errs, toSend, pending, inbox, half, tlog, recovered>>
      /\ elapsed' \in Int
  <2>1. MaxResponse \in Nat /\ elapsed \in Int
    BY DealerAssumption DEF DealerInv, TypesInv
  <2>2. CASE Tick
    BY <2>1, <2>2 DEF Tick, Smaller, socketVars, fileVars
  <2>3. CASE ClockBack \/ RefuseLog
    BY <2>1, <2>3 DEF ClockBack, RefuseLog, clockVars, socketVars, fileVars
  <2> QED BY <2>2, <2>3
<1>2. TypesInv'
  BY <1>1 DEF DealerInv, TypesInv, Seat
<1> QED
  BY <1>1, <1>2, QuietInv DEF SameKind

(***************************************************************************)
(* Reading an answer                                                       *)
(***************************************************************************)
LEMMA LineReadInv ==
  ASSUME DealerInv, Waiting, LineRead, inbox[Seat] # << >>
  PROVE  /\ Seat \in Seats /\ Head(inbox[Seat]).action \in Requests
         /\ inbox' = [seat \in Seats |-> inbox'[seat]]
         /\ inbox'[Seat] = << >>
         /\ \A seat \in Seats : Mailbox(inbox'[seat]) /\ (seat # Seat => inbox'[seat] = inbox[seat])
         /\ UNCHANGED <<match, toSend, seen, strays, tlog, log, recovered, starts>>
         /\ half = << >> /\ half' = << >>
<1>1. Seat \in Seats
  BY ActingSeatIsASeat DEF DealerInv, MatchInv, InPlay, Waiting, Seat
<1> DEFINE s == Seat
           l == Head(inbox[s])
<1>2. inbox[s] = <<l>> /\ l.action \in Requests
  BY <1>1 DEF DealerInv, TypesInv, Mailbox
<1>3. inbox' = [inbox EXCEPT ![s] = Tail(inbox[s])]
  BY <1>1 DEF LineRead, DealerInv, TypesInv
<1>4. Tail(inbox[s]) = << >>
  <2> HIDE DEF l, s
  <2> QED BY <1>2
<1>5. \A seat \in Seats : inbox'[seat] = IF seat = s THEN << >> ELSE inbox[seat]
  <2> HIDE DEF s
  <2> QED BY <1>3, <1>4 DEF DealerInv, TypesInv
<1>6. inbox' = [seat \in Seats |-> inbox'[seat]]
  <2> HIDE DEF s
  <2> QED BY <1>3 DEF DealerInv, TypesInv
<1>7. \A seat \in Seats : Mailbox(inbox'[seat])
  BY <1>5 DEF DealerInv, TypesInv, Mailbox
<1>8. half = << >> /\ half' = << >>
  BY DEF LineRead, DealerInv, TypesInv
<1> QED
  BY <1>1, <1>2, <1>5, <1>6, <1>7, <1>8 DEF LineRead, fileVars

(* A line skipped: the time may be charged, nothing else happens.           *)
LEMMA ReadOnInv ==
  ASSUME DealerInv, Waiting, inbox[Seat] # << >>, ReadOn,
         \/ errs' = errs
         \/ OnTime /\ errs' = Charged(errs, Seat, elapsed)
  PROVE  DealerInv'
<1>1. UNCHANGED <<phase, pending, elapsed, match, toSend, tlog, recovered>> /\ phase = "wait"
  BY LineReadInv DEF ReadOn, Waiting
<1>2. Seat \in Seats /\ elapsed \in Int /\ errs \in ErrInfo
  BY LineReadInv DEF ReadOn, DealerInv, TypesInv
<1>3. WithinLimits(errs)
  BY <1>1 DEF DealerInv, ClockInv
<1>4. /\ errs' \in ErrInfo /\ WithinLimits(errs')
      /\ \A seat \in Seats : /\ errs'.usedHand[seat] >= errs.usedHand[seat]
                             /\ errs'.usedMatch[seat] >= errs.usedMatch[seat]
  <2> DEFINE s == Seat
  <2>1. \A seat \in Seats : errs.usedHand[seat] \in Nat /\ errs.usedMatch[seat] \in Nat
    BY <1>2 DEF ErrInfo, Counters
  <2>2. CASE errs' = errs
    BY <1>2, <1>3, <2>1, <2>2
  <2>3. CASE OnTime /\ errs' = Charged(errs, s, elapsed)
    <3>1. s \in Seats /\ InTime(errs, s, elapsed)
      BY <1>2, <2>3 DEF OnTime
    <3> HIDE DEF s
    <3> DEFINE n == Larger(0, elapsed)
    <3>2. /\ errs' \in ErrInfo /\ n \in Nat
          /\ errs'.usedHand = [errs.usedHand EXCEPT ![s] = errs.usedHand[s] + n]
          /\ errs'.usedMatch = [errs.usedMatch EXCEPT ![s] = errs.usedMatch[s] + n]
      BY <1>2, <2>3, <3>1, ChargedTime
    <3> HIDE DEF n
    <3>3. WithinLimits(errs')
      BY <1>2, <1>3, <2>3, <3>1, ChargedInTime
    <3>4. errs.usedHand \in Counters /\ errs.usedMatch \in Counters
      BY <1>2 DEF ErrInfo
    <3> QED BY <1>2, <2>1, <3>2, <3>3, <3>4 DEF Counters
  <2> QED BY <2>2, <2>3
<1>5. TypesInv'
  <2>1. Mailbox(half') /\ half' = << >>
    BY LineReadInv DEF ReadOn, Mailbox
  <2> QED BY <1>1, <1>4, <2>1, LineReadInv DEF ReadOn, DealerInv, TypesInv
<1>6. MatchInv'
  BY <1>1 DEF DealerInv, MatchInv
<1>7. RecoveryInv'
  BY <1>1 DEF DealerInv, RecoveryInv, RecoveryAgrees, AheadMatch, ReadsAlike
<1>8. ClockInv'
  <2>1. \A seat : Due(seat)' = 0 /\ Due(seat) = 0
    BY <1>1 DEF Due
  <2>2. recovered.errs \in ErrInfo
    BY DEF DealerInv, RecoveryInv
  <2>3. ASSUME NEW seat \in Seats
        PROVE  /\ recovered'.errs.usedHand[seat] + Due(seat)' <= errs'.usedHand[seat]
               /\ recovered'.errs.usedMatch[seat] + Due(seat)' <= errs'.usedMatch[seat]
    <3>1. /\ recovered.errs.usedHand[seat] <= errs.usedHand[seat]
          /\ recovered.errs.usedMatch[seat] <= errs.usedMatch[seat]
          /\ recovered.errs.usedHand[seat] \in Nat /\ recovered.errs.usedMatch[seat] \in Nat
      <4>1. /\ recovered.errs.usedHand[seat] + Due(seat) <= errs.usedHand[seat]
            /\ recovered.errs.usedMatch[seat] + Due(seat) <= errs.usedMatch[seat]
        BY <1>1 DEF DealerInv, ClockInv
      <4>2. recovered.errs.usedHand[seat] \in Nat /\ recovered.errs.usedMatch[seat] \in Nat
        BY <2>2 DEF ErrInfo, Counters
      <4> QED BY <2>1, <4>1, <4>2
    <3>2. /\ errs.usedHand[seat] \in Nat /\ errs.usedMatch[seat] \in Nat
          /\ errs'.usedHand[seat] \in Nat /\ errs'.usedMatch[seat] \in Nat
      BY <1>2, <1>4 DEF ErrInfo, Counters
    <3> QED BY <1>1, <1>4, <2>1, <3>1, <3>2
  <2>4. HandIsLogged' = HandIsLogged
    BY <1>1 DEF HandIsLogged
  <2> QED BY <1>1, <1>4, <2>3, <2>4 DEF DealerInv, ClockInv
<1> QED
  BY <1>5, <1>6, <1>7, <1>8 DEF DealerInv

(* An answer taken: its time is charged, and due until it is logged.        *)
LEMMA AcceptedTime ==
  ASSUME DealerInv, Waiting, inbox[Seat] # << >>, OnTime, NEW a, Accept(a),
         \/ errs' = Charged(errs, Seat, elapsed)
         \/ errs' = OneMoreInvalid(Charged(errs, Seat, elapsed), Seat)
  PROVE  /\ errs' \in ErrInfo /\ WithinLimits(errs') /\ elapsed <= MaxResponse
         /\ \A seat \in Seats :
              /\ Due(seat) = 0 /\ Due(seat)' \in Nat
              /\ errs.usedHand[seat] \in Nat /\ errs.usedMatch[seat] \in Nat
              /\ errs'.usedHand[seat] = errs.usedHand[seat] + Due(seat)'
              /\ errs'.usedMatch[seat] = errs.usedMatch[seat] + Due(seat)'
<1>1. /\ UNCHANGED <<match, toSend, tlog, recovered>> /\ phase = "wait" /\ phase' = "log"
      /\ elapsed' = 0 /\ pending' = [action |-> a, micros |-> elapsed]
  BY LineReadInv DEF Accept, Waiting
<1>2. Seat \in Seats /\ elapsed \in Int /\ errs \in ErrInfo
  BY LineReadInv DEF Accept, DealerInv, TypesInv
<1>3. Seat' = Seat
  BY <1>1 DEF Seat
<1> DEFINE s == Seat
<1>4. InTime(errs, s, elapsed) /\ WithinLimits(errs) /\ elapsed <= MaxResponse
  <2>1. InTime(errs, s, elapsed) /\ WithinLimits(errs)
    BY <1>1 DEF DealerInv, ClockInv, OnTime
  <2> QED BY <1>2, <2>1, DealerAssumption DEF InTime
<1>5. s \in Seats /\ (errs' = Charged(errs, s, elapsed)
                      \/ errs' = OneMoreInvalid(Charged(errs, s, elapsed), s))
  BY <1>2
<1> DEFINE n == Larger(0, elapsed)
<1>6. \A seat : Due(seat) = 0 /\ Due(seat)' = IF seat = s THEN n ELSE 0
  BY <1>1, <1>3 DEF Due
<1> HIDE DEF s
<1> DEFINE c == Charged(errs, s, elapsed)
<1>7. /\ c \in ErrInfo /\ WithinLimits(c) /\ n \in Nat
      /\ c.usedHand = [errs.usedHand EXCEPT ![s] = errs.usedHand[s] + n]
      /\ c.usedMatch = [errs.usedMatch EXCEPT ![s] = errs.usedMatch[s] + n]
  <2>1. errs \in ErrInfo /\ s \in Seats /\ elapsed \in Int
    BY <1>2, <1>5
  <2>2. InTime(errs, s, elapsed) /\ WithinLimits(errs)
    BY <1>4
  <2> HIDE DEF s
  <2> QED BY <2>1, <2>2, ChargedTime
<1> HIDE DEF c, n
<1>8. errs' \in ErrInfo /\ errs'.usedHand = c.usedHand /\ errs'.usedMatch = c.usedMatch
  BY <1>5, <1>7, CountedInvalid DEF c
<1>9. WithinLimits(errs')
  BY <1>7, <1>8 DEF WithinLimits
<1>10. ASSUME NEW seat \in Seats
       PROVE  /\ Due(seat) = 0 /\ Due(seat)' \in Nat
              /\ errs.usedHand[seat] \in Nat /\ errs.usedMatch[seat] \in Nat
              /\ errs'.usedHand[seat] = errs.usedHand[seat] + Due(seat)'
              /\ errs'.usedMatch[seat] = errs.usedMatch[seat] + Due(seat)'
  <2>1. /\ errs.usedHand[seat] \in Nat /\ errs.usedMatch[seat] \in Nat
        /\ errs.usedHand \in Counters /\ errs.usedMatch \in Counters
    BY <1>2 DEF ErrInfo, Counters
  <2>2. /\ errs'.usedHand = [errs.usedHand EXCEPT ![s] = errs.usedHand[s] + n]
        /\ errs'.usedMatch = [errs.usedMatch EXCEPT ![s] = errs.usedMatch[s] + n]
    BY <1>7, <1>8
  <2>3. Due(seat) = 0 /\ Due(seat)' = IF seat = s THEN n ELSE 0
    BY <1>6
  <2>4. CASE seat = s
    BY <1>7, <2>1, <2>2, <2>3, <2>4 DEF Counters
  <2>5. CASE seat # s
    BY <2>1, <2>2, <2>3, <2>5 DEF Counters
  <2> QED BY <2>4, <2>5
<1> QED
  BY <1>4, <1>8, <1>9, <1>10

(* ... and the action is playable.                                          *)
LEMMA AcceptInv ==
  ASSUME DealerInv, Waiting, inbox[Seat] # << >>, OnTime,
         NEW a, Playable(match.hand, a), a \in Actions, Accept(a),
         \/ errs' = Charged(errs, Seat, elapsed)
         \/ errs' = OneMoreInvalid(Charged(errs, Seat, elapsed), Seat)
  PROVE  DealerInv'
<1>1. /\ UNCHANGED <<match, toSend, tlog, recovered>> /\ phase = "wait" /\ phase' = "log"
      /\ elapsed' = 0 /\ pending' = [action |-> a, micros |-> elapsed]
  BY LineReadInv DEF Accept, Waiting
<1>2. elapsed \in Int /\ recovered.errs \in ErrInfo
  BY DEF DealerInv, TypesInv, RecoveryInv
<1>3. errs' \in ErrInfo /\ WithinLimits(errs') /\ elapsed <= MaxResponse
  BY AcceptedTime
<1>4. TypesInv'
  <2>1. Mailbox(half') /\ half' = << >>
    BY LineReadInv DEF Accept, Mailbox
  <2> QED BY <1>1, <1>3, <2>1, LineReadInv DEF Accept, DealerInv, TypesInv, Phases
<1>5. MatchInv'
  BY <1>1, <1>2 DEF DealerInv, MatchInv, InPlay, Over
<1>6. RecoveryInv'
  BY <1>1 DEF DealerInv, RecoveryInv, RecoveryAgrees, AheadMatch, ReadsAlike
<1>7. ClockInv'
  <2>1. ASSUME NEW seat \in Seats
        PROVE  /\ recovered'.errs.usedHand[seat] + Due(seat)' <= errs'.usedHand[seat]
               /\ recovered'.errs.usedMatch[seat] + Due(seat)' <= errs'.usedMatch[seat]
    <3>1. recovered.errs.usedHand[seat] \in Nat /\ recovered.errs.usedMatch[seat] \in Nat
      BY <1>2 DEF ErrInfo, Counters
    <3>2. /\ recovered.errs.usedHand[seat] + Due(seat) <= errs.usedHand[seat]
          /\ recovered.errs.usedMatch[seat] + Due(seat) <= errs.usedMatch[seat]
      BY <1>1 DEF DealerInv, ClockInv
    <3>3. /\ Due(seat) = 0 /\ Due(seat)' \in Nat
          /\ errs.usedHand[seat] \in Nat /\ errs.usedMatch[seat] \in Nat
          /\ errs'.usedHand[seat] = errs.usedHand[seat] + Due(seat)'
          /\ errs'.usedMatch[seat] = errs.usedMatch[seat] + Due(seat)'
      BY AcceptedTime
    <3>4. recovered' = recovered
      BY <1>1
    <3>5. /\ recovered.errs.usedHand[seat] + Due(seat)' <= errs'.usedHand[seat]
          /\ recovered.errs.usedMatch[seat] + Due(seat)' <= errs'.usedMatch[seat]
      <4> DEFINE h == recovered.errs.usedHand[seat]
                 k == recovered.errs.usedMatch[seat]
                 d == Due(seat)'
      <4>1. h \in Nat /\ k \in Nat /\ d \in Nat
        BY <3>1, <3>3
      <4>2. h <= errs.usedHand[seat] /\ k <= errs.usedMatch[seat]
        BY <3>1, <3>2, <3>3
      <4>3. /\ errs.usedHand[seat] \in Nat /\ errs.usedMatch[seat] \in Nat
            /\ errs'.usedHand[seat] = errs.usedHand[seat] + d
            /\ errs'.usedMatch[seat] = errs.usedMatch[seat] + d
        BY <3>3
      <4> HIDE DEF h, k, d
      <4>4. h + d <= errs'.usedHand[seat] /\ k + d <= errs'.usedMatch[seat]
        BY <4>1, <4>2, <4>3
      <4> QED BY <4>4 DEF h, k, d
    <3> QED BY <3>4, <3>5
  <2>2. ~HandIsLogged'
    BY <1>1 DEF HandIsLogged, Over
  <2> QED BY <1>1, <1>3, <2>1, <2>2 DEF ClockInv
<1> QED
  BY <1>4, <1>5, <1>6, <1>7 DEF DealerInv

(* No request is for more than the biggest stack at the table.              *)
LEMMA RequestsAreActions ==
  ASSUME GameIsPlayable, NEW m, Good(m), NEW a \in Requests, a.type # "malformed",
         IsValidAction(m.hand, TRUE, a)
  PROVE  a \in Action /\ FixedAction(m.hand, a) \in Actions /\ CallInstead \in Actions
<1> DEFINE T == {TableStack[p] : p \in Players}
<1>1. TableStack \in [Players -> 0 .. MaxInt] /\ MaxInt \in Nat /\ 0 \in Players
  <2>1. TableStack \in Stacks
    BY DEF GameIsPlayable, TableStack
  <2>2. Stacks \subseteq [Players -> 0 .. MaxInt] /\ MaxInt \in Nat
    BY GameAssumption
  <2> QED BY <2>1, <2>2, Sizes
<1>2. T \in SUBSET Nat /\ T # {} /\ \A x \in T : x <= MaxInt
  BY <1>1
<1>3. Max(T) \in Nat /\ \A p \in Players : TableStack[p] <= Max(T)
  <2>1. Max(T) \in T /\ \A x \in T : x <= Max(T)
    <3> HIDE DEF T
    <3> QED BY <1>1, <1>2, BoundedMax
  <2>2. Max(T) \in Nat
    BY <1>2, <2>1
  <2> QED BY <2>1, <2>2
<1>4. a \in Action /\ a.size >= 0
  BY DEF Requests, Action
<1>5. HandChips(m.hand) /\ m.hand.stackPlayer = TableStack
  BY DEF Good
<1>6. Playable(m.hand, FixedAction(m.hand, a)) /\ FixedAction(m.hand, a).size \in 0 .. Max(T)
  <2> HIDE DEF T
  <2> QED BY <1>3, <1>4, <1>5, FixedIsPlayable, FixedSizeInStack
<1>7. Actions = [type : {"fold", "call", "raise"}, size : 0 .. Max(T)]
  BY DEF Actions
<1> HIDE DEF T
<1>8. FixedAction(m.hand, a) \in Actions
  BY <1>6, <1>7 DEF Playable, Action, Played
<1> QED
  BY <1>3, <1>4, <1>7, <1>8 DEF CallInstead

(* readPlayerResponse, whichever way it comes back.                         *)
LEMMA ReadResponseInv ==
  ASSUME GameIsPlayable, DealerInv, ReadResponse
  PROVE  DealerInv'
<1>1. CASE RunOutOfTime \/ TimeOut
  BY <1>1, StopInv DEF RunOutOfTime, TimeOut
<1>2. CASE SkipComment
  BY <1>2, ReadOnInv DEF SkipComment, GotLine
<1>3. CASE IgnoreLine
  BY <1>3, ReadOnInv DEF IgnoreLine, GotLine
<1>4. ASSUME Waiting PROVE HandChips(match.hand) /\ ~match.hand.finished
  BY <1>4 DEF DealerInv, MatchInv, Good, Waiting, InPlay
<1>5. ASSUME Waiting PROVE Playable(match.hand, CallInstead) /\ CallInstead \in Actions
  <2>1. Playable(match.hand, CallInstead)
    BY <1>4, <1>5, CallIsPlayable DEF CallInstead
  <2>2. /\ CallInstead \in Requests /\ CallInstead.type # "malformed"
        /\ IsValidAction(match.hand, TRUE, CallInstead)
    BY <2>1 DEF Playable, CallInstead, Requests
  <2> QED BY <2>1, <2>2, RequestsAreActions DEF DealerInv, MatchInv
<1>6. CASE BadFormat
  BY <1>5, <1>6, AcceptInv DEF BadFormat, GotLine
<1>7. CASE InvalidAction
  <2>1. CASE errs.invalid[Seat] + 1 > MaxInvalidActions
    BY <1>7, <2>1, StopInv DEF InvalidAction
  <2>2. CASE ~(errs.invalid[Seat] + 1 > MaxInvalidActions)
    BY <1>5, <1>7, <2>2, AcceptInv DEF InvalidAction, GotLine
  <2> QED BY <2>1, <2>2
<1>8. CASE TakeAction
  <2>1. Waiting /\ inbox[Seat] # << >> /\ OnTime /\ IsValidAction(match.hand, TRUE, Answer.action)
        /\ Answer.action.type # "malformed"
        /\ errs' = Charged(errs, Seat, elapsed) /\ Accept(FixedAction(match.hand, Answer.action))
    BY <1>8 DEF TakeAction, GotLine
  <2>2. Answer.action \in Requests
    BY <2>1, LineReadInv DEF Answer, Accept
  <2>3. Answer.action \in Action /\ FixedAction(match.hand, Answer.action) \in Actions
    BY <2>1, <2>2, RequestsAreActions DEF DealerInv, MatchInv
  <2>4. Playable(match.hand, FixedAction(match.hand, Answer.action))
    BY <1>4, <2>1, <2>3, FixedIsPlayable
  <2> QED BY <2>1, <2>3, <2>4, AcceptInv
<1> QED
  BY <1>1, <1>2, <1>3, <1>6, <1>7, <1>8 DEF ReadResponse

(***************************************************************************)
(* The action goes to the log, and only then to the match                  *)
(***************************************************************************)
LoggedLine == [action |-> PrintedAction(pending.action),
               handId |-> match.hand.handId, micros |-> pending.micros]

(* What a line adds to the log is what Act adds to the match.               *)
LEMMA LogEffect ==
  ASSUME GameIsPlayable, DealerInv, LogTransaction
  PROVE  /\ tlog' \in Seq(Line) /\ tlog' = Append(tlog, LoggedLine) /\ LoggedLine \in Line
         /\ LoggedLine.action = pending.action /\ LoggedLine.handId = match.hand.handId
         /\ IsRecovery(recovered') /\ recovered'.ok
         /\ recovered'.match = Completed(DoHandAction(match, pending.action))
         /\ recovered'.errs = IF DoAction(match.hand, pending.action).finished
                              THEN NewHandErrs(Charged(recovered.errs, Seat, pending.micros))
                              ELSE Charged(recovered.errs, Seat, pending.micros)
         /\ recovered'.errs \in ErrInfo /\ WithinLimits(recovered'.errs)
         /\ Seat \in Seats /\ recovered.match = match
<1>1. /\ phase = "log" /\ tlog' = Append(tlog, LoggedLine)
      /\ recovered' = FoldLeft(RecoverOne, recovered, Append(<< >>, LoggedLine))
  BY DEF LogTransaction, Logged, LoggedLine
<1>2. /\ Good(match) /\ ~match.hand.finished
      /\ Playable(match.hand, pending.action) /\ pending.micros \in Int
  BY <1>1 DEF DealerInv, MatchInv, InPlay
<1>3. recovered.match = match
  BY <1>1 DEF DealerInv, RecoveryInv, RecoveryAgrees, AheadMatch
<1>4. /\ LoggedLine \in Line /\ LoggedLine.action = pending.action
      /\ LoggedLine.handId = match.hand.handId /\ LoggedLine.micros = pending.micros
  <2>1. PrintedAction(pending.action) = pending.action /\ pending.action \in Action
    BY <1>2 DEF Playable
  <2>2. match.hand.handId \in Nat
    BY <1>2 DEF Good, HandChips, State
  <2> QED BY <1>2, <2>1, <2>2 DEF LoggedLine, Line
<1>5. Seat \in Seats /\ Seat = ActingSeat(recovered.match)
  BY <1>2, <1>3, ActingSeatIsASeat DEF Seat
<1>6. InTime(recovered.errs, Seat, pending.micros)
  <2>1. pending.micros >= 0 => Due(Seat) = pending.micros
    BY <1>1, <1>2 DEF Due, Larger
  <2>2. /\ recovered.errs.usedHand[Seat] + Due(Seat) <= errs.usedHand[Seat]
        /\ recovered.errs.usedMatch[Seat] + Due(Seat) <= errs.usedMatch[Seat]
        /\ errs.usedHand[Seat] <= MaxUsedHand /\ errs.usedMatch[Seat] <= MaxUsedMatch
        /\ pending.micros <= MaxResponse
    BY <1>1, <1>5 DEF DealerInv, ClockInv, WithinLimits
  <2>3. /\ recovered.errs.usedHand[Seat] \in Nat /\ recovered.errs.usedMatch[Seat] \in Nat
        /\ errs.usedHand[Seat] \in Nat /\ errs.usedMatch[Seat] \in Nat
        /\ MaxUsedHand \in Nat /\ MaxUsedMatch \in Nat
    BY <1>5, DealerAssumption DEF DealerInv, TypesInv, RecoveryInv, ErrInfo, Counters
  <2> QED BY <1>2, <2>1, <2>2, <2>3 DEF InTime
<1>7. /\ IsRecovery(recovered) /\ recovered.ok /\ tlog \in Seq(Line)
      /\ recovered.errs \in ErrInfo /\ WithinLimits(recovered.errs)
  BY DEF DealerInv, TypesInv, RecoveryInv
<1>8. recovered' = RecoverOne(recovered, LoggedLine)
  BY <1>1, <1>4, RecoverOneLine
<1>9. tlog' \in Seq(Line)
  BY <1>1, <1>4, <1>7
<1> DEFINE r == recovered
           q == recovered'
           e == LoggedLine
           s == Seat
<1>10. /\ r.ok /\ IsRecovery(r) /\ Good(r.match) /\ ~r.match.hand.finished
       /\ r.errs \in ErrInfo /\ WithinLimits(r.errs)
       /\ e \in Line /\ e.handId = r.match.hand.handId /\ Playable(r.match.hand, e.action)
       /\ s = ActingSeat(r.match) /\ InTime(r.errs, s, e.micros) /\ q = RecoverOne(r, e)
  BY <1>2, <1>3, <1>4, <1>5, <1>6, <1>7, <1>8
<1>11. /\ IsRecovery(q) /\ q.ok
       /\ q.match = Completed(DoHandAction(r.match, e.action))
       /\ q.errs = IF DoAction(r.match.hand, e.action).finished
                   THEN NewHandErrs(Charged(r.errs, s, e.micros))
                   ELSE Charged(r.errs, s, e.micros)
       /\ q.errs \in ErrInfo /\ WithinLimits(q.errs)
  <2> HIDE DEF r, q, e, s
  <2> QED BY <1>10, GoodLine
<1> QED
  BY <1>1, <1>3, <1>4, <1>5, <1>9, <1>11

(* Whatever the stamps are read as, the new line leads on from where the    *)
(* lines before it lead.                                                    *)
LEMMA LogReadsAlike ==
  ASSUME GameIsPlayable, DealerInv, LogTransaction
  PROVE  ReadsAlike'
<1> DEFINE n == Len(tlog)
           m == recovered.match
<1>1. /\ tlog \in Seq(Line) /\ n \in Nat /\ tlog' = Append(tlog, LoggedLine)
      /\ LoggedLine \in Line
  BY LogEffect DEF DealerInv, TypesInv
<1>2. /\ m = match /\ Good(m) /\ ~m.hand.finished /\ Playable(m.hand, pending.action)
      /\ recovered'.match = Completed(DoHandAction(m, pending.action))
      /\ LoggedLine.action = pending.action /\ LoggedLine.handId = m.hand.handId
  <2>1. phase = "log"
    BY DEF LogTransaction
  <2> QED BY <2>1, LogEffect DEF DealerInv, MatchInv, InPlay
<1>3. ASSUME NEW lines \in Seq(Line), Alike(lines, tlog')
      PROVE  LeadsTo(Recover(lines), recovered'.match)
  <2> DEFINE front == SubSeq(lines, 1, n)
             e == lines[n + 1]
             r == Recover(front)
             t == RecoverOne(r, e)
  <2>1. Len(lines) = n + 1
    BY <1>1, <1>3 DEF Alike
  <2>2. /\ front \in Seq(Line) /\ e \in Line /\ Len(front) = n /\ lines = Append(front, e)
        /\ \A i \in 1 .. n : front[i] = lines[i]
    BY <1>1, <2>1
  <2>3. Alike(front, tlog)
    <3>1. ASSUME NEW i \in 1 .. n
          PROVE  front[i].action = tlog[i].action /\ front[i].handId = tlog[i].handId
      <4>1. i \in 1 .. Len(lines) /\ tlog'[i] = tlog[i]
        BY <1>1, <2>1
      <4>2. lines[i].action = tlog'[i].action /\ lines[i].handId = tlog'[i].handId
        BY <1>3, <4>1 DEF Alike
      <4> QED BY <2>2, <4>1, <4>2
    <3> HIDE DEF front
    <3> QED BY <2>2, <3>1 DEF Alike
  <2>4. e.action = pending.action /\ e.handId = m.hand.handId
    <3>1. n + 1 \in 1 .. Len(lines) /\ tlog'[n + 1] = LoggedLine
      BY <1>1, <2>1
    <3> QED BY <1>2, <1>3, <3>1 DEF Alike
  <2> HIDE DEF front, e, n, m
  <2>5. LeadsTo(r, m)
    BY <2>2, <2>3 DEF DealerInv, RecoveryInv, ReadsAlike, m
  <2>6. Recover(lines) = t
    BY <2>2, RecoverLine
  <2> HIDE DEF r
  <2>7. IsRecovery(t) /\ (t.ok => r.ok /\ InTime(r.errs, ActingSeat(r.match), e.micros))
    BY <2>5 DEF LeadsTo, IsRecovery, RecoverOne
  <2>8. ASSUME t.ok
        PROVE  t.match = recovered'.match /\ t.errs \in ErrInfo /\ WithinLimits(t.errs)
    <3>1. /\ r.ok /\ IsRecovery(r) /\ r.match = m /\ r.errs \in ErrInfo /\ WithinLimits(r.errs)
          /\ InTime(r.errs, ActingSeat(r.match), e.micros)
      BY <2>5, <2>7, <2>8 DEF LeadsTo
    <3>2. e.handId = r.match.hand.handId /\ Playable(r.match.hand, e.action)
      BY <1>2, <2>4, <3>1
    <3>3. /\ t.match = Completed(DoHandAction(r.match, e.action))
          /\ t.errs \in ErrInfo /\ WithinLimits(t.errs)
      <4> HIDE DEF t
      <4>1. t = RecoverOne(r, e)
        BY DEF t
      <4> QED BY <1>2, <2>2, <3>1, <3>2, <4>1, GoodLine
    <3> QED BY <1>2, <2>4, <3>1, <3>3
  <2> QED BY <2>6, <2>7, <2>8 DEF LeadsTo
<1> QED
  BY <1>3 DEF ReadsAlike

(* The time that was due is in the log.                                     *)
LEMMA LoggedTime ==
  ASSUME GameIsPlayable, DealerInv, LogTransaction, NEW seat \in Seats
  PROVE  /\ Due(seat)' = 0 /\ Due(seat) \in Nat
         /\ recovered.errs.usedHand[seat] \in Nat /\ recovered.errs.usedMatch[seat] \in Nat
         /\ recovered'.errs.usedMatch[seat] = recovered.errs.usedMatch[seat] + Due(seat)
         /\ IF DoAction(match.hand, pending.action).finished
            THEN recovered'.errs.usedHand = NoTime
            ELSE recovered'.errs.usedHand[seat] = recovered.errs.usedHand[seat] + Due(seat)
<1>1. phase = "log" /\ phase' = "do" /\ UNCHANGED <<match, pending>>
  BY DEF LogTransaction
<1> DEFINE s == Seat
           i == pending.micros
           n == Larger(0, i)
           c == Charged(recovered.errs, s, i)
<1>2. /\ s \in Seats /\ i \in Int /\ recovered.errs \in ErrInfo
  BY <1>1, LogEffect DEF DealerInv, MatchInv, RecoveryInv
<1>3. Due(seat)' = 0 /\ Due(seat) = IF seat = s THEN n ELSE 0
  BY <1>1 DEF Due
<1>4. recovered'.errs = IF DoAction(match.hand, pending.action).finished
                        THEN NewHandErrs(c) ELSE c
  BY LogEffect
<1> HIDE DEF s, i
<1>5. /\ c \in ErrInfo /\ n \in Nat
      /\ c.usedHand = [recovered.errs.usedHand EXCEPT ![s] = recovered.errs.usedHand[s] + n]
      /\ c.usedMatch = [recovered.errs.usedMatch EXCEPT ![s] = recovered.errs.usedMatch[s] + n]
  BY <1>2, ChargedTime
<1> HIDE DEF c, n
<1>6. NewHandErrs(c).usedHand = NoTime /\ NewHandErrs(c).usedMatch = c.usedMatch
  BY <1>5, FreshHandTime
<1>7. /\ recovered.errs.usedHand[seat] \in Nat /\ recovered.errs.usedMatch[seat] \in Nat
      /\ recovered.errs.usedHand \in Counters /\ recovered.errs.usedMatch \in Counters
  BY <1>2 DEF ErrInfo, Counters
<1>8. /\ c.usedHand[seat] = recovered.errs.usedHand[seat] + Due(seat)
      /\ c.usedMatch[seat] = recovered.errs.usedMatch[seat] + Due(seat)
  <2>1. CASE seat = s
    BY <1>2, <1>3, <1>5, <1>7, <2>1 DEF Counters
  <2>2. CASE seat # s
    BY <1>2, <1>3, <1>5, <1>7, <2>2 DEF Counters
  <2> QED BY <2>1, <2>2
<1>9. Due(seat) \in Nat
  BY <1>3, <1>5
<1>10. recovered'.errs.usedMatch = c.usedMatch
  BY <1>4, <1>6
<1>11. IF DoAction(match.hand, pending.action).finished
       THEN recovered'.errs.usedHand = NoTime ELSE recovered'.errs.usedHand = c.usedHand
  BY <1>4, <1>6
<1> QED
  BY <1>3, <1>7, <1>8, <1>9, <1>10, <1>11

(* The action is written: the log is one action ahead of the match.         *)
LEMMA LogTransactionInv ==
  ASSUME GameIsPlayable, DealerInv, LogTransaction
  PROVE  DealerInv'
<1>1. /\ phase = "log" /\ phase' = "do"
      /\ UNCHANGED <<match, errs, toSend, pending, elapsed, inbox, half>>
  BY DEF LogTransaction, clockVars, socketVars
<1>2. TypesInv'
  BY <1>1, LogEffect DEF DealerInv, TypesInv, Phases
<1>3. MatchInv'
  BY <1>1 DEF DealerInv, MatchInv, InPlay, Over
<1>4. Good(match) /\ Playable(match.hand, pending.action)
  BY <1>1 DEF DealerInv, MatchInv
<1>5. RecoveryInv'
  <2>1. Good(recovered'.match) /\ ~recovered'.match.hand.finished
    <3>1. Good(DoHandAction(match, pending.action))
      BY <1>4, PlayedMatch
    <3> QED BY <3>1, LogEffect, CompletedMatch
  <2>2. RecoveryAgrees'
    BY <1>1, LogEffect DEF RecoveryAgrees, AheadMatch
  <2> QED BY <2>1, <2>2, LogEffect, LogReadsAlike DEF RecoveryInv
<1>6. ClockInv'
  <2>1. ASSUME NEW seat \in Seats
        PROVE  /\ recovered'.errs.usedHand[seat] + Due(seat)' <= errs'.usedHand[seat]
               /\ recovered'.errs.usedMatch[seat] + Due(seat)' <= errs'.usedMatch[seat]
    <3>1. errs.usedHand[seat] \in Nat /\ errs.usedMatch[seat] \in Nat /\ errs' = errs
      BY <1>1 DEF DealerInv, TypesInv, ErrInfo, Counters
    <3>2. /\ recovered.errs.usedHand[seat] + Due(seat) <= errs.usedHand[seat]
          /\ recovered.errs.usedMatch[seat] + Due(seat) <= errs.usedMatch[seat]
      BY <1>1 DEF DealerInv, ClockInv
    <3>3. /\ Due(seat)' = 0 /\ Due(seat) \in Nat
          /\ recovered.errs.usedHand[seat] \in Nat /\ recovered.errs.usedMatch[seat] \in Nat
          /\ recovered'.errs.usedMatch[seat] = recovered.errs.usedMatch[seat] + Due(seat)
          /\ \/ recovered'.errs.usedHand[seat] = 0
             \/ recovered'.errs.usedHand[seat] = recovered.errs.usedHand[seat] + Due(seat)
      BY LoggedTime DEF NoTime
    <3> QED BY <3>1, <3>2, <3>3
  <2>2. HandIsLogged' => recovered'.errs.usedHand = NoTime
    <3>1. HandIsLogged' => DoAction(match.hand, pending.action).finished
      BY <1>1 DEF HandIsLogged, Over
    <3>2. 0 \in Seats
      BY Sizes
    <3> QED BY <3>1, <3>2, LoggedTime
  <2> QED BY <1>1, <2>1, <2>2 DEF DealerInv, ClockInv
<1> QED
  BY <1>2, <1>3, <1>5, <1>6 DEF DealerInv

(* The action is taken: the match catches up, unless the hand is over.      *)
LEMMA ActInv ==
  ASSUME DealerInv, Act
  PROVE  DealerInv'
<1>1. /\ phase = "do" /\ match' = DoHandAction(match, pending.action)
      /\ phase' = IF match'.hand.finished THEN "score" ELSE "send"
      /\ UNCHANGED <<errs, toSend, elapsed, inbox, half, tlog, recovered>>
  BY DEF Act, clockVars, socketVars, fileVars
<1>2. Good(match) /\ Playable(match.hand, pending.action) /\ ~MatchOver(match)
  BY <1>1 DEF DealerInv, MatchInv, InPlay
<1>3. /\ Good(match') /\ match'.hand = DoAction(match.hand, pending.action)
      /\ match'.hand.handId = match.hand.handId
  BY <1>1, <1>2, PlayedMatch
<1>4. phase' \in {"score", "send"}
  BY <1>1
<1>5. TypesInv'
  BY <1>1, <1>4 DEF DealerInv, TypesInv, Phases
<1>6. MatchInv'
  BY <1>1, <1>2, <1>3 DEF MatchInv, InPlay, Over, MatchOver
<1>7. RecoveryInv'
  <2>1. recovered.match = Completed(match')
    BY <1>1 DEF DealerInv, RecoveryInv, RecoveryAgrees, AheadMatch
  <2>2. RecoveryAgrees'
    BY <1>1, <2>1 DEF RecoveryAgrees, AheadMatch, Completed
  <2> QED BY <1>1, <2>2 DEF DealerInv, RecoveryInv, ReadsAlike
<1>8. ClockInv'
  <2>1. \A seat : Due(seat)' = 0 /\ Due(seat) = 0
    BY <1>1, <1>4 DEF Due
  <2>2. HandIsLogged' => HandIsLogged
    BY <1>1, <1>3 DEF HandIsLogged, Over
  <2> QED BY <1>1, <1>4, <2>1, <2>2 DEF DealerInv, ClockInv
<1> QED
  BY <1>5, <1>6, <1>7, <1>8 DEF DealerInv

(* The values are added to the totals, as the log has done already.         *)
LEMMA AddToLogInv ==
  ASSUME DealerInv, AddToLog
  PROVE  DealerInv'
<1>1. /\ phase = "score" /\ match' = AddValues(match) /\ phase' = "final"
      /\ UNCHANGED <<errs, toSend, elapsed, inbox, half, tlog, recovered>>
  BY DEF AddToLog, clockVars, socketVars
<1>2. Good(match) /\ match.hand.finished /\ ~MatchOver(match)
  BY <1>1 DEF DealerInv, MatchInv, Over
<1>3. Good(match') /\ match'.hand = match.hand
  BY <1>1, <1>2, ValuedMatch
<1>4. TypesInv'
  BY <1>1 DEF DealerInv, TypesInv, Phases
<1>5. MatchInv'
  BY <1>1, <1>2, <1>3 DEF MatchInv, InPlay, Over, MatchOver
<1>6. RecoveryInv'
  <2>1. recovered.match = SetUpNewHand(match')
    BY <1>1, <1>2 DEF DealerInv, RecoveryInv, RecoveryAgrees, AheadMatch, Completed
  <2> QED BY <1>1, <2>1 DEF DealerInv, RecoveryInv, RecoveryAgrees, AheadMatch, ReadsAlike
<1>7. ClockInv'
  <2>1. \A seat : Due(seat)' = 0 /\ Due(seat) = 0
    BY <1>1 DEF Due
  <2>2. HandIsLogged
    BY <1>1 DEF HandIsLogged, Over
  <2> QED BY <1>1, <2>1, <2>2 DEF DealerInv, ClockInv
<1> QED
  BY <1>4, <1>5, <1>6, <1>7 DEF DealerInv

(* The next hand is dealt, and the match has caught up.                     *)
LEMMA StartNewHandInv ==
  ASSUME GameIsPlayable, DealerInv, StartNewHand
  PROVE  DealerInv'
<1>1. /\ phase = "next" /\ match' = SetUpNewHand(match) /\ errs' = NewHandErrs(errs)
      /\ phase' = IF MatchOver(match') THEN "done" ELSE "send"
      /\ UNCHANGED <<toSend, elapsed, inbox, half, tlog, recovered>>
  BY DEF StartNewHand, clockVars, socketVars, fileVars
<1>2. phase' \in {"send", "done"} /\ (phase' = "send" => ~MatchOver(match'))
  BY <1>1
<1>3. Good(match') /\ ~match'.hand.finished
  BY <1>1, NextMatch DEF DealerInv, MatchInv
<1>4. errs \in ErrInfo /\ WithinLimits(errs) /\ recovered.errs.usedHand = NoTime
  BY <1>1 DEF DealerInv, TypesInv, ClockInv, HandIsLogged, Over
<1>5. /\ errs' \in ErrInfo /\ errs'.usedHand = NoTime /\ errs'.usedMatch = errs.usedMatch
      /\ WithinLimits(errs')
  BY <1>1, <1>4, FreshHandTime
<1>6. TypesInv'
  BY <1>1, <1>2, <1>5 DEF DealerInv, TypesInv, Phases
<1>7. MatchInv'
  BY <1>1, <1>2, <1>3 DEF MatchInv, InPlay, Over
<1>8. RecoveryInv'
  BY <1>1, <1>2 DEF DealerInv, RecoveryInv, RecoveryAgrees, AheadMatch, ReadsAlike
<1>9. ClockInv'
  <2>1. \A seat : Due(seat)' = 0 /\ Due(seat) = 0
    BY <1>1, <1>2 DEF Due
  <2>2. ~HandIsLogged' /\ phase' # "log"
    BY <1>2 DEF HandIsLogged, Over
  <2>3. \A seat \in Seats : NoTime[seat] + 0 <= NoTime[seat]
    BY DEF NoTime
  <2> QED BY <1>1, <1>4, <1>5, <2>1, <2>2, <2>3 DEF DealerInv, ClockInv
<1> QED
  BY <1>6, <1>7, <1>8, <1>9 DEF DealerInv

-----------------------------------------------------------------------------
(* DealerInv is inductive.                                                  *)
LEMMA StepInv ==
  ASSUME GameIsPlayable, DealerInv, [DealerNext]_dealerVars
  PROVE  DealerInv'
<1>1. CASE UNCHANGED dealerVars
  <2>1. UNCHANGED <<phase, match, errs, toSend, pending, elapsed, inbox, half, tlog, recovered>>
    BY <1>1 DEF dealerVars, clockVars, socketVars, fileVars
  <2>2. TypesInv'
    BY <2>1 DEF DealerInv, TypesInv, Seat
  <2> QED BY <2>1, <2>2, QuietInv DEF SameKind
<1>2. CASE ReadResponse
  BY <1>2, ReadResponseInv
<1>3. CASE Crash
  BY <1>3, StopInv DEF Crash
<1>4. CASE \E seat \in Seats : Reply(seat) \/ Stray(seat)
  BY <1>4, ArrivalInv
<1> QED
  BY <1>1, <1>2, <1>3, <1>4, StartInv, SendStateInv, LogTransactionInv, ActInv, AddToLogInv,
     StartNewHandInv, TickInv, FinishLineInv DEF DealerNext, ReadResponse

(* DealerInv is an invariant.                                               *)
LEMMA DealerInvHolds ==
  ASSUME GameIsPlayable
  PROVE  DealerSpec => []DealerInv
<1>1. DealerInit => DealerInv
  BY InitInv
<1>2. DealerInv /\ [DealerNext]_dealerVars => DealerInv'
  BY StepInv
<1> QED
  BY <1>1, <1>2, PTL DEF DealerSpec

(* Whenever a dealer runs, replaying the transaction log leads to the hand, *)
(* the seats, the cards and the totals the running match is about to have:  *)
(* the log is written before the action is taken, never after.              *)
THEOREM LogRecreatesTheMatch ==
  ASSUME GameIsPlayable
  PROVE  DealerSpec => []RecoveryAgrees
<1>1. DealerInv => RecoveryAgrees
  BY DEF DealerInv, RecoveryInv
<1> QED
  BY <1>1, DealerInvHolds, PTL

(* Whenever a dealer was stopped, the next one accepts every line of the    *)
(* transaction log: the times in it fit the limits, the actions are valid   *)
(* as they are printed and belong to the hand that is being replayed.       *)
THEOREM LogIsAccepted ==
  ASSUME GameIsPlayable
  PROVE  DealerSpec => []CanAlwaysRestart
<1>1. DealerInv => CanAlwaysRestart
  BY DEF DealerInv, RecoveryInv, CanAlwaysRestart
<1> QED
  BY <1>1, DealerInvHolds, PTL

-----------------------------------------------------------------------------
(***************************************************************************)
(* What the players are shown                                              *)
(***************************************************************************)
IsView(v) ==
  /\ v = [player |-> v.player, handId |-> v.handId, dealt |-> v.dealt, betting |-> v.betting]
  /\ v.handId \in Nat /\ v.betting \in Seq(LogEntry)

(* Of a hand that is over, or of a betting that has gone on since.          *)
Earlier(v, w) ==
  v.handId < w.handId \/ (v.handId = w.handId /\ Len(v.betting) < Len(w.betting))

(* A prefix, an entry at a time.                                            *)
LEMMA PrefixByEntry ==
  ASSUME NEW S, NEW s \in Seq(S), NEW t \in Seq(S)
  PROVE  IsPrefix(s, t) <=> Len(s) <= Len(t) /\ \A i \in 1 .. Len(s) : s[i] = t[i]
<1>1. SubSeq(s, 1, Len(s)) = s
  OBVIOUS
<1>2. ASSUME Len(s) <= Len(t)
      PROVE  s = SubSeq(t, 1, Len(s)) <=> \A i \in 1 .. Len(s) : s[i] = t[i]
  <2> DEFINE u == SubSeq(t, 1, Len(s))
  <2>1. u \in Seq(S) /\ Len(u) = Len(s) /\ \A i \in 1 .. Len(s) : u[i] = t[i]
    BY <1>2
  <2> HIDE DEF u
  <2>2. (\A i \in 1 .. Len(s) : s[i] = u[i]) => s = u
    BY <2>1
  <2> QED BY <2>1, <2>2 DEF u
<1> QED
  BY <1>1, <1>2 DEF IsPrefix

(* LaterView without its EXCEPTs.                                           *)
LEMMA LaterByParts ==
  ASSUME NEW v, NEW w, IsView(v), IsView(w)
  PROVE  LaterView(v, w) <=>
           \/ v.handId < w.handId
           \/ /\ v.player = w.player /\ v.handId = w.handId /\ v.dealt = w.dealt
              /\ IsPrefix(v.betting, w.betting)
<1>1. v # NoView
  BY DEF IsView, NoView
<1>2. /\ [v EXCEPT !.betting = << >>]
           = [player |-> v.player, handId |-> v.handId, dealt |-> v.dealt, betting |-> << >>]
      /\ [w EXCEPT !.betting = << >>]
           = [player |-> w.player, handId |-> w.handId, dealt |-> w.dealt, betting |-> << >>]
  BY DEF IsView
<1> QED
  BY <1>1, <1>2 DEF LaterView

(* LaterView is a preorder.                                                 *)
LEMMA LaterReflexive ==
  ASSUME NEW v, IsView(v)
  PROVE  LaterView(v, v)
<1>1. IsPrefix(v.betting, v.betting)
  BY DEF IsView, IsPrefix
<1> QED
  BY <1>1, LaterByParts

(* ... where NoView comes before everything.                                *)
LEMMA LaterTransitive ==
  ASSUME NEW u, u = NoView \/ IsView(u), NEW v, IsView(v), NEW w, IsView(w),
         LaterView(u, v), LaterView(v, w)
  PROVE  LaterView(u, w)
<1>1. CASE u = NoView
  BY <1>1 DEF LaterView
<1>2. CASE IsView(u)
  <2>1. /\ u.handId \in Nat /\ v.handId \in Nat /\ w.handId \in Nat
        /\ u.betting \in Seq(LogEntry) /\ v.betting \in Seq(LogEntry)
        /\ w.betting \in Seq(LogEntry)
    BY <1>2 DEF IsView
  <2>2. IsPrefix(u.betting, v.betting) /\ IsPrefix(v.betting, w.betting)
          => IsPrefix(u.betting, w.betting)
    <3> DEFINE a == u.betting
               b == v.betting
               c == w.betting
    <3>1. a \in Seq(LogEntry) /\ b \in Seq(LogEntry) /\ c \in Seq(LogEntry)
      BY <2>1
    <3> HIDE DEF a, b, c
    <3>2. SUFFICES ASSUME IsPrefix(a, b), IsPrefix(b, c) PROVE IsPrefix(a, c)
      BY DEF a, b, c
    <3>3. Len(a) <= Len(b) /\ \A i \in 1 .. Len(a) : a[i] = b[i]
      BY <3>1, <3>2, PrefixByEntry
    <3>4. Len(b) <= Len(c) /\ \A i \in 1 .. Len(b) : b[i] = c[i]
      BY <3>1, <3>2, PrefixByEntry
    <3>5. Len(a) <= Len(c) /\ \A i \in 1 .. Len(a) : a[i] = c[i]
      <4>1. Len(a) \in Nat /\ Len(b) \in Nat /\ Len(c) \in Nat
        BY <3>1
      <4>2. \A i \in 1 .. Len(a) : i \in 1 .. Len(b)
        BY <3>3, <4>1
      <4> QED BY <3>3, <3>4, <4>1, <4>2
    <3> QED BY <3>1, <3>5, PrefixByEntry
  <2> QED BY <1>2, <2>1, <2>2, LaterByParts
<1> QED
  BY <1>1, <1>2

(* A view that is outdated stays so, and one that is not the latest is.     *)
LEMMA EarlierStays ==
  ASSUME NEW u, IsView(u), NEW v, IsView(v), NEW w, IsView(w),
         LaterView(v, w)
  PROVE  /\ Earlier(u, v) => Earlier(u, w)
         /\ v # w => Earlier(v, w)
         /\ ~Earlier(u, u)
<1>1. /\ u.handId \in Nat /\ v.handId \in Nat /\ w.handId \in Nat
      /\ u.betting \in Seq(LogEntry) /\ v.betting \in Seq(LogEntry)
      /\ w.betting \in Seq(LogEntry)
      /\ Len(u.betting) \in Nat /\ Len(v.betting) \in Nat /\ Len(w.betting) \in Nat
  BY DEF IsView
<1>2. \/ v.handId < w.handId
      \/ /\ v.player = w.player /\ v.handId = w.handId /\ v.dealt = w.dealt
         /\ Len(v.betting) <= Len(w.betting)
         /\ \A i \in 1 .. Len(v.betting) : v.betting[i] = w.betting[i]
  BY <1>1, LaterByParts, PrefixByEntry
<1>3. ASSUME v # w, v.handId = w.handId PROVE Len(v.betting) < Len(w.betting)
  <2>1. v.betting # w.betting
    BY <1>1, <1>2, <1>3 DEF IsView
  <2>2. Len(v.betting) = Len(w.betting) /\ v.handId = w.handId => v.betting = w.betting
    BY <1>1, <1>2
  <2> QED BY <1>1, <1>2, <1>3, <2>1, <2>2
<1> QED
  BY <1>1, <1>2, <1>3 DEF Earlier

(***************************************************************************)
(* ... of a match that goes on                                             *)
(***************************************************************************)
LEMMA ViewIsView ==
  ASSUME NEW m, Good(m), NEW seat
  PROVE  IsView(View(m, seat))
<1>1. Betting(m.hand) \in Seq(LogEntry) /\ m.hand.handId \in Nat
  <2>1. m.hand \in State
    BY DEF Good, HandChips
  <2>2. m.hand.action \in Logs /\ m.hand.round + 1 \in 1 .. NumRounds
    <3>1. m.hand.action \in Logs /\ m.hand.round \in Rounds /\ NumRounds \in Nat
      BY <2>1, GameAssumption DEF State, Logs
    <3> QED BY <3>1
  <2> QED BY <2>1, <2>2, BettingIsJoined, JoinedIsLog DEF State
<1> QED
  BY <1>1 DEF IsView, View

(* The betting of a hand grows.                                             *)
LEMMA PlayedView ==
  ASSUME NEW m, Good(m), NEW f, Playable(m.hand, f), NEW t, t = DoHandAction(m, f),
         NEW seat
  PROVE  Good(t) /\ LaterView(View(m, seat), View(t, seat))
<1>1. /\ Good(t) /\ t.hand = DoAction(m.hand, f) /\ t.hand.handId = m.hand.handId
      /\ t.player0Seat = m.player0Seat /\ t.dealt = m.dealt
  BY PlayedMatch
<1>2. PICK e \in LogEntry : Betting(t.hand) = Append(Betting(m.hand), e)
  BY <1>1, PlayedBetting DEF Good
<1>3. Betting(m.hand) \in Seq(LogEntry)
  BY <1>1, PlayedBetting DEF Good
<1>4. IsPrefix(Betting(m.hand), Betting(t.hand))
  BY <1>2, <1>3 DEF IsPrefix
<1>5. /\ View(m, seat).player = View(t, seat).player /\ View(m, seat).dealt = View(t, seat).dealt
      /\ View(m, seat).handId = View(t, seat).handId
      /\ IsPrefix(View(m, seat).betting, View(t, seat).betting)
  BY <1>1, <1>4 DEF View, SeatToPlayer
<1>6. IsView(View(m, seat)) /\ IsView(View(t, seat))
  BY <1>1, ViewIsView
<1> QED
  BY <1>1, <1>5, <1>6, LaterByParts

(* The next hand is later than all of this one.                             *)
LEMMA NextView ==
  ASSUME GameIsPlayable, NEW m, Good(m), NEW t, t = SetUpNewHand(m), NEW seat
  PROVE  LaterView(View(m, seat), View(t, seat))
<1>1. Good(t) /\ t.hand.handId = m.hand.handId + 1
  BY NextMatch
<1>2. View(m, seat).handId < View(t, seat).handId
  <2>1. m.hand.handId \in Nat
    BY DEF Good, HandChips, State
  <2> QED BY <1>1, <2>1 DEF View
<1> QED
  BY <1>1, <1>2, ViewIsView, LaterByParts

(* Values are not shown; a hand that is over gives way to the next.         *)
LEMMA CompletedView ==
  ASSUME GameIsPlayable, NEW m, Good(m), NEW t, t = Completed(m), NEW seat
  PROVE  /\ Good(t)
         /\ LaterView(View(m, seat), View(t, seat))
         /\ View(AddValues(m), seat) = View(m, seat)
<1> DEFINE v == AddValues(m)
<1>1. Good(v) /\ v.hand = m.hand /\ v.player0Seat = m.player0Seat /\ v.dealt = m.dealt
  <2>1. v.player0Seat = m.player0Seat /\ v.dealt = m.dealt
    BY DEF AddValues, Good
  <2> QED BY <2>1, ValuedMatch
<1>2. View(v, seat) = View(m, seat)
  BY <1>1 DEF View, SeatToPlayer
<1> HIDE DEF v
<1>3. CASE m.hand.finished
  <2>1. t = SetUpNewHand(v)
    BY <1>3 DEF Completed, v
  <2> QED BY <1>1, <1>2, <2>1, NextView, NextMatch DEF v
<1>4. CASE ~m.hand.finished
  <2>1. t = m
    BY <1>4 DEF Completed
  <2> QED BY <1>2, <2>1, ViewIsView, LaterReflexive DEF v
<1> QED
  BY <1>3, <1>4

-----------------------------------------------------------------------------
(***************************************************************************)
(* The inductive invariant of what the players have seen and sent          *)
(***************************************************************************)
SeenTypes ==
  /\ seen = [seat \in Seats |-> seen[seat]]
  /\ \A seat \in Seats :
       /\ seen[seat] = [view |-> seen[seat].view, choice |-> seen[seat].choice]
       /\ seen[seat].view = NoView \/ IsView(seen[seat].view)

SeenInv ==
  /\ SeenTypes
  /\ phase \notin {"send", "final"} => toSend = 0
  /\ \A seat \in Seats : LaterView(seen[seat].view, View(recovered.match, seat))
  /\ phase # "down" => \A seat \in Seats : LaterView(seen[seat].view, View(match, seat))
  /\ phase = "send" =>
       \A seat \in Seats : seat < toSend => seen[seat].view = View(match, seat)
  /\ phase = "wait" => \A seat \in Seats : seen[seat].view = View(match, seat)

(* The answer to the state on the table, and what comes too late.           *)
Asked(seat, line) ==
  /\ phase = "wait" /\ seat = Seat
  /\ line.kind = "answer" /\ line.view = View(match, seat) /\ line.action = seen[seat].choice

Late(seat, line) ==
  line.kind = "answer" => IsView(line.view) /\ Earlier(line.view, View(match, seat))

Told(seat, line) == Asked(seat, line) \/ (strays # 0 /\ Late(seat, line))

MailInv ==
  /\ strays \in Nat
  /\ \A seat \in Seats :
       inbox[seat] # << >> => phase # "down" /\ Told(seat, Head(inbox[seat]))
  /\ half # << >> => Told(Seat, Head(half))

(* Without strays no time is charged that is not logged.                    *)
ExactInv ==
  strays = 0 /\ phase # "down" =>
    \A seat \in Seats :
      /\ recovered.errs.usedMatch[seat] + Due(seat) = errs.usedMatch[seat]
      /\ ~HandIsLogged => recovered.errs.usedHand[seat] + Due(seat) = errs.usedHand[seat]

PlayersInv == SeenInv /\ MailInv /\ ChoiceIsHonoured /\ ExactInv

(* What was seen stays in line with a match that goes on.                   *)
ViewsStay == \A seat \in Seats : seen'[seat].view = seen[seat].view

(* What the players have seen is not overtaken when the matches on the table*)
(* and in the log only go on.                                               *)
LEMMA SeenStays ==
  ASSUME DealerInv, DealerInv', SeenInv, SeenTypes', ViewsStay,
         phase' \notin {"send", "final"} => toSend' = 0,
         phase' = "send" => toSend' = 0,
         phase' = "wait" => phase = "wait" /\ match' = match,
         \A seat \in Seats : LaterView(View(recovered.match, seat), View(recovered'.match, seat)),
         phase' # "down" =>
           \/ match' = recovered'.match
           \/ /\ phase # "down"
              /\ \A seat \in Seats : LaterView(View(match, seat), View(match', seat))
  PROVE  SeenInv'
<1>1. /\ Good(match) /\ Good(match') /\ Good(recovered.match) /\ Good(recovered'.match)
  BY DEF DealerInv, MatchInv, RecoveryInv
<1>2. \A seat \in Seats : /\ IsView(View(match, seat)) /\ IsView(View(match', seat))
                          /\ IsView(View(recovered.match, seat))
                          /\ IsView(View(recovered'.match, seat))
  BY <1>1, ViewIsView
<1>3. ASSUME NEW seat \in Seats
      PROVE  LaterView(seen'[seat].view, View(recovered'.match, seat))
  <2> DEFINE v == seen[seat].view
  <2>1. /\ v = NoView \/ IsView(v)
        /\ LaterView(v, View(recovered.match, seat)) /\ seen'[seat].view = v
    BY DEF SeenInv, SeenTypes, ViewsStay
  <2> HIDE DEF v
  <2> QED BY <1>2, <2>1, LaterTransitive
<1>4. ASSUME NEW seat \in Seats, phase' # "down"
      PROVE  LaterView(seen'[seat].view, View(match', seat))
  <2>1. CASE match' = recovered'.match
    BY <1>3, <2>1
  <2>2. CASE /\ phase # "down"
             /\ \A q \in Seats : LaterView(View(match, q), View(match', q))
    <3> DEFINE v == seen[seat].view
    <3>1. /\ v = NoView \/ IsView(v)
          /\ LaterView(v, View(match, seat)) /\ seen'[seat].view = v
      BY <2>2 DEF SeenInv, SeenTypes, ViewsStay
    <3>2. LaterView(View(match, seat), View(match', seat))
      BY <2>2
    <3> HIDE DEF v
    <3> QED BY <1>2, <3>1, <3>2, LaterTransitive
  <2> QED BY <1>4, <2>1, <2>2
<1>5. phase' = "send" =>
        \A seat \in Seats : seat < toSend' => seen'[seat].view = View(match', seat)
  <2>1. \A seat \in Seats : ~(seat < 0)
    OBVIOUS
  <2> QED BY <2>1
<1>6. phase' = "wait" => \A seat \in Seats : seen'[seat].view = View(match', seat)
  BY DEF SeenInv, ViewsStay
<1> QED
  BY <1>3, <1>4, <1>5, <1>6 DEF SeenInv

(* Before the first dealer is started nobody has seen anything.             *)
LEMMA InitPlayers ==
  ASSUME GameIsPlayable, DealerInit
  PROVE  PlayersInv
<1>1. SeenInv
  BY DEF DealerInit, SeenInv, SeenTypes, LaterView
<1>2. MailInv /\ ChoiceIsHonoured /\ ExactInv
  BY DEF DealerInit, MailInv, ChoiceIsHonoured, ExactInv
<1> QED
  BY <1>1, <1>2 DEF PlayersInv

(* A player whose connection is gone has seen what it has seen.             *)
LEMMA StopPlayers ==
  ASSUME DealerInv, DealerInv', PlayersInv, Stop
  PROVE  PlayersInv' /\ ViewsStay
<1>1. /\ phase' = "down" /\ toSend' = 0 /\ recovered' = recovered /\ strays' = strays
      /\ inbox' = [seat \in Seats |-> << >>] /\ half' = << >>
      /\ seen' = [seat \in Seats |-> [seen[seat] EXCEPT !.choice = CallInstead]]
  BY DEF Stop, fileVars
<1>2. ASSUME NEW seat \in Seats
      PROVE  /\ seen'[seat].view = seen[seat].view
             /\ seen'[seat] = [view |-> seen'[seat].view, choice |-> seen'[seat].choice]
             /\ seen'[seat].view = NoView \/ IsView(seen'[seat].view)
             /\ LaterView(View(recovered.match, seat), View(recovered'.match, seat))
  <2>1. /\ seen[seat] = [view |-> seen[seat].view, choice |-> seen[seat].choice]
        /\ seen[seat].view = NoView \/ IsView(seen[seat].view)
    BY DEF PlayersInv, SeenInv, SeenTypes
  <2>2. seen'[seat] = [view |-> seen[seat].view, choice |-> CallInstead]
    BY <1>1, <2>1
  <2>3. LaterView(View(recovered.match, seat), View(recovered'.match, seat))
    BY <1>1, ViewIsView, LaterReflexive DEF DealerInv, RecoveryInv
  <2> QED BY <2>1, <2>2, <2>3
<1>3. ViewsStay /\ SeenTypes'
  BY <1>1, <1>2 DEF ViewsStay, SeenTypes
<1>4. SeenInv'
  BY <1>1, <1>2, <1>3, SeenStays DEF PlayersInv
<1>5. MailInv' /\ ChoiceIsHonoured' /\ ExactInv'
  BY <1>1 DEF PlayersInv, MailInv, ChoiceIsHonoured, ExactInv
<1> QED
  BY <1>3, <1>4, <1>5 DEF PlayersInv

(* A new dealer's match is the one in the log, which is not behind what was *)
(* seen.                                                                    *)
LEMMA StartPlayers ==
  ASSUME GameIsPlayable, DealerInv, DealerInv', PlayersInv, Start
  PROVE  PlayersInv' /\ ViewsStay
<1>1. /\ phase = "down" /\ phase' \in {"send", "done"}
      /\ match' = recovered.match /\ recovered'.match = recovered.match
      /\ errs' = recovered'.errs /\ recovered'.errs \in ErrInfo
      /\ UNCHANGED <<toSend, inbox, half, seen, strays>>
  BY StartEffect
<1>2. ViewsStay /\ SeenTypes' /\ toSend' = 0
  BY <1>1 DEF ViewsStay, PlayersInv, SeenInv, SeenTypes
<1>3. \A seat \in Seats : LaterView(View(recovered.match, seat), View(recovered'.match, seat))
  BY <1>1, ViewIsView, LaterReflexive DEF DealerInv, RecoveryInv
<1>4. SeenInv'
  BY <1>1, <1>2, <1>3, SeenStays DEF PlayersInv
<1>5. MailInv' /\ ChoiceIsHonoured'
  BY <1>1 DEF PlayersInv, MailInv, ChoiceIsHonoured, DealerInv, TypesInv
<1>6. ExactInv'
  <2>1. \A seat \in Seats : Due(seat)' = 0
    BY <1>1 DEF Due
  <2>2. \A seat \in Seats : recovered'.errs.usedHand[seat] \in Nat
                              /\ recovered'.errs.usedMatch[seat] \in Nat
    BY <1>1 DEF ErrInfo, Counters
  <2> QED BY <1>1, <2>1, <2>2 DEF ExactInv
<1> QED
  BY <1>2, <1>4, <1>5, <1>6 DEF PlayersInv

(* Nobody is asked before everybody has the state.                          *)
LEMMA NothingAsked ==
  ASSUME MailInv, phase # "wait", UNCHANGED <<inbox, half, strays>>, phase' # "down",
         DealerInv, DealerInv',
         \A seat \in Seats : LaterView(View(match, seat), View(match', seat))
  PROVE  MailInv'
<1>1. ASSUME NEW seat \in Seats, inbox'[seat] # << >>
      PROVE  strays' # 0 /\ Late(seat, Head(inbox[seat]))'
  <2> DEFINE l == Head(inbox[seat])
  <2>1. l' = l /\ strays # 0 /\ Late(seat, l)
    BY <1>1 DEF MailInv, Told, Asked
  <2>2. IsView(View(match, seat)) /\ IsView(View(match', seat))
    BY ViewIsView DEF DealerInv, MatchInv
  <2>3. LaterView(View(match, seat), View(match', seat))
    OBVIOUS
  <2> HIDE DEF l
  <2>4. Late(seat, l)'
    BY <2>1, <2>2, <2>3, EarlierStays DEF Late
  <2> QED BY <2>1, <2>4 DEF l
<1>2. half' = << >>
  BY DEF DealerInv, TypesInv
<1> QED
  BY <1>1, <1>2 DEF MailInv, Told

(* The next seat gets the state on the table.                               *)
SeesMore == \A seat \in Seats : LaterView(seen[seat].view, seen'[seat].view)

(* The only step that shows something new: it is the state on the table, and*)
(* the state on the table is not behind what the seat has seen.             *)
LEMMA SendStatePlayers ==
  ASSUME GameIsPlayable, DealerInv, DealerInv', PlayersInv, SendState
  PROVE  PlayersInv' /\ SeesMore
<1> DEFINE n == toSend
<1>1. /\ phase \in {"send", "final"} /\ SameKind(phase, phase') /\ n \in Seats
      /\ seen' = [seen EXCEPT ![n] = [view |-> View(match, n), choice |-> Undecided]]
      /\ UNCHANGED <<match, errs, pending, inbox, half, strays, recovered>>
      /\ phase' = phase => toSend' = n + 1
      /\ phase' # phase => n = NumPlayers - 1 /\ toSend' = 0
  <2>1. n \in Nat /\ n + 1 <= NumPlayers /\ NumPlayers \in Nat /\ NumPlayers >= 2
    BY Sizes DEF DealerInv, TypesInv
  <2>2. ASSUME n + 1 < NumPlayers PROVE toSend' = n + 1 /\ phase' = phase
    <3>1. (n + 1) % NumPlayers = n + 1
      <4>1. n + 1 \in 0 .. NumPlayers - 1 /\ NumPlayers \in Nat \ {0}
        BY <2>1, <2>2
      <4> QED BY <4>1, ModWrap
    <3> QED BY <2>1, <2>2, <3>1 DEF SendState
  <2>3. n + 1 = NumPlayers => toSend' = 0
    BY <2>1, ModWrap DEF SendState
  <2>4. /\ n + 1 = NumPlayers /\ phase = "send" => phase' = "wait"
        /\ n + 1 = NumPlayers /\ phase = "final" => phase' = "next"
    BY <2>1 DEF SendState
  <2> QED BY <2>1, <2>2, <2>3, <2>4 DEF SendState, SameKind, DealerInv, TypesInv, fileVars
<1>2. /\ Good(match) /\ Good(recovered.match)
      /\ \A seat \in Seats : IsView(View(match, seat)) /\ IsView(View(recovered.match, seat))
  BY ViewIsView DEF DealerInv, MatchInv, RecoveryInv
<1> HIDE DEF n
<1>3. ASSUME NEW seat \in Seats
      PROVE  seen'[seat] = IF seat = n THEN [view |-> View(match, n), choice |-> Undecided]
                           ELSE seen[seat]
  BY <1>1 DEF PlayersInv, SeenInv, SeenTypes
<1>4. SeenTypes'
  <2>1. seen' = [seat \in Seats |-> seen'[seat]]
    BY <1>1 DEF PlayersInv, SeenInv, SeenTypes
  <2> QED BY <1>2, <1>3, <2>1 DEF PlayersInv, SeenInv, SeenTypes
<1>5. \A seat \in Seats : LaterView(View(match, seat), View(recovered.match, seat))
  <2>1. CASE phase = "send"
    <3>1. recovered.match = match
      BY <2>1 DEF DealerInv, RecoveryInv, RecoveryAgrees, AheadMatch
    <3> QED BY <1>2, <3>1, LaterReflexive
  <2>2. CASE phase = "final"
    <3>1. recovered.match = SetUpNewHand(match)
      BY <2>2 DEF DealerInv, RecoveryInv, RecoveryAgrees, AheadMatch
    <3> QED BY <1>2, <3>1, NextView
  <2> QED BY <1>1, <2>1, <2>2
<1>6. ASSUME NEW seat \in Seats
      PROVE  /\ LaterView(seen'[seat].view, View(recovered.match, seat))
             /\ LaterView(seen'[seat].view, View(match, seat))
             /\ LaterView(seen[seat].view, seen'[seat].view)
  <2>1. CASE seat = n
    <3>1. seen'[seat].view = View(match, seat)
      BY <1>3, <2>1
    <3> QED BY <1>1, <1>2, <1>5, <3>1, LaterReflexive DEF PlayersInv, SeenInv
  <2>2. CASE seat # n
    <3>1. seen'[seat].view = seen[seat].view
      BY <1>3, <2>2
    <3>2. LaterView(seen[seat].view, seen[seat].view)
      <4>1. seen[seat].view = NoView \/ IsView(seen[seat].view)
        BY DEF PlayersInv, SeenInv, SeenTypes
      <4> QED BY <4>1, LaterReflexive DEF LaterView
    <3> QED BY <1>1, <3>1, <3>2 DEF PlayersInv, SeenInv
  <2> QED BY <2>1, <2>2
<1>7. ASSUME phase = "send", NEW seat \in Seats, phase' = "send" => seat < toSend'
      PROVE  seen'[seat].view = View(match, seat)
  <2>1. seat = n \/ seat < n
    <3>1. n \in Nat /\ NumPlayers \in Nat /\ seat \in Nat /\ seat <= NumPlayers - 1
      BY <1>1, Sizes
    <3>2. phase' = phase \/ phase' # phase
      OBVIOUS
    <3>3. CASE phase' = phase
      BY <1>1, <1>7, <3>1, <3>3
    <3>4. CASE phase' # phase
      BY <1>1, <3>1, <3>4
    <3> QED BY <3>3, <3>4
  <2>2. CASE seat = n
    BY <1>3, <2>2
  <2>3. CASE seat < n
    <3>1. seat # n
      BY <1>1, <2>3
    <3> QED BY <1>3, <1>7, <2>3, <3>1 DEF PlayersInv, SeenInv, n
  <2> QED BY <2>1, <2>2, <2>3
<1>8. SeenInv'
  <2>1. phase' \notin {"send", "final"} => toSend' = 0
    BY <1>1 DEF SameKind
  <2>2. phase' \in {"send", "wait"} => phase = "send"
    BY <1>1 DEF SameKind
  <2> QED BY <1>1, <1>4, <1>6, <1>7, <2>1, <2>2 DEF SeenInv
<1>9. MailInv'
  BY <1>1, <1>2, NothingAsked, LaterReflexive DEF PlayersInv, SameKind
<1>10. ChoiceIsHonoured'
  BY <1>1 DEF ChoiceIsHonoured, SameKind
<1>11. ExactInv'
  <2>1. \A seat : Due(seat)' = Due(seat)
    BY <1>1 DEF Due, SameKind
  <2>2. HandIsLogged' = HandIsLogged
    BY <1>1 DEF HandIsLogged, SameKind, Over
  <2> QED BY <1>1, <2>1, <2>2 DEF PlayersInv, ExactInv, SameKind
<1> QED
  BY <1>1, <1>6, <1>8, <1>9, <1>10, <1>11 DEF PlayersInv, SeesMore

(* A line read from the acting seat; nothing is asked of the others.        *)
LEMMA LineReadPlayers ==
  ASSUME DealerInv, DealerInv', PlayersInv, Waiting, LineRead, inbox[Seat] # << >>,
         phase' \in {"wait", "log"}
  PROVE  SeenInv' /\ MailInv' /\ ViewsStay
<1>1. /\ phase = "wait" /\ Seat \in Seats /\ inbox'[Seat] = << >>
      /\ \A seat \in Seats : seat # Seat => inbox'[seat] = inbox[seat]
      /\ UNCHANGED <<match, toSend, seen, strays, recovered>>
  BY LineReadInv DEF Waiting
<1>2. \A seat \in Seats : /\ LaterView(View(match, seat), View(match, seat))
                          /\ LaterView(View(recovered.match, seat), View(recovered.match, seat))
  BY ViewIsView, LaterReflexive DEF DealerInv, MatchInv, RecoveryInv
<1>3. ViewsStay /\ SeenTypes' /\ toSend' = 0
  BY <1>1 DEF ViewsStay, PlayersInv, SeenInv, SeenTypes
<1>4. SeenInv'
  BY <1>1, <1>2, <1>3, SeenStays DEF PlayersInv
<1>5. ASSUME NEW seat \in Seats, inbox'[seat] # << >>
      PROVE  strays' # 0 /\ Late(seat, Head(inbox[seat]))'
  <2>1. seat # Seat /\ inbox'[seat] = inbox[seat]
    BY <1>1, <1>5
  <2>2. strays # 0 /\ Late(seat, Head(inbox[seat]))
    BY <1>5, <2>1 DEF PlayersInv, MailInv, Told, Asked
  <2> QED BY <1>1, <2>1, <2>2 DEF Late
<1>6. MailInv'
  <2>1. half' = << >>
    BY LineReadInv
  <2> QED BY <1>1, <1>5, <2>1 DEF PlayersInv, MailInv, Told
<1> QED
  BY <1>3, <1>4, <1>6

(* What the dealer takes for an answer is the answer to the state shown.    *)
LEMMA AnswerIsChoice ==
  ASSUME DealerInv, PlayersInv, Waiting, inbox[Seat] # << >>, LineRead
  PROVE  /\ strays = 0 => Matches
         /\ Matches => Answer.action = seen[Seat].choice /\ Answer.action # Undecided
<1>1. Seat \in Seats /\ Answer.action \in Requests /\ phase = "wait"
  BY LineReadInv DEF Answer, Waiting
<1>2. Asked(Seat, Answer) \/ (strays # 0 /\ Late(Seat, Answer))
  BY <1>1 DEF PlayersInv, MailInv, Told, Answer
<1>3. Matches => ~Late(Seat, Answer)
  <2> DEFINE v == View(match, Seat)
  <2>1. IsView(v)
    BY ViewIsView DEF DealerInv, MatchInv
  <2>2. Matches => Answer.kind = "answer" /\ Answer.view = v
    BY DEF Matches
  <2>3. Late(Seat, Answer) => (Answer.kind = "answer" => Earlier(Answer.view, v))
    BY DEF Late
  <2> HIDE DEF v
  <2>4. ~Earlier(v, v)
    BY <2>1, LaterReflexive, EarlierStays
  <2> QED BY <2>2, <2>3, <2>4
<1>4. Asked(Seat, Answer) => Matches
  BY DEF Asked, Matches
<1>5. Answer.action # Undecided
  BY <1>1 DEF Requests, Undecided
<1> QED
  BY <1>2, <1>3, <1>4, <1>5 DEF Asked

(* A line that is skipped or ignored is no answer, so it was a stray.       *)
LEMMA SkipPlayers ==
  ASSUME DealerInv, DealerInv', PlayersInv, SkipComment \/ IgnoreLine
  PROVE  PlayersInv' /\ ViewsStay
<1>1. /\ Waiting /\ inbox[Seat] # << >> /\ LineRead /\ phase = "wait"
      /\ UNCHANGED <<phase, pending, match, strays, recovered>>
  BY DEF SkipComment, IgnoreLine, GotLine, ReadOn, LineRead, Waiting, fileVars
<1>2. SeenInv' /\ MailInv' /\ ViewsStay
  BY <1>1, LineReadPlayers
<1>3. ChoiceIsHonoured'
  BY <1>1 DEF ChoiceIsHonoured
<1>4. strays = 0 => errs' = errs
  <2>1. CASE SkipComment
    BY <2>1 DEF SkipComment
  <2>2. CASE IgnoreLine
    BY <1>1, <2>2, AnswerIsChoice DEF IgnoreLine
  <2> QED BY <2>1, <2>2
<1>5. ExactInv'
  <2>1. \A seat : Due(seat)' = Due(seat)
    BY <1>1 DEF Due
  <2>2. HandIsLogged' = HandIsLogged
    BY <1>1 DEF HandIsLogged
  <2> QED BY <1>1, <1>4, <2>1, <2>2 DEF PlayersInv, ExactInv
<1> QED
  BY <1>2, <1>3, <1>5 DEF PlayersInv

(* The action taken is the player's choice, or a call in its place.         *)
LEMMA AcceptPlayers ==
  ASSUME DealerInv, DealerInv', PlayersInv, Waiting, inbox[Seat] # << >>, OnTime, Matches,
         NEW a, Accept(a),
         a = IF /\ Answer.action.type # "malformed"
                /\ IsValidAction(match.hand, TRUE, Answer.action)
             THEN FixedAction(match.hand, Answer.action) ELSE CallInstead,
         \/ errs' = Charged(errs, Seat, elapsed)
         \/ errs' = OneMoreInvalid(Charged(errs, Seat, elapsed), Seat)
  PROVE  PlayersInv' /\ ViewsStay
<1>1. /\ phase = "wait" /\ phase' = "log" /\ LineRead /\ pending'.action = a
      /\ UNCHANGED <<match, seen, strays, recovered>>
  BY DEF Accept, LineRead, Waiting, fileVars
<1>2. SeenInv' /\ MailInv' /\ ViewsStay
  BY <1>1, LineReadPlayers
<1>3. Answer.action = seen[Seat].choice /\ Answer.action # Undecided
  BY <1>1, AnswerIsChoice
<1>4. ChoiceIsHonoured'
  <2>1. seen'[Seat'] = seen[Seat]
    BY <1>1 DEF Seat
  <2> QED BY <1>1, <1>3, <2>1 DEF ChoiceIsHonoured
<1>5. ExactInv'
  <2>1. ~HandIsLogged /\ ~HandIsLogged'
    BY <1>1 DEF HandIsLogged, Over
  <2>2. ASSUME strays = 0, NEW seat \in Seats
        PROVE  /\ recovered.errs.usedHand[seat] + Due(seat)' = errs'.usedHand[seat]
               /\ recovered.errs.usedMatch[seat] + Due(seat)' = errs'.usedMatch[seat]
    <3>1. /\ Due(seat) = 0 /\ Due(seat)' \in Nat
          /\ errs'.usedHand[seat] = errs.usedHand[seat] + Due(seat)'
          /\ errs'.usedMatch[seat] = errs.usedMatch[seat] + Due(seat)'
      BY AcceptedTime
    <3>2. /\ recovered.errs.usedHand[seat] + Due(seat) = errs.usedHand[seat]
          /\ recovered.errs.usedMatch[seat] + Due(seat) = errs.usedMatch[seat]
      BY <1>1, <2>1, <2>2 DEF PlayersInv, ExactInv
    <3>3. recovered.errs.usedHand[seat] \in Nat /\ recovered.errs.usedMatch[seat] \in Nat
      BY DEF DealerInv, RecoveryInv, ErrInfo, Counters
    <3> DEFINE h == recovered.errs.usedHand[seat]
               k == recovered.errs.usedMatch[seat]
    <3>4. h = errs.usedHand[seat] /\ k = errs.usedMatch[seat]
      <4>1. h \in Nat /\ k \in Nat /\ h + 0 = errs.usedHand[seat] /\ k + 0 = errs.usedMatch[seat]
        BY <3>1, <3>2, <3>3
      <4> HIDE DEF h, k
      <4> QED BY <4>1
    <3> HIDE DEF h, k
    <3>5. h + Due(seat)' = errs'.usedHand[seat] /\ k + Due(seat)' = errs'.usedMatch[seat]
      BY <3>1, <3>4
    <3> QED BY <3>5 DEF h, k
  <2> QED BY <1>1, <2>1, <2>2 DEF ExactInv
<1> QED
  BY <1>2, <1>4, <1>5 DEF PlayersInv

(* Every way round or out of readPlayerResponse.                            *)
LEMMA ReadResponsePlayers ==
  ASSUME DealerInv, DealerInv', PlayersInv, ReadResponse
  PROVE  PlayersInv' /\ ViewsStay
<1>1. CASE RunOutOfTime \/ TimeOut
  BY <1>1, StopPlayers DEF RunOutOfTime, TimeOut
<1>2. CASE SkipComment \/ IgnoreLine
  BY <1>2, SkipPlayers
<1>3. CASE BadFormat
  BY <1>3, AcceptPlayers DEF BadFormat, GotLine
<1>4. CASE InvalidAction
  <2>1. CASE errs.invalid[Seat] + 1 > MaxInvalidActions
    BY <1>4, <2>1, StopPlayers DEF InvalidAction
  <2>2. CASE ~(errs.invalid[Seat] + 1 > MaxInvalidActions)
    BY <1>4, <2>2, AcceptPlayers DEF InvalidAction, GotLine
  <2> QED BY <2>1, <2>2
<1>5. CASE TakeAction
  BY <1>5, AcceptPlayers DEF TakeAction, GotLine
<1> QED
  BY <1>1, <1>2, <1>3, <1>4, <1>5 DEF ReadResponse

(* The log goes on, by the action that was charged.                         *)
LEMMA LogTransactionPlayers ==
  ASSUME GameIsPlayable, DealerInv, DealerInv', PlayersInv, LogTransaction
  PROVE  PlayersInv' /\ ViewsStay
<1>1. /\ phase = "log" /\ phase' = "do"
      /\ UNCHANGED <<match, errs, pending, toSend, inbox, half, seen, strays>>
  BY DEF LogTransaction, socketVars
<1>2. Good(match) /\ Playable(match.hand, pending.action) /\ recovered.match = match
  BY <1>1, LogEffect DEF DealerInv, MatchInv
<1>3. ASSUME NEW seat \in Seats
      PROVE  LaterView(View(recovered.match, seat), View(recovered'.match, seat))
  <2> DEFINE d == DoHandAction(match, pending.action)
  <2>1. recovered'.match = Completed(d)
    BY LogEffect
  <2>2. Good(d) /\ LaterView(View(match, seat), View(d, seat))
    BY <1>2, PlayedView
  <2> HIDE DEF d
  <2>3. Good(recovered'.match) /\ LaterView(View(d, seat), View(recovered'.match, seat))
    BY <2>1, <2>2, CompletedView
  <2> QED BY <1>2, <2>2, <2>3, ViewIsView, LaterTransitive
<1>4. ViewsStay /\ SeenTypes' /\ toSend' = 0
  BY <1>1 DEF ViewsStay, PlayersInv, SeenInv, SeenTypes
<1>5. \A seat \in Seats : LaterView(View(match, seat), View(match', seat))
  BY <1>1, <1>2, ViewIsView, LaterReflexive
<1>6. SeenInv'
  BY <1>1, <1>3, <1>4, <1>5, SeenStays DEF PlayersInv
<1>7. MailInv'
  BY <1>1, <1>5, NothingAsked DEF PlayersInv
<1>8. ChoiceIsHonoured'
  BY <1>1 DEF PlayersInv, ChoiceIsHonoured, Seat
<1>9. ExactInv'
  <2>1. ASSUME strays = 0, NEW seat \in Seats
        PROVE  /\ recovered'.errs.usedMatch[seat] + Due(seat)' = errs'.usedMatch[seat]
               /\ (~HandIsLogged' =>
                     recovered'.errs.usedHand[seat] + Due(seat)' = errs'.usedHand[seat])
    <3>1. ~HandIsLogged
      BY <1>1 DEF HandIsLogged, Over
    <3>2. /\ recovered.errs.usedHand[seat] + Due(seat) = errs.usedHand[seat]
          /\ recovered.errs.usedMatch[seat] + Due(seat) = errs.usedMatch[seat]
      BY <1>1, <2>1, <3>1 DEF PlayersInv, ExactInv
    <3>3. ~HandIsLogged' => ~DoAction(match.hand, pending.action).finished
      BY <1>1 DEF HandIsLogged
    <3>4. /\ Due(seat)' = 0 /\ Due(seat) \in Nat
          /\ recovered.errs.usedHand[seat] \in Nat /\ recovered.errs.usedMatch[seat] \in Nat
          /\ recovered'.errs.usedMatch[seat] = recovered.errs.usedMatch[seat] + Due(seat)
          /\ ~HandIsLogged' =>
               recovered'.errs.usedHand[seat] = recovered.errs.usedHand[seat] + Due(seat)
      BY <3>3, LoggedTime
    <3> QED BY <1>1, <3>2, <3>4
  <2> QED BY <1>1, <2>1 DEF ExactInv
<1> QED
  BY <1>4, <1>6, <1>7, <1>8, <1>9 DEF PlayersInv

(* The match takes its next step, of whatever kind.                         *)
LEMMA MatchGoesOn ==
  ASSUME GameIsPlayable, DealerInv, DealerInv', PlayersInv,
         phase \in {"do", "score", "next"}, phase' \in {"score", "send", "final", "done"},
         UNCHANGED <<toSend, inbox, half, seen, strays, recovered>>,
         \A seat \in Seats : LaterView(View(match, seat), View(match', seat))
  PROVE  SeenInv' /\ MailInv' /\ ChoiceIsHonoured' /\ ViewsStay
<1>1. ViewsStay /\ SeenTypes' /\ toSend' = 0
  BY DEF ViewsStay, PlayersInv, SeenInv, SeenTypes
<1>2. \A seat \in Seats : LaterView(View(recovered.match, seat), View(recovered'.match, seat))
  BY ViewIsView, LaterReflexive DEF DealerInv, RecoveryInv
<1>3. SeenInv'
  BY <1>1, <1>2, SeenStays DEF PlayersInv
<1>4. MailInv'
  BY NothingAsked DEF PlayersInv
<1> QED
  BY <1>1, <1>3, <1>4 DEF ChoiceIsHonoured

(* The match goes on.                                                       *)
LEMMA ActPlayers ==
  ASSUME GameIsPlayable, DealerInv, DealerInv', PlayersInv, Act
  PROVE  PlayersInv' /\ ViewsStay
<1>1. /\ phase = "do" /\ match' = DoHandAction(match, pending.action)
      /\ phase' = IF match'.hand.finished THEN "score" ELSE "send"
      /\ UNCHANGED <<errs, toSend, inbox, half, seen, strays, recovered>>
  BY DEF Act, socketVars, fileVars
<1>2. Good(match) /\ Playable(match.hand, pending.action)
  BY <1>1 DEF DealerInv, MatchInv
<1>3. \A seat \in Seats : LaterView(View(match, seat), View(match', seat))
  BY <1>1, <1>2, PlayedView
<1>4. SeenInv' /\ MailInv' /\ ChoiceIsHonoured' /\ ViewsStay
  BY <1>1, <1>3, MatchGoesOn
<1>5. ExactInv'
  <2>1. \A seat : Due(seat)' = 0 /\ Due(seat) = 0
    BY <1>1 DEF Due
  <2>2. HandIsLogged => HandIsLogged'
    BY <1>1, <1>2, PlayedMatch DEF HandIsLogged, Over
  <2> QED BY <1>1, <2>1, <2>2 DEF PlayersInv, ExactInv
<1> QED
  BY <1>4, <1>5 DEF PlayersInv

(* The totals are not seen.                                                 *)
LEMMA AddToLogPlayers ==
  ASSUME GameIsPlayable, DealerInv, DealerInv', PlayersInv, AddToLog
  PROVE  PlayersInv' /\ ViewsStay
<1>1. /\ phase = "score" /\ match' = AddValues(match) /\ phase' = "final"
      /\ UNCHANGED <<errs, toSend, inbox, half, seen, strays, recovered>>
  BY DEF AddToLog, socketVars
<1>2. \A seat \in Seats : LaterView(View(match, seat), View(match', seat))
  BY <1>1, CompletedView, ViewIsView, LaterReflexive DEF DealerInv, MatchInv
<1>3. SeenInv' /\ MailInv' /\ ChoiceIsHonoured' /\ ViewsStay
  BY <1>1, <1>2, MatchGoesOn
<1>4. ExactInv'
  <2>1. \A seat : Due(seat)' = 0 /\ Due(seat) = 0
    BY <1>1 DEF Due
  <2>2. HandIsLogged'
    BY <1>1 DEF HandIsLogged, Over
  <2> QED BY <1>1, <2>1, <2>2 DEF PlayersInv, ExactInv
<1> QED
  BY <1>3, <1>4 DEF PlayersInv

(* The next hand outdates whatever is still on its way.                     *)
LEMMA StartNewHandPlayers ==
  ASSUME GameIsPlayable, DealerInv, DealerInv', PlayersInv, StartNewHand
  PROVE  PlayersInv' /\ ViewsStay
<1>1. /\ phase = "next" /\ match' = SetUpNewHand(match) /\ errs' = NewHandErrs(errs)
      /\ phase' \in {"send", "done"}
      /\ UNCHANGED <<toSend, inbox, half, seen, strays, recovered>>
  BY DEF StartNewHand, socketVars, fileVars
<1>2. \A seat \in Seats : LaterView(View(match, seat), View(match', seat))
  BY <1>1, NextView DEF DealerInv, MatchInv
<1>3. SeenInv' /\ MailInv' /\ ChoiceIsHonoured' /\ ViewsStay
  BY <1>1, <1>2, MatchGoesOn
<1>4. ExactInv'
  <2>1. \A seat : Due(seat)' = 0 /\ Due(seat) = 0
    BY <1>1 DEF Due
  <2>2. /\ recovered.errs.usedHand = NoTime /\ errs'.usedHand = NoTime
        /\ errs'.usedMatch = errs.usedMatch
    BY <1>1, FreshHandTime DEF DealerInv, TypesInv, ClockInv, HandIsLogged, Over
  <2>3. \A seat \in Seats : NoTime[seat] + 0 = NoTime[seat]
    BY DEF NoTime
  <2> QED BY <1>1, <2>1, <2>2, <2>3 DEF PlayersInv, ExactInv
<1> QED
  BY <1>3, <1>4 DEF PlayersInv

(* While the dealer waits or sends, what players do changes nothing it has. *)
LEMMA QuietPlayers ==
  ASSUME DealerInv, DealerInv', PlayersInv, phase \in {"send", "wait"},
         UNCHANGED <<phase, match, errs, toSend, pending, recovered>>,
         ViewsStay, SeenTypes', strays' = 0 => strays = 0
  PROVE  SeenInv' /\ ChoiceIsHonoured' /\ ExactInv'
<1>1. SeenInv'
  BY DEF PlayersInv, SeenInv, ViewsStay
<1>2. ChoiceIsHonoured'
  BY DEF ChoiceIsHonoured
<1>3. ExactInv'
  <2>1. \A seat : Due(seat)' = Due(seat)
    BY DEF Due
  <2>2. HandIsLogged' = HandIsLogged
    BY DEF HandIsLogged
  <2> QED BY <2>1, <2>2 DEF PlayersInv, ExactInv
<1> QED
  BY <1>1, <1>2, <1>3

(* A line comes in, or begins to; the others are left alone.                *)
LEMMA MailArrives ==
  ASSUME DealerInv, PlayersInv, NEW seat \in Seats, NEW line, Send(seat, line),
         phase # "down", strays' \in Nat, Told(seat, line)',
         \A q \in Seats : \A l : q # seat /\ Told(q, l) => Told(q, l)'
  PROVE  MailInv'
<1>1. /\ UNCHANGED <<phase, match>> /\ Seat' = Seat
      /\ inbox[seat] = << >> /\ half = << >>
  BY DEF Send, Seat
<1>2. Head(<<line>>) = line
  OBVIOUS
<1>3. CASE inbox' = [inbox EXCEPT ![seat] = <<line>>] /\ half' = half
  <2>1. \A q \in Seats : inbox'[q] = IF q = seat THEN <<line>> ELSE inbox[q]
    BY <1>3 DEF DealerInv, TypesInv
  <2>2. ASSUME NEW q \in Seats, inbox'[q] # << >> PROVE Told(q, Head(inbox[q]))'
    <3>1. CASE q = seat
      <4>1. Head(inbox'[q]) = line
        BY <1>2, <2>1, <3>1
      <4> QED BY <3>1, <4>1
    <3>2. CASE q # seat
      <4>1. inbox'[q] = inbox[q]
        BY <2>1, <3>2
      <4>2. PICK l : l = Head(inbox[q])
        OBVIOUS
      <4>3. Told(q, l)
        BY <2>2, <4>1, <4>2 DEF PlayersInv, MailInv
      <4>4. Told(q, l)' /\ l = Head(inbox'[q])
        BY <3>2, <4>1, <4>2, <4>3
      <4> QED BY <4>4
    <3> QED BY <3>1, <3>2
  <2> QED BY <1>1, <1>3, <2>2 DEF MailInv
<1>4. CASE seat = Seat /\ half' = <<line>> /\ inbox' = inbox
  <2>1. ASSUME NEW q \in Seats, inbox'[q] # << >> PROVE Told(q, Head(inbox[q]))'
    <3>1. PICK l : l = Head(inbox[q])
      OBVIOUS
    <3>2. q # seat /\ Told(q, l) /\ l = Head(inbox'[q])
      BY <1>1, <1>4, <2>1, <3>1 DEF PlayersInv, MailInv
    <3>3. Told(q, l)'
      BY <3>2
    <3> QED BY <3>2, <3>3
  <2>2. Head(half') = line
    BY <1>2, <1>4
  <2> QED BY <1>1, <1>4, <2>1, <2>2 DEF MailInv
<1> QED
  BY <1>3, <1>4 DEF Send

(* The line sent is the answer to the state on the table.                   *)
LEMMA ReplyPlayers ==
  ASSUME DealerInv, DealerInv', PlayersInv, NEW seat \in Seats, Reply(seat)
  PROVE  PlayersInv' /\ ViewsStay
<1>1. /\ phase = "wait" /\ seat = Seat /\ strays' = strays
      /\ seen[seat].view = View(match, seat)
  BY DEF Reply, Waiting, PlayersInv, SeenInv
<1>2. PICK a \in Requests :
        /\ Send(seat, [kind |-> "answer", view |-> seen[seat].view, action |-> a])
        /\ seen' = [seen EXCEPT ![seat].choice = a]
  BY DEF Reply
<1>3. PICK l : /\ l.kind = "answer" /\ l.view = View(match, seat) /\ l.action = a
               /\ Send(seat, l)
  BY <1>1, <1>2
<1>4. UNCHANGED <<phase, match, errs, toSend, pending, recovered>>
  BY <1>3 DEF Send, fileVars
<1>5. ASSUME NEW q \in Seats
      PROVE  /\ seen'[q].view = seen[q].view
             /\ seen'[q] = [view |-> seen'[q].view, choice |-> seen'[q].choice]
             /\ q = seat => seen'[q].choice = a
             /\ q # seat => seen'[q] = seen[q]
  <2>1. seen[q] = [view |-> seen[q].view, choice |-> seen[q].choice]
    BY DEF PlayersInv, SeenInv, SeenTypes
  <2>2. seen'[q] = IF q = seat THEN [seen[q] EXCEPT !.choice = a] ELSE seen[q]
    BY <1>2 DEF PlayersInv, SeenInv, SeenTypes
  <2> QED BY <2>1, <2>2
<1>6. ViewsStay /\ SeenTypes'
  <2>1. seen' = [q \in Seats |-> seen'[q]]
    BY <1>2 DEF PlayersInv, SeenInv, SeenTypes
  <2> QED BY <1>5, <2>1 DEF ViewsStay, PlayersInv, SeenInv, SeenTypes
<1>7. SeenInv' /\ ChoiceIsHonoured' /\ ExactInv'
  BY <1>1, <1>4, <1>6, QuietPlayers
<1>8. Told(seat, l)'
  <2>1. Seat' = Seat /\ phase' = "wait" /\ match' = match
    BY <1>1, <1>4 DEF Seat
  <2>2. seen'[seat].choice = a
    BY <1>5
  <2>3. Asked(seat, l)'
    BY <1>1, <1>3, <2>1, <2>2 DEF Asked
  <2> QED BY <2>3 DEF Told
<1>9. ASSUME NEW q \in Seats, NEW k, q # seat, Told(q, k) PROVE Told(q, k)'
  BY <1>1, <1>4, <1>9 DEF Told, Asked, Late
<1>10. MailInv'
  <2>1. strays' \in Nat
    BY <1>1 DEF PlayersInv, MailInv
  <2> QED BY <1>1, <1>3, <1>8, <1>9, <2>1, MailArrives
<1> QED
  BY <1>6, <1>7, <1>10 DEF PlayersInv

(* A late answer names a view the one on the table has overtaken.           *)
LEMMA StrayPlayers ==
  ASSUME DealerInv, DealerInv', PlayersInv, NEW seat \in Seats, Stray(seat)
  PROVE  PlayersInv' /\ ViewsStay
<1>1. strays' = strays + 1 /\ seen' = seen /\ strays \in Nat
  BY DEF Stray, PlayersInv, MailInv
<1>2. PICK l : /\ phase \in {"send", "wait"} /\ Send(seat, l)
               /\ l.kind = "answer" =>
                    /\ l.view = seen[seat].view
                    /\ seen[seat].view \notin {NoView, View(match, seat)}
  <2>1. CASE Waiting
    <3>1. PICK kind \in {"comment", "garbage"} :
            Send(seat, [kind |-> kind, view |-> NoView, action |-> NoAction])
      BY <2>1 DEF Stray, Waiting
    <3> QED BY <2>1, <3>1 DEF Waiting
  <2>2. CASE ~Waiting
    <3>1. /\ phase = "send" /\ seen[seat].view \notin {NoView, View(match, seat)}
          /\ Send(seat, [kind |-> "answer", view |-> seen[seat].view, action |-> CallInstead])
      BY <2>2 DEF Stray
    <3> QED BY <3>1
  <2> QED BY <2>1, <2>2
<1>3. UNCHANGED <<phase, match, errs, toSend, pending, recovered>>
  BY <1>2 DEF Send, fileVars
<1>4. Late(seat, l)
  <2> DEFINE v == seen[seat].view
             w == View(match, seat)
  <2>1. /\ v = NoView \/ IsView(v)
        /\ LaterView(v, w)
    BY <1>2 DEF PlayersInv, SeenInv, SeenTypes
  <2>2. IsView(w)
    BY ViewIsView DEF DealerInv, MatchInv
  <2>3. l.kind = "answer" => l.view = v /\ v # NoView /\ v # w
    BY <1>2
  <2> HIDE DEF v
  <2>4. Late(seat, l) <=> (l.kind = "answer" => IsView(l.view) /\ Earlier(l.view, w))
    BY DEF Late
  <2> HIDE DEF w
  <2> QED BY <2>1, <2>2, <2>3, <2>4, EarlierStays
<1>5. ViewsStay /\ SeenTypes'
  BY <1>1 DEF ViewsStay, PlayersInv, SeenInv, SeenTypes
<1>6. SeenInv' /\ ChoiceIsHonoured' /\ ExactInv'
  BY <1>1, <1>2, <1>3, <1>5, QuietPlayers
<1>7. Told(seat, l)'
  BY <1>1, <1>3, <1>4 DEF Told, Late
<1>8. ASSUME NEW q \in Seats, NEW k, q # seat, Told(q, k) PROVE Told(q, k)'
  <2>1. strays' # 0
    BY <1>1
  <2> QED BY <1>1, <1>3, <1>8, <2>1 DEF Told, Asked, Late, Seat
<1>9. MailInv'
  <2>1. strays' \in Nat
    BY <1>1
  <2> QED BY <1>2, <1>7, <1>8, <2>1, MailArrives
<1> QED
  BY <1>5, <1>6, <1>9 DEF PlayersInv

(* The line that was begun is the one that comes in.                        *)
LEMMA FinishLinePlayers ==
  ASSUME DealerInv, DealerInv', PlayersInv, FinishLine
  PROVE  PlayersInv' /\ ViewsStay
<1>1. /\ UNCHANGED <<phase, match, errs, toSend, pending, seen, strays, recovered>>
      /\ half # << >> /\ half' = << >> /\ phase = "wait" /\ Seat \in Seats
  BY FinishLineInv DEF FinishLine, fileVars
<1>2. ViewsStay /\ SeenTypes'
  BY <1>1 DEF ViewsStay, PlayersInv, SeenInv, SeenTypes
<1>3. SeenInv' /\ ChoiceIsHonoured' /\ ExactInv'
  BY <1>1, <1>2, QuietPlayers
<1>4. ASSUME NEW q \in Seats, inbox'[q] # << >> PROVE Told(q, Head(inbox[q]))'
  <2> DEFINE s == Seat
             l == Head(inbox'[q])
  <2>1. inbox'[q] = IF q = s THEN half ELSE inbox[q]
    BY <1>1 DEF FinishLine, DealerInv, TypesInv
  <2>2. Told(q, l)
    <3>1. CASE q = s
      BY <1>1, <2>1, <3>1 DEF PlayersInv, MailInv
    <3>2. CASE q # s
      BY <1>4, <2>1, <3>2 DEF PlayersInv, MailInv
    <3> QED BY <3>1, <3>2
  <2> HIDE DEF l, s
  <2>3. \A k : Told(q, k) => Told(q, k)'
    BY <1>1 DEF Told, Asked, Late, Seat
  <2> QED BY <2>2, <2>3 DEF l
<1>5. MailInv'
  BY <1>1, <1>4 DEF PlayersInv, MailInv
<1> QED
  BY <1>2, <1>3, <1>5 DEF PlayersInv

(* Time passes, or nothing happens at all.                                  *)
LEMMA IdlePlayers ==
  ASSUME PlayersInv,
         UNCHANGED <<phase, match, errs, toSend, pending, inbox, half, seen, strays, recovered>>
  PROVE  PlayersInv' /\ ViewsStay
<1>1. SeenInv' /\ ViewsStay
  BY DEF PlayersInv, SeenInv, SeenTypes, ViewsStay
<1>2. MailInv'
  BY DEF PlayersInv, MailInv, Told, Asked, Late, Seat
<1>3. ChoiceIsHonoured'
  BY DEF PlayersInv, ChoiceIsHonoured, Seat
<1>4. ExactInv'
  <2>1. \A seat : Due(seat)' = Due(seat)
    BY DEF Due, Seat
  <2>2. HandIsLogged' = HandIsLogged
    BY DEF HandIsLogged
  <2> QED BY <2>1, <2>2 DEF PlayersInv, ExactInv
<1> QED
  BY <1>1, <1>2, <1>3, <1>4 DEF PlayersInv

-----------------------------------------------------------------------------
(* PlayersInv is inductive, given DealerInv.                                *)
LEMMA PlayersStep ==
  ASSUME GameIsPlayable, DealerInv, PlayersInv, [DealerNext]_dealerVars
  PROVE  PlayersInv' /\ SeesMore
<1>1. DealerInv'
  BY StepInv
<1>2. ViewsStay => SeesMore
  <2>1. \A seat \in Seats : LaterView(seen[seat].view, seen[seat].view)
    <3>1. \A seat \in Seats : seen[seat].view = NoView \/ IsView(seen[seat].view)
      BY DEF PlayersInv, SeenInv, SeenTypes
    <3> QED BY <3>1, LaterReflexive DEF LaterView
  <2> QED BY <2>1 DEF ViewsStay, SeesMore
<1>3. CASE UNCHANGED dealerVars \/ Tick \/ ClockBack \/ RefuseLog
  <2>1. UNCHANGED <<phase, match, errs, toSend, pending, inbox, half, seen, strays, recovered>>
    BY <1>3 DEF dealerVars, socketVars, fileVars, Tick, ClockBack, RefuseLog
  <2> QED BY <1>2, <2>1, IdlePlayers
<1>4. CASE ReadResponse
  BY <1>1, <1>2, <1>4, ReadResponsePlayers
<1>5. CASE Crash
  BY <1>1, <1>2, <1>5, StopPlayers DEF Crash
<1>6. CASE FinishLine \/ \E seat \in Seats : Reply(seat) \/ Stray(seat)
  BY <1>1, <1>2, <1>6, ReplyPlayers, StrayPlayers, FinishLinePlayers
<1>7. CASE Start \/ LogTransaction \/ Act \/ AddToLog \/ StartNewHand
  BY <1>1, <1>2, <1>7, StartPlayers, LogTransactionPlayers, ActPlayers, AddToLogPlayers,
     StartNewHandPlayers
<1>8. CASE SendState
  BY <1>1, <1>8, SendStatePlayers
<1> QED
  BY <1>3, <1>4, <1>5, <1>6, <1>7, <1>8 DEF DealerNext, ReadResponse

(* PlayersInv is an invariant.                                              *)
LEMMA PlayersInvHolds ==
  ASSUME GameIsPlayable
  PROVE  DealerSpec => []PlayersInv
<1>1. DealerInit => PlayersInv
  BY InitPlayers
<1>2. DealerInv /\ PlayersInv /\ [DealerNext]_dealerVars => PlayersInv'
  BY PlayersStep
<1> QED
  BY <1>1, <1>2, DealerInvHolds, PTL DEF DealerSpec

(* What a seat is shown never goes back, across crashes, restarts and       *)
(* whatever the players send: a new dealer shows what the log holds, and    *)
(* that is never behind what the last one has shown.                        *)
THEOREM NothingIsTakenBack ==
  ASSUME GameIsPlayable
  PROVE  DealerSpec => NoRollback
<1>1. DealerInv /\ PlayersInv /\ [DealerNext]_dealerVars
        => [\A seat \in Seats : LaterView(seen[seat].view, seen'[seat].view)]_dealerVars
  BY PlayersStep DEF SeesMore
<1> QED
  BY <1>1, DealerInvHolds, PlayersInvHolds, PTL DEF DealerSpec, NoRollback

(* The action taken is the choice the acting player made for the state on   *)
(* the table: a late or second answer names an earlier view, which no state *)
(* has again, and so is ignored.                                            *)
THEOREM ChoiceHolds ==
  ASSUME GameIsPlayable
  PROVE  DealerSpec => []ChoiceIsHonoured
<1>1. PlayersInv => ChoiceIsHonoured
  BY DEF PlayersInv
<1> QED
  BY <1>1, PlayersInvHolds, PTL

(* Whoever restarts the dealer gains no time for a player beyond what it    *)
(* used on lines the dealer ignored, and takes none away.                   *)
THEOREM ClocksSurvive ==
  ASSUME GameIsPlayable
  PROVE  DealerSpec => []RestartKeepsTheClocks
<1>1. DealerInv /\ PlayersInv => RestartKeepsTheClocks
  <2>1. SUFFICES ASSUME DealerInv, PlayersInv, phase = "send" PROVE RestartKeepsTheClocks
    BY DEF RestartKeepsTheClocks
  <2>2. /\ \A seat : Due(seat) = 0
        /\ ~HandIsLogged
    BY <2>1 DEF Due, HandIsLogged, Over
  <2>3. /\ errs.usedHand \in Counters /\ errs.usedMatch \in Counters
        /\ recovered.errs.usedHand \in Counters /\ recovered.errs.usedMatch \in Counters
    BY <2>1 DEF DealerInv, TypesInv, RecoveryInv, ErrInfo
  <2> DEFINE h == recovered.errs.usedHand
             u == recovered.errs.usedMatch
  <2>4. \A f \in Counters : \A seat \in Seats : f[seat] + 0 = f[seat]
    BY DEF Counters
  <2>5. ASSUME NEW f \in Counters, NEW g \in Counters, \A seat \in Seats : f[seat] = g[seat]
        PROVE  f = g
    <3>1. f = [seat \in Seats |-> f[seat]] /\ g = [seat \in Seats |-> g[seat]]
      BY DEF Counters
    <3> QED BY <2>5, <3>1
  <2>6. ASSUME NEW seat \in Seats PROVE u[seat] <= errs.usedMatch[seat]
    <3>1. u[seat] + Due(seat) <= errs.usedMatch[seat]
      BY <2>1 DEF DealerInv, ClockInv
    <3>2. u[seat] + 0 = u[seat]
      BY <2>3, <2>4
    <3> QED BY <2>2, <3>1, <3>2
  <2>7. ASSUME strays = 0, NEW seat \in Seats
        PROVE  h[seat] = errs.usedHand[seat] /\ u[seat] = errs.usedMatch[seat]
    <3>1. /\ h[seat] + Due(seat) = errs.usedHand[seat]
          /\ u[seat] + Due(seat) = errs.usedMatch[seat]
      BY <2>1, <2>2, <2>7 DEF PlayersInv, ExactInv
    <3>2. h[seat] + 0 = h[seat] /\ u[seat] + 0 = u[seat]
      BY <2>3, <2>4
    <3> QED BY <2>2, <3>1, <3>2
  <2>8. strays = 0 => h = errs.usedHand /\ u = errs.usedMatch
    <3>1. h \in Counters /\ u \in Counters
      BY <2>3
    <3> HIDE DEF h, u
    <3> QED BY <2>3, <2>7, <2>5, <3>1
  <2> QED BY <2>6, <2>8 DEF RestartKeepsTheClocks
<1> QED
  BY <1>1, DealerInvHolds, PlayersInvHolds, PTL

-----------------------------------------------------------------------------
(***************************************************************************)
(* The log of the hands and the totals                                     *)
(***************************************************************************)
(* A line of the log file.                                                  *)
Result == [handId : Nat, player0Seat : Players, value : [Players -> Int]]

(* What the totals of a match in progress rest on: stakes that can be paid  *)
(* out, cards that belong to the hand.                                      *)
Counted(m) ==
  /\ HandBets(m.hand) /\ Stakes(m.hand)
  /\ m.dealt = m.hand.handId
  /\ m.total \in [Seats -> Int]

(* It holds of a hand just dealt.                                           *)
LEMMA DealtCounts ==
  ASSUME GameIsPlayable, BetsFit, NEW h \in Nat
  PROVE  HandBets(InitState(h, TableStack)) /\ Stakes(InitState(h, TableStack))
<1> DEFINE i == InitState(h, TableStack)
<1>1. TableStack \in Stacks
  BY DEF GameIsPlayable, TableStack
<1>2. HandBets(i)
  BY <1>1, InitBets DEF HandBets
<1>3. Stakes(i)
  BY DealtStakes
<1> QED
  BY <1>2, <1>3

(* So it does of the first match, whose totals are 0.                       *)
LEMMA FirstCounts ==
  ASSUME GameIsPlayable, BetsFit
  PROVE  Counted(FirstMatch) /\ \A seat \in Seats : FirstMatch.total[seat] = 0
<1>1. /\ FirstMatch.hand = InitState(0, TableStack) /\ FirstMatch.dealt = 0
      /\ FirstMatch.total = [seat \in Seats |-> 0]
  BY DEF FirstMatch
<1>2. FirstMatch.hand.handId = 0
  BY <1>1 DEF InitState
<1> QED
  BY <1>1, <1>2, DealtCounts DEF Counted

(* The next hand keeps it so, and the totals.                               *)
LEMMA NextCounts ==
  ASSUME GameIsPlayable, BetsFit, NEW m, Good(m), Counted(m), NEW t, t = SetUpNewHand(m)
  PROVE  Counted(t) /\ t.total = m.total
<1> DEFINE i == InitState(m.hand.handId + 1, TableStack)
           z == IF FixedSeats THEN m.player0Seat ELSE (m.player0Seat + 1) % NumPlayers
<1>1. m.hand.handId + 1 \in Nat
  BY DEF Good, HandChips, State
<1>2. t = [m EXCEPT !.hand = i, !.player0Seat = z, !.dealt = m.dealt + 1]
  BY DEF SetUpNewHand, Good
<1>3. i.handId = m.hand.handId + 1
  BY DEF InitState
<1>4. HandBets(i) /\ Stakes(i)
  BY <1>1, DealtCounts
<1> HIDE DEF i, z
<1>5. t.hand = i /\ t.dealt = m.dealt + 1 /\ t.total = m.total
  BY <1>2 DEF Good
<1> QED
  BY <1>3, <1>4, <1>5 DEF Counted

(* An action does too.                                                      *)
LEMMA PlayCounts ==
  ASSUME BetsFit, NEW m, Good(m), Counted(m), NEW f, Playable(m.hand, f),
         NEW t, t = DoHandAction(m, f)
  PROVE  Counted(t) /\ t.total = m.total
<1>1. /\ t.hand = DoAction(m.hand, f) /\ t.hand.handId = m.hand.handId
      /\ t.dealt = m.dealt /\ t.total = m.total
  BY PlayedMatch
<1>2. f \in Action /\ IsValidAction(m.hand, TRUE, f) /\ t.hand = DoAction(m.hand, FixedAction(m.hand, f))
  BY <1>1 DEF Playable
<1>3. HandChips(m.hand) /\ HandBets(m.hand) /\ Stakes(m.hand)
  BY DEF Good, Counted
<1>4. HandBets(t.hand) /\ Stakes(t.hand)
  BY <1>2, <1>3, ActionKeepsBets, ActionKeepsStakes
<1> QED
  BY <1>1, <1>4 DEF Counted

(* Adding the values of a hand to the totals keeps it so: they are whole    *)
(* numbers, each added to the seat its player sits at.                      *)
LEMMA ValuesCount ==
  ASSUME NEW m, Good(m), Counted(m), ~MatchOver(m), NEW t, t = AddValues(m)
  PROVE  /\ Counted(t)
         /\ \A p \in Players : Value(m, p) \in Int
         /\ \A seat \in Seats : /\ SeatToPlayer(m, seat) \in Players
                                /\ t.total[seat] = m.total[seat] + Value(m, SeatToPlayer(m, seat))
<1> DEFINE n == [seat \in Seats |-> m.total[seat] + Value(m, SeatToPlayer(m, seat))]
           s == m.hand
           rk == Deal[m.dealt]
<1>1. t.total = n /\ t.hand = m.hand /\ t.dealt = m.dealt
  <2>1. t = [m EXCEPT !.total = n]
    BY DEF AddValues, Good
  <2> HIDE DEF n
  <2> QED BY <2>1 DEF Good
<1>2. Countable(s, rk)
  <2>1. s \in State /\ Stakes(s)
    BY DEF Good, HandChips, Counted
  <2>2. s.spent \in [Players -> Int] /\ s.playerFolded \in [Players -> BOOLEAN]
        /\ s.handId \in Nat
    BY <2>1 DEF State
  <2>3. s.spent \in [Players -> Nat]
    <3>1. ASSUME NEW p \in Players PROVE s.spent[p] \in Nat
      <4>1. s.spent[p] \in Int /\ s.spent[p] >= 0
        BY <2>1, <2>2 DEF Stakes
      <4> QED BY <4>1
    <3> QED BY <2>2, <3>1
  <2>4. m.dealt \in 0 .. NumHands
    <3>1. m.dealt = s.handId /\ ~(s.handId >= NumHands) /\ NumHands \in Nat
      BY MatchAssumption DEF Counted, MatchOver
    <3> QED BY <2>2, <3>1
  <2>5. rk \in [Players -> Nat]
    BY <2>4, MatchAssumption
  <2> QED BY <2>2, <2>3, <2>5 DEF Countable
<1>3. ASSUME NEW p \in Players PROVE Value(m, p) \in Int
  BY <1>2, ValueIsInt DEF Value
<1>4. ASSUME NEW seat \in Seats PROVE SeatToPlayer(m, seat) \in Players
  <2>1. seat + NumPlayers - m.player0Seat \in Nat
    BY Sizes DEF Good
  <2> QED BY <2>1, Sizes, ModRange DEF SeatToPlayer
<1>5. ASSUME NEW seat \in Seats
      PROVE  n[seat] = m.total[seat] + Value(m, SeatToPlayer(m, seat)) /\ n[seat] \in Int
  <2>1. m.total[seat] \in Int
    BY DEF Counted
  <2>2. Value(m, SeatToPlayer(m, seat)) \in Int
    BY <1>3, <1>4
  <2> QED BY <2>1, <2>2
<1>6. n \in [Seats -> Int]
  BY <1>5
<1> HIDE DEF n
<1>7. Counted(t)
  BY <1>1, <1>6 DEF Counted
<1> QED
  BY <1>1, <1>3, <1>4, <1>5, <1>7

(* And so does completing a hand, which never lowers its number.            *)
LEMMA CompletedCounts ==
  ASSUME GameIsPlayable, BetsFit, NEW m, Good(m), Counted(m), ~MatchOver(m),
         NEW t, t = Completed(m)
  PROVE  Counted(t) /\ t.hand.handId >= m.hand.handId
<1>1. CASE m.hand.finished
  <2> DEFINE v == AddValues(m)
  <2>1. Good(v) /\ Counted(v) /\ v.hand = m.hand
    BY ValuesCount, ValuedMatch
  <2>2. t = SetUpNewHand(v)
    BY <1>1 DEF Completed
  <2> HIDE DEF v
  <2>3. Counted(t) /\ t.hand.handId = m.hand.handId + 1
    BY <2>1, <2>2, NextCounts, NextMatch
  <2>4. m.hand.handId \in Nat
    BY DEF Good, HandChips, State
  <2> QED BY <2>3, <2>4
<1>2. CASE ~m.hand.finished
  <2>1. t = m /\ m.hand.handId \in Nat
    BY <1>2 DEF Completed, Good, HandChips, State
  <2> QED BY <2>1
<1> QED
  BY <1>1, <1>2

-----------------------------------------------------------------------------
(* What the lines of lg say seat has won, line by line.                     *)
Winnings(lg, seat) ==
  [i \in DOMAIN lg |-> lg[i].value[(seat + NumPlayers - lg[i].player0Seat) % NumPlayers]]

(* What the log says a seat has won is their sum.                           *)
LEMMA LoggedIsTotal ==
  ASSUME NEW seat
  PROVE  /\ LoggedFor(seat) = Total(Winnings(log, seat), DOMAIN log)
         /\ LoggedFor(seat)' = Total(Winnings(log', seat), DOMAIN log')
  BY SumOverIsTotal DEF LoggedFor, Winnings

(* A line more adds what it says the seat has won.                          *)
LEMMA WinningsGrow ==
  ASSUME NEW lg \in Seq(Result), NEW e \in Result, NEW seat \in Seats,
         NEW p, p = (seat + NumPlayers - e.player0Seat) % NumPlayers
  PROVE  Total(Winnings(Append(lg, e), seat), DOMAIN Append(lg, e))
           = e.value[p] + Total(Winnings(lg, seat), DOMAIN lg)
<1> DEFINE n == Len(lg)
           mg == Append(lg, e)
           f == Winnings(lg, seat)
           g == Winnings(mg, seat)
<1>1. /\ n \in Nat /\ DOMAIN lg = 1 .. n /\ DOMAIN mg = 1 .. n + 1
      /\ mg[n + 1] = e /\ mg \in Seq(Result)
      /\ \A i \in 1 .. n : mg[i] = lg[i] /\ lg[i] \in Result
  OBVIOUS
<1>2. ASSUME NEW r \in Result
      PROVE  r.value[(seat + NumPlayers - r.player0Seat) % NumPlayers] \in Int
  <2>1. seat + NumPlayers - r.player0Seat \in Nat
    <3>1. r.player0Seat \in Players
      BY DEF Result
    <3> QED BY <3>1, Sizes
  <2>2. (seat + NumPlayers - r.player0Seat) % NumPlayers \in Players
    BY <2>1, Sizes, ModRange
  <2> QED BY <2>2 DEF Result
<1> HIDE DEF n, mg
<1>3. \A i \in 1 .. n : g[i] = f[i] /\ f[i] \in Int
  BY <1>1, <1>2 DEF Winnings
<1>4. g[n + 1] = e.value[p] /\ e.value[p] \in Int
  BY <1>1, <1>2 DEF Winnings
<1> HIDE DEF f, g
<1>5. IsFiniteSet(1 .. n) /\ n + 1 \notin 1 .. n /\ 1 .. n + 1 = (1 .. n) \cup {n + 1}
  <2>1. IsFiniteSet(1 .. n)
    BY <1>1, UpTo
  <2>2. n + 1 \notin 1 .. n /\ 1 .. n + 1 = (1 .. n) \cup {n + 1}
    BY <1>1
  <2> QED BY <2>1, <2>2
<1>6. \A i \in 1 .. n : g[i] \in Int
  BY <1>3
<1>7. Total(g, (1 .. n) \cup {n + 1}) = g[n + 1] + Total(g, 1 .. n)
  BY <1>4, <1>5, <1>6, TotalAdd
<1>8. Total(g, 1 .. n) = Total(f, 1 .. n)
  <2>1. \A i \in 1 .. n : g[i] = f[i]
    BY <1>3
  <2> QED BY <1>5, <2>1, TotalAgrees
<1> QED
  BY <1>1, <1>4, <1>5, <1>7, <1>8 DEF f, g, mg

-----------------------------------------------------------------------------
(* The log's lines are in the order of their hands, below the one the       *)
(* transaction log has come to and below the one being played; until a      *)
(* dealer has been restarted the totals are what the log says.              *)
BooksInv ==
  /\ Counted(match) /\ Counted(recovered.match)
  /\ log \in Seq(Result)
  /\ \A i, j \in DOMAIN log : i < j => log[i].handId < log[j].handId
  /\ \A i \in DOMAIN log : log[i].handId < recovered.match.hand.handId
  /\ phase \in InPlay \cup {"score"} =>
       \A i \in DOMAIN log : log[i].handId < match.hand.handId
  /\ starts \in Nat
  /\ starts = 0 => phase = "down" /\ log = << >> /\ recovered.match = FirstMatch
  /\ starts = 1 /\ phase # "down" => \A seat \in Seats : match.total[seat] = LoggedFor(seat)

(* Before the first dealer is started.                                      *)
LEMMA InitBooks ==
  ASSUME GameIsPlayable, BetsFit, DealerInit
  PROVE  BooksInv
<1>1. /\ match = FirstMatch /\ log = << >> /\ starts = 0 /\ phase = "down"
      /\ recovered.match = FirstMatch
  BY RecoverNothing DEF DealerInit, NothingRead
<1>2. << >> \in Seq(Result) /\ DOMAIN << >> = {}
  OBVIOUS
<1> QED
  BY <1>1, <1>2, FirstCounts DEF BooksInv, InPlay

(* The steps that neither play nor score nor start.                         *)
LEMMA QuietBooks ==
  ASSUME BooksInv, UNCHANGED <<match, recovered, log, starts>>,
         phase' \in InPlay \cup {"score"} => phase \in InPlay \cup {"score"},
         phase' # "down" <=> phase # "down"
  PROVE  BooksInv'
<1>1. \A seat : LoggedFor(seat)' = LoggedFor(seat)
  BY DEF LoggedFor
<1>2. match' = match /\ recovered' = recovered /\ log' = log /\ starts' = starts
  OBVIOUS
<1> QED
  BY <1>1, <1>2 DEF BooksInv

(* A dealer that stops leaves the files.                                    *)
LEMMA StopBooks ==
  ASSUME GameIsPlayable, BetsFit, BooksInv, Stop
  PROVE  BooksInv'
<1>1. /\ match' = FirstMatch /\ phase' = "down"
      /\ recovered' = recovered /\ log' = log /\ starts' = starts
  BY DEF Stop, fileVars
<1> QED
  BY <1>1, FirstCounts DEF BooksInv, InPlay

(* The first dealer starts with nothing won and nothing logged.             *)
LEMMA StartBooks ==
  ASSUME GameIsPlayable, BetsFit, DealerInv, BooksInv, Start
  PROVE  BooksInv'
<1>1. /\ phase = "down" /\ match' = recovered.match /\ phase' \in {"send", "done"}
      /\ recovered'.match = recovered.match /\ log' = log /\ starts' = starts + 1
  BY StartEffect
<1>2. starts' = 1 => starts = 0
  BY <1>1 DEF BooksInv
<1>3. ASSUME starts' = 1, NEW seat \in Seats PROVE match'.total[seat] = LoggedFor(seat)'
  <2>1. log' = << >> /\ match' = FirstMatch
    BY <1>1, <1>2, <1>3 DEF BooksInv
  <2>2. DOMAIN log' = {}
    BY <2>1
  <2>3. LoggedFor(seat)' = 0
    BY <2>2, LoggedIsTotal, TotalEmpty
  <2> QED BY <2>1, <2>3, FirstCounts
<1>4. starts' \in Nat /\ starts' # 0
  BY <1>1 DEF BooksInv
<1> QED
  BY <1>1, <1>3, <1>4 DEF BooksInv

(* One that cannot start changes nothing but counts.                        *)
LEMMA RefuseBooks ==
  ASSUME BooksInv, RefuseLog
  PROVE  BooksInv'
<1>1. /\ phase = "down" /\ phase' = "down" /\ starts' = starts + 1
      /\ match' = match /\ recovered' = recovered /\ log' = log
  BY DEF RefuseLog, fileVars
<1>2. starts' \in Nat /\ starts' # 0
  BY <1>1 DEF BooksInv
<1> QED
  BY <1>1, <1>2 DEF BooksInv, InPlay

(* The logged match goes on by an action.                                   *)
LEMMA LogTransactionBooks ==
  ASSUME GameIsPlayable, BetsFit, DealerInv, BooksInv, LogTransaction
  PROVE  BooksInv'
<1>1. /\ phase = "log" /\ phase' = "do"
      /\ match' = match /\ log' = log /\ starts' = starts
  BY DEF LogTransaction
<1> DEFINE t == DoHandAction(match, pending.action)
<1>2. /\ Good(match) /\ ~MatchOver(match) /\ Playable(match.hand, pending.action)
      /\ Counted(match)
  BY <1>1 DEF DealerInv, MatchInv, InPlay, BooksInv
<1>3. Good(t) /\ Counted(t) /\ t.hand.handId = match.hand.handId
  BY <1>2, PlayedMatch, PlayCounts
<1>4. recovered'.match = Completed(t) /\ recovered.match = match
  BY LogEffect
<1> HIDE DEF t
<1>5. ~MatchOver(t)
  BY <1>2, <1>3 DEF MatchOver
<1>6. Counted(recovered'.match) /\ recovered'.match.hand.handId >= match.hand.handId
  BY <1>3, <1>4, <1>5, CompletedCounts
<1>7. Good(recovered'.match)
  BY <1>3, <1>4, CompletedMatch
<1>8. recovered'.match.hand.handId \in Nat /\ match.hand.handId \in Nat
  BY <1>2, <1>7 DEF Good, HandChips, State
<1>9. ASSUME NEW i \in DOMAIN log PROVE log[i].handId < recovered'.match.hand.handId
  <2>1. log[i].handId < match.hand.handId
    BY <1>1 DEF BooksInv, InPlay
  <2>2. log \in Seq(Result)
    BY DEF BooksInv
  <2>3. log[i] \in Result
    BY <2>2
  <2>4. log[i].handId \in Nat
    BY <2>3 DEF Result
  <2> QED BY <1>6, <1>8, <2>1, <2>4
<1>10. \A seat : LoggedFor(seat)' = LoggedFor(seat)
  BY <1>1 DEF LoggedFor
<1> QED
  BY <1>1, <1>6, <1>9, <1>10 DEF BooksInv, InPlay

(* The running match follows.                                               *)
LEMMA ActBooks ==
  ASSUME BetsFit, DealerInv, BooksInv, Act
  PROVE  BooksInv'
<1>1. /\ phase = "do" /\ phase' \in {"send", "score"}
      /\ match' = DoHandAction(match, pending.action)
      /\ recovered' = recovered /\ log' = log /\ starts' = starts
  BY DEF Act, fileVars
<1>2. Good(match) /\ Playable(match.hand, pending.action) /\ Counted(match)
  BY <1>1 DEF DealerInv, MatchInv, BooksInv
<1>3. /\ Counted(match') /\ match'.hand.handId = match.hand.handId
      /\ match'.total = match.total
  BY <1>1, <1>2, PlayedMatch, PlayCounts
<1>4. \A seat : LoggedFor(seat)' = LoggedFor(seat)
  BY <1>1 DEF LoggedFor
<1> QED
  BY <1>1, <1>3, <1>4 DEF BooksInv, InPlay

(* A finished hand goes to the log and to the totals.                       *)
LEMMA AddToLogBooks ==
  ASSUME DealerInv, BooksInv, AddToLog
  PROVE  BooksInv'
<1> DEFINE h == match.hand.handId
           e == [handId |-> h, player0Seat |-> match.player0Seat,
                 value |-> [p \in Players |-> Value(match, p)]]
           n == Len(log)
<1>1. /\ phase = "score" /\ phase' = "final" /\ match' = AddValues(match)
      /\ log' = Append(log, e) /\ recovered' = recovered /\ starts' = starts
  BY DEF AddToLog
<1>2. Good(match) /\ Counted(match) /\ ~MatchOver(match) /\ match.hand.finished
  BY <1>1 DEF DealerInv, MatchInv, Over, BooksInv
<1>3. /\ Counted(match')
      /\ \A p \in Players : Value(match, p) \in Int
      /\ \A seat \in Seats :
           /\ SeatToPlayer(match, seat) \in Players
           /\ match'.total[seat] = match.total[seat] + Value(match, SeatToPlayer(match, seat))
  BY <1>1, <1>2, ValuesCount
<1>4. h \in Nat /\ match.player0Seat \in Players
  BY <1>2 DEF Good, HandChips, State
<1>5. e \in Result /\ e.handId = h /\ e.player0Seat = match.player0Seat
      /\ \A p \in Players : e.value[p] = Value(match, p)
  BY <1>3, <1>4 DEF Result
<1>6. recovered.match.hand.handId = h + 1
  <2>1. recovered.match = SetUpNewHand(AddValues(match))
    BY <1>1, <1>2 DEF DealerInv, RecoveryInv, RecoveryAgrees, AheadMatch, Completed
  <2> DEFINE v == AddValues(match)
  <2>2. v.hand = match.hand
    BY <1>2, ValuedMatch
  <2>3. recovered.match = SetUpNewHand(v) /\ Good(v)
    BY <1>2, <2>1, ValuedMatch
  <2> HIDE DEF v
  <2>4. recovered.match.hand = InitState(v.hand.handId + 1, TableStack)
    BY <2>3 DEF SetUpNewHand, Good
  <2> QED BY <2>2, <2>4 DEF InitState
<1> HIDE DEF e, h
<1>7. log \in Seq(Result) /\ \A i \in DOMAIN log : log[i].handId < h
  BY <1>1 DEF BooksInv, h
<1>8. /\ log' \in Seq(Result) /\ DOMAIN log = 1 .. n /\ DOMAIN log' = 1 .. n + 1 /\ n \in Nat
      /\ \A i \in 1 .. n : log'[i] = log[i]
      /\ log'[n + 1] = e
  BY <1>1, <1>5, <1>7
<1> HIDE DEF n
<1>9. ASSUME NEW i \in DOMAIN log', NEW j \in DOMAIN log', i < j
      PROVE  log'[i].handId < log'[j].handId
  <2>1. i \in 1 .. n
    BY <1>8, <1>9
  <2>2. CASE j \in 1 .. n
    <3>1. log[i].handId < log[j].handId
      BY <1>8, <1>9, <2>1, <2>2 DEF BooksInv
    <3> QED BY <1>8, <2>1, <2>2, <3>1
  <2>3. CASE j = n + 1
    BY <1>5, <1>7, <1>8, <2>1, <2>3
  <2> QED BY <1>8, <2>2, <2>3
<1>10. ASSUME NEW i \in DOMAIN log' PROVE log'[i].handId < h + 1
  <2>1. CASE i \in 1 .. n
    <3>1. log[i] \in Result /\ log'[i] = log[i]
      BY <1>7, <1>8, <2>1
    <3>2. log[i].handId \in Nat
      BY <3>1 DEF Result
    <3>3. log[i].handId < h
      BY <1>7, <1>8, <2>1
    <3> QED BY <1>4, <3>1, <3>2, <3>3
  <2>2. CASE i = n + 1
    BY <1>4, <1>5, <1>8, <2>2
  <2> QED BY <1>8, <2>1, <2>2
<1>11. ASSUME starts = 1, NEW seat \in Seats PROVE match'.total[seat] = LoggedFor(seat)'
  <2> DEFINE p == SeatToPlayer(match, seat)
  <2>1. match.total[seat] = LoggedFor(seat)
    BY <1>1, <1>11 DEF BooksInv
  <2>2. p = (seat + NumPlayers - e.player0Seat) % NumPlayers /\ p \in Players
    BY <1>3, <1>5 DEF SeatToPlayer
  <2>3. match'.total[seat] = match.total[seat] + e.value[p]
    BY <1>3, <1>5
  <2> HIDE DEF p
  <2>4. LoggedFor(seat)' = e.value[p] + LoggedFor(seat)
    BY <1>1, <1>5, <1>7, <2>2, LoggedIsTotal, WinningsGrow
  <2>5. match.total[seat] \in Int /\ e.value[p] \in Int
    BY <1>2, <1>3, <1>5, <2>2 DEF Counted
  <2> QED BY <2>1, <2>3, <2>4, <2>5
<1>12. Counted(recovered'.match) /\ starts' \in Nat /\ starts' # 0
  BY <1>1 DEF BooksInv
<1> QED
  BY <1>1, <1>3, <1>6, <1>8, <1>9, <1>10, <1>11, <1>12 DEF BooksInv, InPlay

(* The next hand has a number above all that are logged.                    *)
LEMMA StartNewHandBooks ==
  ASSUME GameIsPlayable, BetsFit, DealerInv, BooksInv, StartNewHand
  PROVE  BooksInv'
<1>1. /\ phase = "next" /\ match' = SetUpNewHand(match) /\ phase' \in {"send", "done"}
      /\ recovered' = recovered /\ log' = log /\ starts' = starts
  BY DEF StartNewHand, fileVars
<1>2. recovered.match = match'
  BY <1>1 DEF DealerInv, RecoveryInv, RecoveryAgrees, AheadMatch
<1>3. Counted(match') /\ match'.total = match.total
  BY <1>1, NextCounts DEF DealerInv, MatchInv, BooksInv
<1>4. \A seat : LoggedFor(seat)' = LoggedFor(seat)
  BY <1>1 DEF LoggedFor
<1> QED
  BY <1>1, <1>2, <1>3, <1>4 DEF BooksInv, InPlay

-----------------------------------------------------------------------------
(* BooksInv is inductive.                                                   *)
LEMMA StepBooks ==
  ASSUME GameIsPlayable, BetsFit, DealerInv, BooksInv, [DealerNext]_dealerVars
  PROVE  BooksInv'
<1>1. CASE UNCHANGED dealerVars
  BY <1>1, QuietBooks DEF dealerVars, fileVars
<1>2. CASE SendState
  <2>1. UNCHANGED <<match, recovered, log, starts>>
    BY <1>2 DEF SendState, fileVars
  <2>2. phase \in {"send", "final"} /\ phase' \in {phase, "wait", "next"}
    <3>1. toSend + 1 < NumPlayers \/ toSend + 1 = NumPlayers
      BY Sizes DEF DealerInv, TypesInv
    <3>2. toSend + 1 < NumPlayers => toSend + 1 # NumPlayers
      BY Sizes DEF DealerInv, TypesInv
    <3> QED BY <1>2, <3>1, <3>2 DEF SendState
  <2>3. phase = "final" => phase' \in {"final", "next"}
    <3>1. toSend + 1 < NumPlayers \/ toSend + 1 = NumPlayers
      BY Sizes DEF DealerInv, TypesInv
    <3>2. toSend + 1 < NumPlayers => toSend + 1 # NumPlayers
      BY Sizes DEF DealerInv, TypesInv
    <3> QED BY <1>2, <3>1, <3>2 DEF SendState
  <2> QED BY <2>1, <2>2, <2>3, QuietBooks DEF InPlay
<1>3. CASE SkipComment \/ IgnoreLine
  <2>1. UNCHANGED <<phase, match, recovered, log, starts>>
    BY <1>3 DEF SkipComment, IgnoreLine, ReadOn, LineRead, fileVars
  <2> QED BY <2>1, QuietBooks
<1>4. ASSUME Waiting, NEW a, Accept(a) PROVE BooksInv'
  <2>1. UNCHANGED <<match, recovered, log, starts>> /\ phase = "wait" /\ phase' = "log"
    BY <1>4 DEF Waiting, Accept, LineRead, fileVars
  <2> QED BY <2>1, QuietBooks DEF InPlay
<1>5. CASE BadFormat \/ InvalidAction \/ TakeAction
  <2>1. Stop \/ (Waiting /\ \E a : Accept(a))
    BY <1>5 DEF BadFormat, InvalidAction, TakeAction, GotLine
  <2> QED BY <1>4, <2>1, StopBooks
<1>6. CASE Tick \/ ClockBack \/ FinishLine
  BY <1>6, QuietBooks DEF Tick, ClockBack, FinishLine, fileVars
<1>7. CASE \E seat \in Seats : Reply(seat) \/ Stray(seat)
  BY <1>7, QuietBooks DEF Reply, Stray, Send, fileVars
<1>8. CASE RunOutOfTime \/ TimeOut \/ Crash
  BY <1>8, StopBooks DEF RunOutOfTime, TimeOut, Crash
<1>9. CASE RefuseLog
  BY <1>9, RefuseBooks
<1> QED
  BY <1>1, <1>2, <1>3, <1>5, <1>6, <1>7, <1>8, <1>9, StartBooks, LogTransactionBooks, ActBooks,
     AddToLogBooks, StartNewHandBooks DEF DealerNext

(* BooksInv is an invariant.                                                *)
LEMMA BooksInvHolds ==
  ASSUME GameIsPlayable, BetsFit
  PROVE  DealerSpec => []BooksInv
<1>1. DealerInit => BooksInv
  BY InitBooks
<1>2. DealerInv /\ BooksInv /\ [DealerNext]_dealerVars => BooksInv'
  BY StepBooks
<1> QED
  BY <1>1, <1>2, DealerInvHolds, PTL DEF DealerSpec

(* The log names no hand twice, whatever was interrupted when, and the      *)
(* totals of a match that was not are the sums of what it says, seat by     *)
(* seat, although the players change seats from hand to hand.               *)
THEOREM LogIsTheTotals ==
  ASSUME GameIsPlayable, BetsFit
  PROVE  DealerSpec => []LogAgreesWithTotals
<1>1. BooksInv => LogAgreesWithTotals
  BY DEF BooksInv, LogAgreesWithTotals
<1> QED
  BY <1>1, BooksInvHolds, PTL

-----------------------------------------------------------------------------
(***************************************************************************)
(* The match the log holds is an instance of Match.  Its operators are     *)
(* copies of the dealer's, which have the same values.                     *)
(***************************************************************************)
LEMMA SameRecord ==
  ASSUME NEW s, NEW a
  PROVE  Durable!RecordAction(s, a) = RecordAction(s, a)
  BY DEF RecordAction, NewSpent, NewMinRaiseTo, Wrap, Larger, Smaller,
         CurrentPlayer, NextPlayer, Distances, CanAct, Owes, RoundLog,
         Durable!RecordAction, Durable!NewSpent, Durable!NewMinRaiseTo,
         Durable!Wrap, Durable!Larger, Durable!Smaller, Durable!CurrentPlayer,
         Durable!NextPlayer, Durable!Distances, Durable!CanAct, Durable!Owes,
         Durable!RoundLog

(* The same for the end of an action,                                       *)
LEMMA SameSettle ==
  ASSUME NEW s
  PROVE  Durable!Settle(s) = Settle(s)
  BY DEF Settle, MinRaiseOfNextRound, Wrap, CanAct, Owes, RoundLog, BigBlind,
         Max, Players, Larger, Smaller, NumFolded, NumActing, NumCalled,
         Folded, Acting, Callers, Cardinality, IsFiniteSet, Durable!Settle,
         Durable!MinRaiseOfNextRound, Durable!Wrap, Durable!CanAct,
         Durable!Owes, Durable!RoundLog, Durable!BigBlind, Durable!Max,
         Durable!Players, Durable!Larger, Durable!Smaller, Durable!NumFolded,
         Durable!NumActing, Durable!NumCalled, Durable!Folded, Durable!Acting,
         Durable!Callers, Durable!Cardinality, Durable!IsFiniteSet

(* ... the whole action and its checks,                                     *)
LEMMA SameAction ==
  ASSUME NEW s, NEW a
  PROVE  /\ Durable!DoAction(s, a) = DoAction(s, a)
         /\ Durable!FixedAction(s, a) = FixedAction(s, a)
         /\ Durable!IsValidAction(s, FALSE, a) = IsValidAction(s, FALSE, a)
<1>1. Durable!DoAction(s, a) = DoAction(s, a)
  BY SameRecord, SameSettle DEF DoAction, Durable!DoAction
<1>2. Durable!FixedAction(s, a) = FixedAction(s, a)
  BY DEF FixedAction, MinRaiseTo, MaxRaiseTo, Larger, Smaller, CurrentPlayer,
         NextPlayer, Distances, CanAct, Owes, RoundLog, Durable!FixedAction,
         Durable!MinRaiseTo, Durable!MaxRaiseTo, Durable!Larger,
         Durable!Smaller, Durable!CurrentPlayer, Durable!NextPlayer,
         Durable!Distances, Durable!CanAct, Durable!Owes, Durable!RoundLog
<1>3. Durable!IsValidAction(s, FALSE, a) = IsValidAction(s, FALSE, a)
  BY DEF IsValidAction, RaiseIsValid, NumRaises, NumActing, Acting, Players,
         MinRaiseTo, MaxRaiseTo, Smaller, CurrentPlayer, NextPlayer,
         Distances, CanAct, Owes, RoundLog, Cardinality, IsFiniteSet,
         Durable!IsValidAction, Durable!RaiseIsValid, Durable!NumRaises,
         Durable!NumActing, Durable!Acting, Durable!Players,
         Durable!MinRaiseTo, Durable!MaxRaiseTo, Durable!Smaller,
         Durable!CurrentPlayer, Durable!NextPlayer, Durable!Distances,
         Durable!CanAct, Durable!Owes, Durable!RoundLog, Durable!Cardinality,
         Durable!IsFiniteSet
<1> QED
  BY <1>1, <1>2, <1>3

(* ... a new hand,                                                          *)
LEMMA SameDeal ==
  ASSUME NEW h, NEW st
  PROVE  Durable!InitState(h, st) = InitState(h, st)
  BY DEF InitState, BigBlind, Max, Players, Rounds, Wrap, Durable!InitState,
         Durable!BigBlind, Durable!Max, Durable!Players, Durable!Rounds,
         Durable!Wrap

(* ... its values,                                                          *)
LEMMA SameValue ==
  ASSUME NEW s, NEW rk, NEW q
  PROVE  Durable!ValueOfState(s, rk, q) = ValueOfState(s, rk, q)
  BY DEF ValueOfState, SidePots, Shown, Durable!Shown, SumOver, MapThenSumSet, MapThenFoldSet,
         NumFolded, Folded, Players, Max, Min, Cardinality, IsFiniteSet,
         Durable!ValueOfState, Durable!SidePots, Durable!SumOver,
         Durable!MapThenSumSet, Durable!MapThenFoldSet, Durable!NumFolded,
         Durable!Folded, Durable!Players, Durable!Max, Durable!Min,
         Durable!Cardinality, Durable!IsFiniteSet

(* ... and the match.                                                       *)
LEMMA SameMatch ==
  ASSUME NEW m
  PROVE  /\ Durable!FirstMatch = FirstMatch
         /\ Durable!MatchOver(m) = MatchOver(m)
         /\ Durable!Completed(m) = Completed(m)
         /\ \A a : Durable!DoHandAction(m, a) = DoHandAction(m, a)
         /\ Durable!Actions = Actions
<1>1. /\ Durable!Players = Players /\ Durable!Seats = Seats /\ Durable!TableStack = TableStack
      /\ Durable!FirstMatch = FirstMatch /\ Durable!MatchOver(m) = MatchOver(m)
      /\ Durable!Actions = Actions
  BY SameDeal
     DEF Players, Seats, TableStack, FirstMatch, MatchOver, Actions, Max, Durable!Players,
         Durable!Seats, Durable!TableStack, Durable!FirstMatch, Durable!MatchOver,
         Durable!Actions, Durable!Max
<1>2. \A seat : Durable!Value(m, Durable!SeatToPlayer(m, seat)) = Value(m, SeatToPlayer(m, seat))
  BY SameValue DEF Value, SeatToPlayer, Durable!Value, Durable!SeatToPlayer
<1>3. Durable!AddValues(m) = AddValues(m)
  <2>1. [seat \in Seats |-> m.total[seat]
                              + Durable!Value(m, Durable!SeatToPlayer(m, seat))]
          = [seat \in Seats |-> m.total[seat] + Value(m, SeatToPlayer(m, seat))]
    BY <1>2
  <2> QED BY <1>1, <2>1 DEF AddValues, Durable!AddValues
<1>4. \A n : Durable!SetUpNewHand(n) = SetUpNewHand(n)
  BY SameDeal, <1>1 DEF SetUpNewHand, Durable!SetUpNewHand
<1>5. Durable!Completed(m) = Completed(m)
  BY <1>3, <1>4 DEF Completed, Durable!Completed
<1>6. \A a : Durable!DoHandAction(m, a) = DoHandAction(m, a)
  BY SameAction DEF DoHandAction, Durable!DoHandAction
<1> QED
  BY <1>1, <1>5, <1>6

(* A line of the log is a move; nothing else changes the match it holds.    *)
LEMMA LogTransactionMoves ==
  ASSUME GameIsPlayable, DealerInv, LogTransaction
  PROVE  Durable!Move
<1> DEFINE m == recovered.match
           a == pending.action
<1>1. phase = "log"
  BY DEF LogTransaction
<1>2. /\ m = match /\ ~MatchOver(m) /\ Playable(m.hand, a) /\ a \in Actions
      /\ recovered'.match = Completed(DoHandAction(m, a))
  BY <1>1, LogEffect DEF DealerInv, MatchInv, InPlay
<1> HIDE DEF m, a
<1>3. /\ a \in Durable!Actions /\ a = Durable!FixedAction(m.hand, a)
      /\ Durable!IsValidAction(m.hand, FALSE, a)
      /\ recovered'.match = Durable!Completed(Durable!DoHandAction(m, a))
  BY <1>2, SameAction, SameMatch DEF Playable
<1>4. recovered'.match \in Durable!MovesFrom(m)
  BY <1>3 DEF Durable!MovesFrom
<1>5. ~Durable!MatchOver(m)
  BY <1>2, SameMatch
<1> QED
  BY <1>4, <1>5 DEF Durable!Move, m

(* Only logTransaction changes the match the log holds.                     *)
LEMMA OtherStepsStutter ==
  ASSUME DealerInv, [DealerNext]_dealerVars, ~LogTransaction
  PROVE  recovered'.match = recovered.match
<1>1. CASE UNCHANGED dealerVars
  BY <1>1 DEF dealerVars, fileVars
<1>2. ASSUME Stop PROVE recovered' = recovered
  BY <1>2 DEF Stop, fileVars
<1>3. ASSUME LineRead PROVE recovered' = recovered
  BY <1>3 DEF LineRead, fileVars
<1>4. CASE SkipComment \/ RunOutOfTime \/ IgnoreLine \/ BadFormat \/ InvalidAction \/ TakeAction
           \/ TimeOut
  BY <1>2, <1>3, <1>4 DEF SkipComment, RunOutOfTime, IgnoreLine, BadFormat, InvalidAction,
                          TakeAction, TimeOut, ReadOn, Accept
<1>5. CASE FinishLine \/ \E seat \in Seats : Reply(seat) \/ Stray(seat)
  BY <1>5 DEF FinishLine, Reply, Stray, Send, fileVars
<1>6. CASE RefuseLog \/ SendState \/ Act \/ AddToLog \/ StartNewHand \/ Crash \/ Tick
           \/ ClockBack
  BY <1>2, <1>6 DEF RefuseLog, SendState, Act, AddToLog, StartNewHand, Crash, Tick, ClockBack,
                    fileVars
<1>7. CASE Start
  BY <1>7, StartEffect
<1> QED
  BY <1>1, <1>4, <1>5, <1>6, <1>7 DEF DealerNext

(* Crashes, restarts, timeouts and whatever the players send are invisible  *)
(* in the match the transaction log holds: from the first match on, every   *)
(* step of the process is one valid action, taken once, or no step of it.   *)
THEOREM RestartsAreInvisible ==
  ASSUME GameIsPlayable
  PROVE  DealerSpec => ImplementsMatch
<1>1. DealerInit => Durable!MatchInit
  BY RecoverNothing, SameMatch DEF DealerInit, NothingRead, Durable!MatchInit
<1>2. DealerInv /\ [DealerNext]_dealerVars => [Durable!Move]_(recovered.match)
  BY LogTransactionMoves, OtherStepsStutter
<1> QED
  BY <1>1, <1>2, DealerInvHolds, PTL DEF DealerSpec, ImplementsMatch, Durable!MatchSpec

=============================================================================
