------------------------------- MODULE Dealer -------------------------------
(***************************************************************************)
(* The dealer process (src/modules/agent/src/dealer.c, options -L -T -a)   *)
(* and the players at its sockets: it sends the state to every seat, waits *)
(* for the acting seat within its time limits, writes the action to the    *)
(* transaction log, applies it, and logs finished hands.  The process may  *)
(* stop between any two steps; a new one recovers from the transaction log.*)
(***************************************************************************)
EXTENDS Match

CONSTANTS
  MaxInvalidActions,  \* errorInfo.maxInvalidActions
  MaxResponse,        \* --t_response, in ticks
  MaxUsedHand,        \* --t_hand
  MaxUsedMatch,       \* --t_per_hand times the number of hands
  MaxStarts,          \* bound: processes started for one match
  MaxStrays,          \* bound: lines sent by players beyond one answer per request
  MaxOddLines,        \* bound: such lines, and late ones, while the log is shorter
  MaxSetbacks         \* bound: the clock goes back while the log is shorter

ASSUME DealerAssumption ==
  {MaxInvalidActions, MaxResponse, MaxUsedHand, MaxUsedMatch, MaxStarts, MaxStrays,
   MaxOddLines, MaxSetbacks} \subseteq Nat

VARIABLES
  phase,    \* where gameLoop stands, or "down" when no dealer runs
  errs,     \* ErrorInfo: counters by seat
  toSend,   \* the loop variable of the two sending loops
  pending,  \* the action and response time readPlayerResponse returned
  elapsed,  \* ticks since sendTime
  idle,     \* ticks since getLine was called
  inbox,    \* by seat, the lines on their way from the player
  half,     \* the line whose beginning getLine has got when its time was up, if any
  seen,     \* by seat, the last state line the player got and what it chose to do
  tlog,     \* the transaction file
  log,      \* the log file: finished hands and their values by player
  recovered, \* history variable: what tlog recreates, its old stamps as last read
  starts,   \* processes started so far
  strays    \* stray lines sent so far

socketVars == <<inbox, half, seen, strays>>
fileVars   == <<tlog, log, recovered>>
clockVars  == <<elapsed, idle>>
dealerVars == <<phase, match, errs, toSend, pending, clockVars, socketVars, fileVars, starts>>

NoErrs == [invalid   |-> [seat \in Seats |-> 0],
           usedHand  |-> [seat \in Seats |-> 0],
           usedMatch |-> [seat \in Seats |-> 0]]

NoView == [player |-> -1, handId |-> -1, dealt |-> -1, betting |-> << >>]

NoAction    == [type |-> "invalid", size |-> 0]
CallInstead == [type |-> "call", size |-> 0]
Undecided   == [type |-> "none", size |-> 0]
NoResponse  == [action |-> NoAction, micros |-> 0]

-----------------------------------------------------------------------------
(***************************************************************************)
(* The helpers of gameLoop                                                 *)
(***************************************************************************)
(* The part of a match state line that matchStatesEqual compares.           *)
View(m, seat) ==
  [player |-> SeatToPlayer(m, seat), handId |-> m.hand.handId, dealt |-> m.dealt,
   betting |-> Betting(m.hand)]

(* checkErrorTimes: charge the response, then compare with the limits; a    *)
(* response that seems to have come before it was asked for is let through. *)
Charged(e, seat, micros) ==
  [e EXCEPT !.usedHand[seat]  = @ + Larger(0, micros),
            !.usedMatch[seat] = @ + Larger(0, micros)]

InTime(e, seat, micros) ==
  \/ micros < 0
  \/ /\ micros <= MaxResponse
     /\ e.usedHand[seat] + micros <= MaxUsedHand
     /\ e.usedMatch[seat] + micros <= MaxUsedMatch

OneMoreInvalid(e, seat) == [e EXCEPT !.invalid[seat] = @ + 1]

NewHandErrs(e) == [e EXCEPT !.usedHand = [seat \in Seats |-> 0]]

(* Mutants: recovery does not add up the totals; nor resets the hand clocks. *)
RecoverOneMutant(r, e, totals, clocks) ==
  LET m   == r.match
      s   == ActingSeat(m)
      new == DoHandAction(m, e.action)
  IN  IF r.ok /\ e.handId = m.hand.handId
         /\ IsValidAction(m.hand, FALSE, e.action) /\ InTime(r.errs, s, e.micros)
      THEN [ok    |-> TRUE,
            match |-> IF totals THEN Completed(new)
                      ELSE IF new.hand.finished THEN SetUpNewHand(new) ELSE new,
            errs  |-> IF clocks /\ new.hand.finished
                      THEN NewHandErrs(Charged(r.errs, s, e.micros))
                      ELSE Charged(r.errs, s, e.micros)]
      ELSE [r EXCEPT !.ok = FALSE]
RecoverOneWithoutTotals(r, e) == RecoverOneMutant(r, e, FALSE, TRUE)
RecoverOneWithOldClocks(r, e) == RecoverOneMutant(r, e, TRUE, FALSE)

(* One line of processTransactionFile.                                      *)
RecoverOne(r, e) ==
  LET m   == r.match
      s   == ActingSeat(m)
      new == DoHandAction(m, e.action)
  IN  IF /\ r.ok
         /\ e.handId = m.hand.handId
         /\ IsValidAction(m.hand, FALSE, e.action)
         /\ InTime(r.errs, s, e.micros)
      THEN [ok    |-> TRUE,
            match |-> Completed(new),
            errs  |-> IF new.hand.finished THEN NewHandErrs(Charged(r.errs, s, e.micros))
                      ELSE Charged(r.errs, s, e.micros)]
      ELSE [r EXCEPT !.ok = FALSE]

Recover(lines) == FoldLeft(RecoverOne, [ok |-> TRUE, match |-> FirstMatch, errs |-> NoErrs], lines)

(* "%6u" stores half of a tv_usec, and nobody has initialised the other.    *)
(* Where the other halves of sendTime and recvTime differ, every line of    *)
(* the log seems to have taken an hour or more longer, or less: it is out   *)
(* of time, or ends before it began and costs nothing.                      *)
Uncharged(lines) == [i \in DOMAIN lines |-> [lines[i] EXCEPT !.micros = -1]]

-----------------------------------------------------------------------------
DealerInit ==
  /\ phase = "down" /\ match = FirstMatch /\ errs = NoErrs
  /\ toSend = 0 /\ pending = NoResponse
  /\ elapsed = 0 /\ idle = 0
  /\ inbox = [seat \in Seats |-> << >>] /\ half = << >>
  /\ seen = [seat \in Seats |-> [view |-> NoView, choice |-> CallInstead]]
  /\ tlog = << >> /\ log = << >> /\ recovered = Recover(<< >>)
  /\ starts = 0 /\ strays = 0

(* The process ends: its memory and its connections are gone.              *)
Stop ==
  /\ phase' = "down" /\ match' = FirstMatch /\ errs' = NoErrs
  /\ toSend' = 0 /\ pending' = NoResponse
  /\ elapsed' = 0 /\ idle' = 0
  /\ inbox' = [seat \in Seats |-> << >>] /\ half' = << >>
  /\ seen' = [seat \in Seats |-> [seen[seat] EXCEPT !.choice = CallInstead]]
  /\ UNCHANGED <<fileVars, starts, strays>>

(* Mutants: the error counters are not restored; the transaction file is    *)
(* opened with "w".                                                         *)
StartWithFreshClocks ==
  /\ phase = "down" /\ starts < MaxStarts
  /\ LET r == Recover(tlog)
     IN  /\ r.ok
         /\ match' = r.match /\ errs' = NoErrs /\ recovered' = r
         /\ phase' = IF MatchOver(r.match) THEN "done" ELSE "send"
  /\ starts' = starts + 1
  /\ UNCHANGED <<toSend, pending, clockVars, socketVars, tlog, log>>
StartTruncating ==
  /\ phase = "down" /\ starts < MaxStarts
  /\ phase' = "send" /\ match' = FirstMatch /\ errs' = NoErrs
  /\ tlog' = << >> /\ recovered' = Recover(<< >>)
  /\ starts' = starts + 1
  /\ UNCHANGED <<toSend, pending, clockVars, socketVars, log>>

(* main and gameLoop up to the first hand: open the files for appending,    *)
(* wait for the players, replay the transaction file.                       *)
Start ==
  /\ phase = "down" /\ starts < MaxStarts
  /\ \E lines \in {tlog, Uncharged(tlog)} :
       LET r == Recover(lines)
       IN  /\ r.ok
           /\ match' = r.match /\ errs' = r.errs /\ recovered' = r
           /\ phase' = IF MatchOver(r.match) THEN "done" ELSE "send"
  /\ starts' = starts + 1
  /\ UNCHANGED <<toSend, pending, clockVars, socketVars, tlog, log>>

(* ... which fails for a line read as out of time: the process ends.        *)
RefuseLog ==
  /\ phase = "down" /\ starts < MaxStarts /\ tlog # << >>
  /\ starts' = starts + 1
  /\ UNCHANGED <<phase, match, errs, toSend, pending, clockVars, socketVars, fileVars>>

(* sendPlayerMessage to the next seat; the clock starts with the message to *)
(* the acting seat.                                                         *)
SendState ==
  /\ phase \in {"send", "final"}
  /\ seen' = [seen EXCEPT ![toSend] = [view |-> View(match, toSend), choice |-> Undecided]]
  /\ toSend' = (toSend + 1) % NumPlayers
  /\ phase' = CASE toSend + 1 < NumPlayers                       -> phase
                [] toSend + 1 = NumPlayers /\ phase = "send"  -> "wait"
                [] toSend + 1 = NumPlayers /\ phase = "final" -> "next"
  /\ elapsed' = 0 /\ idle' = 0
  /\ UNCHANGED <<match, errs, pending, inbox, half, strays, fileVars, starts>>

(***************************************************************************)
(* readPlayerResponse: getLine, then one of its ways round the loop or out *)
(***************************************************************************)
Waiting == phase = "wait"
Seat    == ActingSeat(match)

GotLine(kind) == Waiting /\ inbox[Seat] # << >> /\ Head(inbox[Seat]).kind \in kind

Answer   == Head(inbox[Seat])
OnTime   == InTime(errs, Seat, elapsed)

(* Mutant: select waits without a timeout.                                  *)
NeverTimedOut == FALSE
(* With the beginning of a line read and the time used up, timeLeft wraps:  *)
(* getLine waits for the rest without limit (net.c:68-78).                  *)
TimedOut == inbox[Seat] = << >> /\ half = << >> /\ idle >= MaxResponse

(* Mutant: an answer is an answer.                                          *)
MatchesAny == Answer.kind = "answer"
Matches == Answer.kind = "answer" /\ Answer.view = View(match, Seat)

LineRead == inbox' = [inbox EXCEPT ![Seat] = Tail(@)]
                  /\ UNCHANGED <<match, toSend, half, seen, strays, fileVars, starts>>

(* Back to getLine, whose own clock starts again.                           *)
ReadOn == LineRead /\ idle' = 0 /\ UNCHANGED <<phase, pending, elapsed>>

SkipComment == GotLine({"comment"}) /\ ReadOn /\ UNCHANGED errs

RunOutOfTime == GotLine({"garbage", "answer"}) /\ ~OnTime /\ Stop

IgnoreLine ==
  /\ GotLine({"garbage", "answer"}) /\ OnTime /\ ~Matches
  /\ errs' = Charged(errs, Seat, elapsed)
  /\ ReadOn

Accept(a) ==
  /\ phase' = "log" /\ pending' = [action |-> a, micros |-> elapsed]
  /\ elapsed' = 0 /\ idle' = 0
  /\ LineRead

(* The state without ":" behind it, or a no-limit raise without a size: no  *)
(* count of these ends the match, it is only taken.                         *)
BadFormat ==
  /\ GotLine({"answer"}) /\ OnTime /\ Matches /\ Answer.action.type = "malformed"
  /\ errs' = OneMoreInvalid(Charged(errs, Seat, elapsed), Seat)
  /\ Accept(CallInstead)

(* An action nobody may take here, or a letter that is no action.           *)
InvalidAction ==
  /\ GotLine({"answer"}) /\ OnTime /\ Matches
  /\ Answer.action.type # "malformed" /\ ~IsValidAction(match.hand, TRUE, Answer.action)
  /\ IF errs.invalid[Seat] + 1 > MaxInvalidActions
     THEN Stop
     ELSE /\ errs' = OneMoreInvalid(Charged(errs, Seat, elapsed), Seat)
          /\ Accept(CallInstead)

TakeAction ==
  /\ GotLine({"answer"}) /\ OnTime /\ Matches
  /\ Answer.action.type # "malformed" /\ IsValidAction(match.hand, TRUE, Answer.action)
  /\ errs' = Charged(errs, Seat, elapsed)
  /\ Accept(FixedAction(match.hand, Answer.action))

(* getLine's select returns without input.                                  *)
TimeOut ==
  Waiting /\ TimedOut /\ Stop

ReadResponse ==
  SkipComment \/ RunOutOfTime \/ IgnoreLine \/ BadFormat \/ InvalidAction \/ TakeAction \/ TimeOut

(***************************************************************************)
(* The rest of gameLoop                                                    *)
(***************************************************************************)
(* Mutant: without the flush the line is lost with the process.             *)
LoggedButNotFlushed(lines, line) == lines

(* logTransaction: written and flushed.                                     *)
Logged(lines, line) == Append(lines, line)

LogTransaction ==
  /\ phase = "log"
  /\ LET line == [action |-> PrintedAction(pending.action),
                  handId |-> match.hand.handId, micros |-> pending.micros]
     IN  /\ tlog' = Logged(tlog, line)
         /\ recovered' = FoldLeft(RecoverOne, recovered, Logged(<< >>, line))
  /\ phase' = "do"
  /\ UNCHANGED <<match, errs, toSend, pending, clockVars, socketVars, log, starts>>

Act ==
  /\ phase = "do"
  /\ match' = DoHandAction(match, pending.action)
  /\ phase' = IF match'.hand.finished THEN "score" ELSE "send"
  /\ pending' = NoResponse
  /\ UNCHANGED <<errs, toSend, clockVars, socketVars, fileVars, starts>>

(* The values of the finished hand, by player: into the totals of the seats *)
(* and, with addToLogFile, into the log.                                    *)
AddToLog ==
  /\ phase = "score"
  /\ match' = AddValues(match)
  /\ log' = Append(log, [handId |-> match.hand.handId, player0Seat |-> match.player0Seat,
                         value |-> [p \in Players |-> Value(match, p)]])
  /\ phase' = "final"
  /\ UNCHANGED <<errs, toSend, pending, clockVars, socketVars, tlog, recovered, starts>>

StartNewHand ==
  /\ phase = "next"
  /\ match' = SetUpNewHand(match)
  /\ errs' = NewHandErrs(errs)
  /\ phase' = IF MatchOver(match') THEN "done" ELSE "send"
  /\ UNCHANGED <<toSend, pending, clockVars, socketVars, fileVars, starts>>

(* Killed, or a write to a closed socket failed.                            *)
Crash == phase \notin {"down", "done"} /\ Stop

(* Time passes while the dealer waits in getLine; all times beyond the      *)
(* limit are alike.                                                         *)
CanTick == Waiting /\ (idle < MaxResponse \/ (half # << >> /\ elapsed <= MaxResponse))

Tick ==
  /\ CanTick
  /\ elapsed' = Smaller(elapsed + 1, MaxResponse + 1)
  /\ idle' = Smaller(idle + 1, MaxResponse)
  /\ UNCHANGED <<phase, match, errs, toSend, pending, socketVars, fileVars, starts>>

(* The bounds on odd events: the clock goes back or the lines are odd.      *)
MayGoBack == Len(tlog) < MaxSetbacks /\ strays = 0
MayBeOdd  == Len(tlog) < MaxOddLines /\ elapsed >= 0
             /\ \A i \in DOMAIN tlog : tlog[i].micros >= 0

(* "calls to gettimeofday can return earlier times on later calls :/"       *)
ClockBack ==
  /\ Waiting /\ elapsed >= 0
  /\ MayGoBack
  /\ elapsed' = -1
  /\ UNCHANGED <<phase, match, errs, toSend, pending, idle, socketVars, fileVars, starts>>

(***************************************************************************)
(* The players (any program that speaks the protocol)                      *)
(***************************************************************************)
(* The dealer looks into a socket only while it waits for that seat, so it  *)
(* is enough to let a line arrive there and then; a stale answer arrives    *)
(* while the state that outdates it is being sent.  A line begun while      *)
(* getLine has time left comes in full or counts as none; one begun when    *)
(* the time is just up is waited for.                                       *)
Requests == [type : {"fold", "call", "raise", "invalid", "malformed"}, size : {0}]

Send(seat, line) ==
  /\ inbox[seat] = << >> /\ half = << >>
  /\ \/ inbox' = [inbox EXCEPT ![seat] = <<line>>] /\ half' = half
     \/ /\ Waiting /\ seat = Seat /\ idle >= MaxResponse /\ MayBeOdd
        /\ half' = <<line>> /\ inbox' = inbox
  /\ UNCHANGED <<phase, match, errs, toSend, pending, clockVars, fileVars, starts>>

(* The player whose turn it is in the state it last saw answers it.         *)
Reply(seat) ==
  /\ Waiting /\ seat = Seat /\ seen[seat].choice = Undecided
  /\ \E a \in Requests :
       /\ Send(seat, [kind |-> "answer", view |-> seen[seat].view, action |-> a])
       /\ seen' = [seen EXCEPT ![seat].choice = a]
  /\ UNCHANGED strays

(* A line nobody asked for: a comment, nonsense, a second or late answer.   *)
Stray(seat) ==
  /\ strays < MaxStrays /\ MayBeOdd
  /\ \/ /\ Waiting /\ seat = Seat
        /\ \E kind \in {"comment", "garbage"} :
             Send(seat, [kind |-> kind, view |-> NoView, action |-> NoAction])
     \/ /\ phase = "send" /\ seen[seat].view \notin {NoView, View(match, seat)}
        /\ Send(seat, [kind |-> "answer", view |-> seen[seat].view, action |-> CallInstead])
  /\ strays' = strays + 1
  /\ UNCHANGED seen

FinishLine ==
  /\ half # << >>
  /\ inbox' = [inbox EXCEPT ![Seat] = half] /\ half' = << >>
  /\ UNCHANGED <<phase, match, errs, toSend, pending, clockVars, seen, strays, fileVars, starts>>

DealerStep == SendState \/ ReadResponse \/ LogTransaction \/ Act \/ AddToLog \/ StartNewHand

DealerNext ==
  \/ Start \/ RefuseLog \/ SendState
  \/ SkipComment \/ RunOutOfTime \/ IgnoreLine \/ BadFormat \/ InvalidAction \/ TakeAction \/ TimeOut
  \/ LogTransaction \/ Act \/ AddToLog \/ StartNewHand
  \/ Crash \/ Tick \/ ClockBack
  \/ \E seat \in Seats : Reply(seat) \/ Stray(seat)
  \/ FinishLine

DealerSpec == DealerInit /\ [][DealerNext]_dealerVars

(* The operating system runs the process and time passes; of the players it *)
(* is asked only that a line begun is ended (or the player hangs up).  This *)
(* is WF of DealerStep, Tick and FinishLine with ENABLED spelled out (only  *)
(* the guards decide).                                                      *)
CanStep ==
  \/ phase \in {"send", "final", "log", "do", "score", "next"}
  \/ Waiting /\ (inbox[Seat] # << >> \/ TimedOut)

FairDealerSpec ==
  /\ DealerSpec
  /\ []<>~CanStep \/ []<><<DealerStep>>_dealerVars
  /\ []<>~CanTick \/ []<><<Tick>>_dealerVars
  /\ []<>(half = << >>) \/ []<><<FinishLine>>_dealerVars

-----------------------------------------------------------------------------
(***************************************************************************)
(* Properties                                                              *)
(***************************************************************************)

(* Where the running match will stand once the action last written to the   *)
(* transaction log has taken its full effect.                               *)
AheadMatch ==
  CASE phase = "do"              -> Completed(DoHandAction(match, pending.action))
    [] phase = "score"           -> Completed(match)
    [] phase \in {"final", "next"} -> SetUpNewHand(match)
    [] OTHER                     -> match

(* "a list of actions taken and timestamps that is sufficient to recreate   *)
(* an interrupted match" (dealer.c:26-28): at every moment a dealer runs,   *)
(* replaying the transaction log is accepted line by line and leads to the  *)
(* hand, the seats, the cards and the totals the running match is about to  *)
(* have.                                                                    *)
RecoveryAgrees ==
  phase # "down" => recovered.match = AheadMatch

(* ... and it is accepted when no dealer runs, so a new one that reads the  *)
(* stamps as the last one did can start.                                    *)
CanAlwaysRestart == recovered.ok

(* What a seat is shown never goes back: across restarts the next state it  *)
(* gets belongs to a later hand or extends the betting it has seen, with    *)
(* the same cards and the same player.                                      *)
LaterView(old, new) ==
  \/ old = NoView
  \/ old.handId < new.handId
  \/ /\ [old EXCEPT !.betting = << >>] = [new EXCEPT !.betting = << >>]
     /\ IsPrefix(old.betting, new.betting)

NoRollback ==
  [][\A seat \in Seats : LaterView(seen[seat].view, seen'[seat].view)]_dealerVars

(* The log names no hand twice, in order, and what it says each player won  *)
(* is in the total of the seat that player had: without an interruption the *)
(* final totals are exactly the sums of the log.                            *)
LoggedFor(seat) ==
  SumOver([i \in DOMAIN log |->
             log[i].value[(seat + NumPlayers - log[i].player0Seat) % NumPlayers]], DOMAIN log)

LogAgreesWithTotals ==
  /\ \A i, j \in DOMAIN log : i < j => log[i].handId < log[j].handId
  /\ phase = "done" /\ starts = 1 => \A seat \in Seats : match.total[seat] = LoggedFor(seat)

(* The action the dealer takes is the one the player chose for the very     *)
(* state on the table, or a call where that choice is no valid action: no   *)
(* late or second answer is taken for it.                                   *)
ChoiceIsHonoured ==
  phase \in {"log", "do"} =>
    LET c == seen[Seat].choice
    IN  /\ c # Undecided
        /\ pending.action = IF c.type # "malformed" /\ IsValidAction(match.hand, TRUE, c)
                            THEN FixedAction(match.hand, c) ELSE CallInstead

(* A restart gives no seat time back that the log shows it used, as far as  *)
(* its stamps are read right, and takes none; lines the dealer ignored cost *)
(* time only until the next restart.                                        *)
RestartKeepsTheClocks ==
  phase = "send" =>
    /\ \A seat \in Seats : recovered.errs.usedMatch[seat] <= errs.usedMatch[seat]
    /\ strays = 0 => /\ recovered.errs.usedHand = errs.usedHand
                     /\ recovered.errs.usedMatch = errs.usedMatch

(* A running dealer stops or finishes the match, whatever the players do or *)
(* fail to do (they may send comments for ever, see README).                *)
DealerEnds == phase # "down" ~> phase \in {"down", "done"}

(* The restarts are invisible: the match the transaction log holds is one   *)
(* uninterrupted match.                                                     *)
Durable == INSTANCE Match WITH match <- recovered.match
ImplementsMatch == Durable!MatchSpec

(* "returns -1 for failure (disconnect, timeout, too many bad actions ...)" *)
(* (dealer.c:256): a seat over its limit of bad actions is not played with. *)
BadActionsAreLimited ==
  phase \in {"log", "do"} => \A seat \in Seats : errs.invalid[seat] <= MaxInvalidActions

(* "matchName.log will contain finished states and values" (dealer.c:23).   *)
LogIsComplete == phase = "done" => Len(log) = NumHands

=============================================================================
