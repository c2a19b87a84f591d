# Bulldog in TLA+

A model of the poker system in this repository: the rules engine that every
program links (`modules/core`), the dealer that runs a match between players at
its sockets (`modules/agent/src/dealer.c`), the benchmark server
(`modules/acpc_server/bm_server.c`), the web controller with its sessions and
engines (`modules/agent/src/bulldog_controller.cpp`, `modules/engine`), the
schedule and threads of the CFR solver, and the abstract betting tree. TLC checks
the modules on small instances; TLAPS proves for instances of every size the
invariants of the betting, the payoff and its side pots, the recovery of the dealer
as a refinement of an uninterrupted match, the invariants of the sessions, the
benchmark server as a refinement of a queue of requests, and the schedule and threads
of the solver. `PROJECT.json` maps each definition to the lines it models and lists the runs, their mutants,
the hazards and the theorems.

    tlc -config MCBetting_nolimit.cfg MCBetting.tla
    tlapm SessionsProofs.tla

## The system

| part | state it keeps | operations | interacts through |
|---|---|---|---|
| rules engine, `core/src/game.c` | `State`: round, chips by player, action log, folded, finished | `initState`, `isValidAction`, `doAction`, `currentPlayer`, `valueOfState`, `StepBackAction`, reading and printing states | called by every other part |
| dealer, `agent/src/dealer.c` | the hand, seats, error counters and clocks, totals, two files | `gameLoop`, `readPlayerResponse`, `processTransactionFile` | one socket per seat, transaction file, log file |
| line buffer, `core/src/net.c` | a buffer per socket | `getLine` with a time-out | dealer, benchmark server |
| benchmark server, `acpc_server/bm_server.c` | connections, queue of matches, running jobs, pools with free lists | main loop, `handleConnection`, `startMatchJob`, `finishedJob` | client sockets, child processes |
| benchmark clients | a connection, the state of a script | log on, ask, start a bot, hang up | benchmark server |
| agent, `agent/src/agent.cpp` and the connectors | session, connector buffers | get, parse, build, send | dealer or Slumbot, engine |
| web controller, `agent/src/bulldog_controller.cpp` | map of sessions, each with an engine | one handler per request, on a pool of threads | SDK, engine |
| SDK, `bulldog_sdk.cpp` | session id, endpoint | one call per request | controller |
| engine, `engine/src/engine.cpp` | playbook stack, solved strategies, busy flag, cancel tokens, last match state | `GetAction`, `RefreshEngineState`, asynchronous solving | solver threads |
| CFR solver, `engine/src/cfr.cpp`, `cfr_worker*.cpp` | strategy tables, command list | `Solve`, `ThreadedCfrSolve`, `BuildCMDPipeline` | threads over one table |
| abstract game, `engine/src/action_abs.cpp` | raise configurations, betting tree | `GetCandidateActions`, `BuildBettingTree` | engine, solver; states of the rules engine |
| strategies, buckets, beliefs, evaluator | numerical tables | build, load, look up | engine, solver |

What is hard in each, and what makes it correct:

- **Rules engine**: sequential, but a wrong round end, minimum raise or side pot
  shows only after a long sequence of legal calls. A round closes exactly when
  every bet is answered; bets stay within stacks; an accepted action meets
  `doAction`'s assertions; replaying a printed or a shortened hand gives the
  same state; payoffs are those of table stakes.
- **Dealer**: crashes between two writes, late, repeated and nonsensical lines,
  time-outs. Recovery from the transaction file continues the same match; no
  player ever sees it go back; only the player's own answer to the state on the
  table is played; the match ends.
- **Benchmark server**: jobs, matches and connections end in any order while
  pool entries are reused. No match is run more often than asked or after its
  connection closed; limits hold; a runnable match is started at last.
- **Engine and controller**: requests, solver threads, refreshes and deletions
  overlap. A strategy is not deleted while a thread works on it, a session's
  engine not while it answers; every request is answered, whatever failed before it.
- **Solver**: threads share tables and one cancel token. Every iteration and
  board is given out once, every command runs at its iteration, and a search
  ends whenever its token is set.
- **Abstract game**: raise sizes come from ratios and go to `doAction` without
  `isValidAction`. Each must be one the rules allow, and making room for what the
  opponent really did must leave the call in the tree.

The list with source lines is under `hazards` in `PROJECT.json`.

## Modules

    Game -- Betting -- ActionAbs -- MCBetting
      |        |
      |        Showdown -- MCShowdown
      Payoff --/
         \---- Match -- Dealer -- MCDealer
    MatchQueue -- BmServer -- MCBmServer
    Engine -- Sessions -- MCSessions
    Pipeline, Flops -- Solver -- MCSolver

Each module with proofs extends the module it is about:

    SumProofs -- GameProofs -- BettingProofs
        |             .    \-- DealerProofs
        |\-- FoldProofs . . . . . . .
        |             .
        |\----------- SolverProofs
         \--- BmServerProofs
    SessionsProofs

(dotted: `FoldProofs` is instantiated, with the step of a loop. `GameProofs` is about
`Game` and `Payoff`, `BettingProofs` about `Betting`, `ActionAbs` and `Showdown`.)

`Match` and `MatchQueue` are abstract specifications; `Dealer` and `BmServer`
implement them (`ImplementsMatch`, `ImplementsQueue`).

**Game** is `game.c` as operators on a record `State` with the fields of the C
struct. `actingPlayer` is a field of the log entries, `numActions` the length of
a round's log. Player and round numbers are zero-based as in C. `Wrap` is
int32_t arithmetic where the code doubles amounts. `doAction` is `DoAction`, in
two halves named for what they do: `RecordAction` (the switch) and `Settle` (has
the round or the hand ended). `isValidAction`'s return value and the action it
leaves behind are two operators, `IsValidAction` and `FixedAction`.

**Betting** turns `Game` into a state machine: `Fold`, `Call` and `Raise` offer an
action, with any requested size, to `isValidAction` with fixing on and apply it;
`NewHand` deals the next hand, with any of the stack vectors when the table
decides stacks (`use_state_stack`).

**ActionAbs** asks of every state of `Betting` what the abstract game would do
there: `GetCandidateActions` with its modes (ratios of the pot, of the pot after a
call, of the last raise), the cut-off of raises that are nearly all-in, and the
children of a node when the action of the real hand is forced into the tree. The
code recurses; here the states the recursion visits are the states of `Betting`.
Sets stand for the sorted lists, ratios are pairs of naturals. The ratios of the
run are such that the doubles of the code are exact; for others the truncation may
give a chip less.

**Payoff** is `valueOfState`, cards abstracted to one rank per player, -1 for hole cards
that are not known (`Engine::EvalShowdown` asks before the opponent has shown). Values are
in 1/`Scale` chips, `Scale` divisible by every possible number of winners, so
that the doubles of the code are exact. **Showdown** scores every final state of
`Betting` under every assignment of ranks.

**Match** is the abstract specification of a match: one variable, one action, a
player makes a valid move and a finished hand is added up and followed by the
next. **Dealer** is the process that plays it: `phase` is the place in `gameLoop`,
one action per send, response outcome, write and update; `Stop` is every
way out of the process, `Crash` its sudden end, `Start` a new process on the old
files (options `-a`, `-L`, `-T`). `tlog` holds the transaction file, `log` the log
file; `recovered` is a history variable, what `tlog` recreates, that saves
TLC from replaying the file in every invariant. `inbox`, `half` and `seen` are the
players: a player answers the last state it was sent once, and may in addition
send comments, nonsense and answers to older states. A line may come in two pieces
around the end of `getLine`'s time (`half`); `getLine` then waits for the rest without
limit, as `timeLeft` has wrapped. `gettimeofday` may go back (`ClockBack`), and such a
response is not charged.

The stamps of the transaction file are read with `%6u`, which stores 4 of the 8 bytes of a
`tv_usec` in variables nobody has initialised (`dealer.c:396-424`). With equal upper
halves, as when they happen to be zero, the stamps are read right; otherwise the lines of
a log seem to have taken an hour or more longer, and the dealer refuses to start
(`RefuseLog`), or to have ended before they began, and cost nothing (`Uncharged`). The
variables are those of one call, so one process reads all its lines alike. `recovered`
has the old stamps as the last process read them.

**MatchQueue** says what the benchmark server promises of a request for matches:
how often it is run, with what else, and what the end of a connection does to it.
**BmServer** is `bm_server.c`: `phase` is the place in `main`'s loop (reap finished
jobs and closed connections; start matches; wait in `select`; serve the ready
connections). Entries of the `LLPool`s are slots that are used again as soon as they
are free, so a pointer that is kept too long points to another entry. `getLine`
is modelled with its buffer: a line is two symbols on the wire, text and newline,
and may come apart; `GotPiece` has the two outcomes of the unsigned `timeLeft`. A
job ends when its processes have (`ChildExits`); a client hangs up whenever it
likes, also between being asked for and being told. Times are ranks: `waitOrder`
and `queueOrder` list users and matches by their times, no two of them equal.

**Engine** is what an `Engine` object keeps from one request to the next, as
operators on a record: `busy_flag_`, `last_matchstate_` and the playbooks, each
with the hand it belongs to. A search may or may not add the strategy of a
subgame, and end in an action or an exception. Positions in a hand are numbers; that two
states are of one hand, which `InSameMatch` decides by comparing cards and viewer too,
is data. **Sessions** is the controller: one
handler per request on a thread of its own (`call[c].at` is its place), the map
of sessions, the sweep over idle sessions, the mutex, and clients that call
through the SDK. Handlers are cut into steps where they take long. `new Engine` runs
between `mutex_.lock()` and `mutex_.unlock()` and reads its configuration again; when it
throws (`InsertFails`) nobody unlocks, and the mutex is `Gone`. The other way out there,
`SetTableContext` failing (`bulldog_controller.cpp:255-258`), is dead: it compares
`default_normalized_game_` with itself. `deleted` are
the sessions whose engine is gone or going; a step on one of them is undefined
behaviour, and `Break` stops the model there.

**Pipeline** (`BuildCMDPipeline`) and **Flops** (`AllocateFlops`) are algorithms as
operators; a field a configuration leaves out is `Absent`. **Solver** executes what they yield: `Solve` takes commands one by one,
`Launch` splits the iterations of a command over threads, `Iterate` is one turn of
a thread's loop, and the engine polls, cancels and collects (`Poll`, `Get`).

## Runs

| run | question | instance and bounds |
|---|---|---|
| `betting_nolimit` | are bets, turns, round ends and replays right in no-limit, and does the abstract tree stay within the rules? | 3 players, 2 rounds, blinds 1 2 0, four stack vectors (three players all-in at different depths, one all-in with its blind, equal stacks), 8 requested sizes, valid, too small and too large; at most 8 actions a round and 3 raises; two configurations with all modes and the "all-in" ratio |
| `betting_limit` | do rounds close rightly in limit betting? | 3 players, 2 rounds, antes of 1, raises of 2 and 4, stacks 90 (never all-in) and 8 (the raises reach the stack) |
| `limit_short_raise` | is `maxSpent` the largest bet with a short stack? It is not. | as above, stacks 90 90 2 |
| `showdown` | are side pots right, and does everybody at a showdown have a stake? | 4 players, blinds 1 2 0 0 (two seats with nothing in the pot at first), stacks 5 2 3 5, 1 3 2 4 (three nested pots) and 4 9 6 9 (raises that leave chips behind), 3 ranks for ties and orders among the best hands, and mucked hands |
| `dealer` | does a match survive a crash anywhere, and end? | 2 hands of a one-bet game for 2 players with rotating seats, 2 processes, 1 stray line, 1 invalid action allowed, limits of 1 or 2 ticks so that each limit is reached; half lines and stray lines while the log has fewer than 2 lines, the clock going back while it has none (`MaxOddLines`, `MaxSetbacks`), not both in one match; misread stamps at every restart |
| `dealer_bad_actions` | is a seat over its limit of bad actions stopped? It is not. | as `dealer` |
| `dealer_log_file` | is the log file complete after a restart? It is not. | as `dealer` |
| `bm_server` | do jobs, matches and connections agree whatever ends first, are the limits kept, does every match that waits start? | 2 clients, 3 requests of 2 games (one with LOCAL seats on both sides, one of bots only, one run twice), 1 job of the first game and 2 bots at a time, 2 connection and 3 match entries |
| `bm_server_half_line` | does `getLine` with a time-out of zero return at once? It does not. | as `bm_server` |
| `sessions` | are playbooks of the hand that is asked about, is the capacity kept, is every request answered? | 2 clients, 3 session ids, capacity 1, two hands with a state each; every handler overlapping every other, any search and any new engine throwing |
| `sessions_idle` | is the engine of a session that is being served kept? It is not. | as `sessions` |
| `solver` | does every command run on time, every iteration once, every flop on one thread of a cluster, and does a search end? | 6 schedules and all bucket sizes up to 4 in 4 buckets, pools of 1 to 6 threads (above 4 in clusters of 2, so that 5 are refused), a time span below zero, zero and two |

Bounds. In `betting_*` only the length of a round's log and the raises are
bounded, as in the code (`MaxNumActions`, 32 there); 8 is so low that raising
really is stopped by it. Two hands show everything a hand boundary does (rotation,
clocks, deal, totals); one crash shows every state from which a recovery starts,
since the recovered process is again in a state of the model. In `bm_server` the
scripts of the clients are finite; there are as many match entries as matches, so
that reuse of an entry is by choice of `NewEntry` and never for want of one. In
`sessions` an id is given out once, and `CallCreate` stops when none is left:
three ids let one client create a session again while the other's goes. A hand has one
state, since the stale check only asks whether a state is a later one of the hand, and
the property only which hand it is of; each state may be asked about again. Of the
configurations of `solver` one has an average that comes too late, for the schedule of
negative length, one profiles without ever averaging, and one has six threads, for
clusters. In `dealer` the odd lines come at the first two actions of the match and the
clock goes back at the first only; the safety properties are proved for any value of both
bounds. Deadlock
checking is off for the dealer, whose process ends; `BmServer` waits in `select`
for ever, `Sessions` and `Solver` end in a step named `Rest`.

The five runs that expect a violation are disagreements between the code and
its own text, described under `findings`:

1. A limit raise by a player who cannot even call is cut off at its stack and
   lowers `maxSpent`.
2. A response without an action, or with a no-limit raise without a size, counts as a
   bad action but the limit is not enforced on that path. A letter that is no action
   takes the other path, which enforces it.
3. A crash between a hand's last transaction and its log line loses the line;
   recovery adds the values to the totals and does not log the hand.
4. `getLine`'s time left is unsigned: when half a line has come and the time is
   up, it waits on. The benchmark server, one loop for all, waits for that client.
5. The sweep for idle sessions looks at the time of the last access, which
   `GET_ACTION` does not set: it deletes the engine of a session that is searching.

### Fairness

`HandEnds` (`FairSpec`) assumes that a player who can act at last does: the dealer
asks one player at a time and turns silence into the end of the match.
`DealerEnds` assumes that the dealer process runs when it can, that time
passes while it waits, and of the players that a line they have begun is ended, or
they hang up: by finding 4 a player can hold the dealer for ever with half a line.
Nothing else is assumed of them (they may be silent), and a restart is
never owed. The three conditions are weak fairness of `DealerStep`, `Tick` and
`FinishLine`, written with their guards (`CanStep`, `CanTick`, `half # << >>`) in place of
`ENABLED`. `DealerEnds` also holds with a bounded number of stray lines only. That is the code's
behaviour: comments are skipped before the clock is looked at and each line
restarts `getLine`'s timer, so a player that comments for ever is waited for for
ever (`dealer.c:306`).

`MatchesStart` assumes that the server has the processor, that the processes of a
job end (a dealer has time limits, a bot ends with its dealer) and, because of
finding 4, that a client which has begun a line finishes it or hangs up. It also
rests on the instance: each match fits under `maxRunningBots` by itself. One that
does not passes `parseMatchSpec`, is never started and keeps all others waiting.

`SearchEnds` assumes that every thread of the solver runs. Nothing is assumed of
time, since a search may be done before its time is up, and with a time left of
zero or less the engine's count never meets it and the search runs to its end.
`RequestsAreAnswered` assumes that the threads of the controller run, that searches
end (`SearchEnds`), and that a mutex which is free is at last given to one who
waits for it. The conditions are weak, so that the mutex is owed to a waiter only while it
stays free; that nobody starves by others taking it again and again is not shown, since
the ids of the run allow only so many creations and deletions. The requests that wait
for a mutex an exception has lost are excepted: nothing in the code would answer them.

### What the properties leave to the code

- After a restart the count of invalid actions starts from zero and the time of
  ignored lines is given back; `RestartKeepsTheClocks` says exactly that.
- `StepBackUndoes` leaves out stepping back over a hand's only action: there
  `StepBackAction` returns before it copies hand number and stacks
  (`game.c:1169-1191`).
- `PotIsPaidOut` counts the chips nobody can win: a player who folds without
  facing a bet (accepted as `PREMATURE_FOLD`) may have put in more than any
  survivor.
- `ShortAllInDoesNotReopen` states a comment of the code that the code does not
  follow; no run checks it yet.
- `CapacityNearlyHolds` allows a session more for each handler that was admitted
  beside another: the capacity is tested before the mutex is taken.
- `RequestsAreAnswered` says that a request is answered, not that it is granted: after an
  exception in `GetAction` the session is busy, and refuses every search, until its next
  hand. The loops over the playbooks count an unsigned number down to `>= 0` and
  so end in `at()` throwing. After an exception in `new Engine` no session can be created
  or deleted until the server is restarted.
- `CanAlwaysRestart` and `RestartKeepsTheClocks` speak of stamps as the last process read
  them. A process that reads them differently may refuse the log or charge nothing for it.
- `DealerEnds` counts a dealer that refuses the log as one that is not running.
- `PotIsPaidOut` also counts the chips only players who do not show have put in.
  `valueOfState` gives them to nobody; `gameLoop` deals all cards, so there are none.
- `CallIsAChild` needs raises of at least `Similar` chips (100 in the code). A
  forced raise deletes candidates closer than that, and fold and call have size
  0: with a big blind below 100 (`holdem.nolimit.2p.10_20.game`) they go too.
- `HasRaiseBase`: in the mode of the last raise `GetRaiseBase` exits the program
  when two players have limped; the engine plays heads-up, where one can.
- A solver that is cancelled before its first iteration returns the code of an
  unfinished checkpoint (10), and a command of fewer iterations than threads runs
  on the flops of the first thread. `Solver` has both; no property objects.

## Proofs

    for m in SumProofs FoldProofs GameProofs BettingProofs DealerProofs \
             SessionsProofs BmServerProofs SolverProofs; do tlapm $m.tla; done

The assumptions on the constants are those named in the modules
(`GameAssumption`, `BettingAssumption`, `ActionAbsAssumption`, `ScaleAssumption`, `RanksAssumption`,
`MatchAssumption`, `DealerAssumption`, `EngineAssumption`, `SessionsAssumption`,
`ServerAssumption`, `ScriptAssumption`, `PoolAssumption`, `AbsentAssumption`, `SolverAssumption`); the runs
evaluate all of them. `SolverAssumption` is what a configuration file has to keep to and
the code does not check: counts are not negative, no trigger is negative but an average
of -1 (the code would take a `first_iter` below 0 and schedule a command before the
first iteration, `cfr.cpp:645-648`; no configuration of the repository has one), an
interval is not 0 (the loop of `BuildCMDPipeline` would not end). Hypotheses that the code does not
check are named in the theorems that need them:

- `PlayableStacks`: somebody has chips behind its blind; without it the first
  `currentPlayer` of a hand does not return.
- `BetsFit`: in no-limit, twice any stack is an int32_t; in limit betting all stacks
  are equal, which `limit_short_raise` shows to be needed.
- `PositiveStakes`: there is a big blind and no stack is empty.
- `BlindOfTheFirstTwo > 0`: `BigBlind()` looks at the first two players only
  (`game.c:2306-2312`), and the base of a raise is no less than what it finds.
- `NoLimit`: the betting is no-limit, as it is wherever abstract games are built with
  sizes of raises.
- `Similar <= BigBlind`: see above, under what the runs showed; it is no assumption of
  the module, since the repository has games that break it.
- `GameIsPlayable`: `PlayableStacks`, and the dealer has a stack vector to deal with.

`GameAssumption` is what `readGame` has checked. `betting_nolimit`, `betting_limit`,
`showdown` and `dealer` are instances, so the hypotheses are not empty.

### Betting

For every number of players and rounds, all blinds, stacks, raise limits and
requested sizes (`GameProofs`, lemmas about `doAction`; `BettingProofs`):

| theorem | says | needs |
|---|---|---|
| `TypesHold` | the state keeps its types | `PlayableStacks` |
| `TurnsAreDefined` | `nextPlayer`'s loop ends in every unfinished hand | `PlayableStacks` |
| `StacksCoverBets` | nobody bets beyond its stack | `PlayableStacks` |
| `MaxSpentHolds` | `maxSpent` is the largest bet | `PlayableStacks`, `BetsFit` |
| `AssertsHold` | accepted actions meet `doAction`'s assertions | `PlayableStacks`, `BetsFit` |
| `ReadBackHolds` | reading back the printed betting gives the same state | `PlayableStacks` |
| `StepBackHolds` | stepping back undoes an action | `PlayableStacks` |
| `ClosedBetsAreSettled` | a round is closed only when all who can act have matched the bet and answered it | `PlayableStacks` |
| `AnswersHaveRoom` | a round that goes on has room for one more action | `PlayableStacks` |
| `PastRoundsStaySquare` | players who can act have put the same into each earlier round | `PlayableStacks`, `BetsFit` |
| `RaisesStepUpHolds` | a raise goes at least as far beyond an earlier one of its round as that went beyond the bet it raised | `PlayableStacks`, `BetsFit` |
| `CallStays` | no configuration and no action of the real hand takes the call out of an abstract node | `PlayableStacks`, `BetsFit`, `NoLimit`, `Similar <= BigBlind` |
| `ChildrenAreValid` | what an abstract node holds is valid in the real hand without fixing, and its raise bases are positive | `PlayableStacks`, `BetsFit`, `NoLimit`, `BlindOfTheFirstTwo > 0` |

The argument has two inductive invariants. `ChipsInv` joins types, stacks taken
from `Stacks`, covered bets and a player to act: a turn is defined only when
somebody can act, an action keeps its types only when the turn is defined, and
after it `Settle` finishes the hand, or goes on with fewer callers than
players to act, or opens a round with two players to act; in each case there is
one again. `BetInv` joins the meaning of `maxSpent`, `maxSpent >= 0` and, in
no-limit, `minNoLimitRaiseTo > maxSpent`. The last part is what makes
`MaxSpentIsLargest` inductive: an accepted raise is at least the minimum or
all-in above the bet, so it exceeds the bet, and `2 * size - maxSpent`, which
does not wrap, exceeds the new one. In limit betting somebody with the same
stack as the raiser has matched `maxSpent`, so the cut-off raise is no lower.

The log. `Retold` says of a hand that its log, read from the dealt state by a client
that checks every action, gives the hand. It is inductive because an action that
`isValidAction` has fixed is accepted unchanged (`FixedActionIsPlayable`), so the
entry that is logged replays as the action that was taken. Stepping back replays the
same log but for its last entry. `readBetting` is a fold, and the log a concatenation
by rounds; `FoldProofs` says what both are for a log with an action more.

The rounds. `doAction` compares two counts, `numCalled` (entries since the last raise by
players not all-in) and `numActingPlayers`. They mean what the theorem says only if
no player is counted twice, which rests on the order of play. `OnePass` puts it as
an invariant: since the last raise each player has acted at most once (`Distinct`),
those who folded have stayed so, those who called have matched the bet, and the
callers are the last players before the one who acted last (`InOrder`). Were it
the turn of a player who has called, going once round from it shows that everybody
who can act has, so the round would be closed. Hence the counts are equal exactly
when all have called (`CallersAreCounted`), and from the last raise to the next
action there are at most `NumPlayers - 1` entries. `raiseIsValid` accepts a raise
only if so many fit behind it (`Room`). `BlindInv`, `maxSpent` no less than the
big blind, gives the lower bound in `PastRoundsStaySquare`.

The raises. `StepsUp` says that `maxSpent` is at least every bet of the log and that
`minNoLimitRaiseTo` is at least every full step beyond a raise of the current round
(`Full`): it only grows within a round, and each raise contributes its own step to the
maximum. A later raise is no less than the minimum, or all-in.

The abstract game, for any list of configurations (ratios, modes, ranges, cut-offs).
`CallStays` is a matter of sizes: a raise of the real hand goes beyond `maxSpent`, which is
at least the big blind, so it is no nearer than `Similar` to the size 0 of a call.
For `ChildrenAreValid` every size is clamped between the bounds
`raiseIsValid` gave, or is its maximum. That the base of the last raise is positive
needs `Bases`, an invariant of its own: the last raiser of the round has put in
`maxSpent`, the code's `sum_round_spent` records it, and nobody had put in as much before
the round.

### Payoff

For every number of players, all stacks, blinds and ranks (`BettingProofs`):

| theorem | says | needs |
|---|---|---|
| `ShowdownIsBetting` | hands that are scored are hands of `Betting` | |
| `ContestantsHold` | who is left at a showdown has chips in the pot, so that `valueOfState` finds the player it scores | `PlayableStacks`, `BetsFit`, `PositiveStakes` |
| `TableStakesHold` | the side pots give each chip to the best hands shown among those who put in as many | `PlayableStacks`, `BetsFit` |
| `RiskBoundsGains` | nobody loses more than its stake or wins more from another than it risked | `PlayableStacks`, `BetsFit` |
| `PotIsPaid` | the values add up to zero, but for chips nobody can win | `PlayableStacks`, `BetsFit` |

The loop of `valueOfState` takes the smallest stake left off everybody who has one.
One turn of it is as many chips as that stake, each shared by the same players
(`PotPaysChips`), so by induction on the players with chips left the loop adds up one
`ChipShare` for every chip of a player's stake (`LoopPaysChips`); the recursive function
of the model exists and is unique, which the induction shows with it. A folded and a
mucked hand are alike to it: neither is among the `Shown`, and a pot nobody shows for has
no winner (`PotPaysShown`, `HiddenLose`). The division is
exact since `Scale` is a multiple of every number of winners. For the totals, the sum
over players of sums over chips is exchanged (`TotalSwap`): the shares of one chip add
up to nothing when somebody who shows has paid it, and to minus its payers when nobody has.
`PayoffInv` is the invariant of `Betting` that the premises come from: stakes are not
negative, a finished hand has a player left, those left at a showdown have matched the
bet or are all-in (`SettledInv`), and either somebody left has matched the largest bet
or there is a premature fold in the log (`ReachInv`).

### Dealer

For every game, number of hands, limit, stray line and crash (`DealerProofs`, all
under `GameIsPlayable`, the last under `BetsFit` too):

| theorem | says |
|---|---|
| `LogRecreatesTheMatch` | replaying the transaction file gives the running match, or what it is about to be |
| `LogIsAccepted` | a new dealer that reads the stamps as the last one did accepts every line of the file |
| `RestartsAreInvisible` | the match in the file is one uninterrupted match: `Dealer` implements `Match` |
| `NothingIsTakenBack` | what a seat is shown never goes back |
| `ChoiceHolds` | the action played is the one the player chose for the state on the table |
| `ClocksSurvive` | a restart gives back only the time of ignored lines and of stamps read as nothing |
| `LogIsTheTotals` | the log file has each hand once, in order, and adds up to the totals of an uninterrupted match |

The heart is that the line is written before the action is taken: between the two the
file is one action ahead (`AheadMatch`). `DealerInv` has four parts. `TypesInv`, with the
line that has come in half;
`MatchInv`, what the place in `gameLoop` says of the hand, with `Playable`, the
pending action accepted as it stands; `RecoveryInv`, the recovered match is
`AheadMatch` and its clocks are within the limits, and so it is however the stamps are
read, as long as the lines are accepted (`ReadsAlike`, over all logs that are `Alike`
but for their stamps); `ClockInv`, the running clocks are at
least the recovered ones and the time of the action about to be logged. A line more
in the file is one `RecoverOne` more (`FoldProofs`), which by `MatchInv` and `ClockInv`
passes all checks. For the refinement every step leaves `recovered.match` alone but
`LogTransaction`, which makes one move of `Match` on it. `PlayersInv` follows the
sockets: a seat has been shown nothing later than the match (`SeenInv`), a line in an
inbox answers a state the seat was shown (`MailInv`), and the accepted action is the
answer to the state on the table. Since no two states of a match have the same view, a
late or repeated answer matches no later state. `BooksInv` follows the log file: its
lines are of hands below the one the transaction log has come to, also while a new
dealer is catching up, so none is written twice; and as long as the first dealer runs the
totals are the sums, each line counted for the seat its player had then. That the
values are whole numbers is a lemma about the loop of `valueOfState`, whose premises
(`Counted`) are kept by every action.

### Sessions

For any clients, session ids, states and capacity:

| theorem | says |
|---|---|
| `SessionTypesHold` | map, engines and calls keep their types |
| `CapacityHolds` | with n clients the map never holds `max_capacity_` + n sessions |
| `PlaybooksAreKeptToTheHand` | an action is looked for in playbooks of the hand that is asked about |

`TypeInv` adds to the types what a call knows of its session at each place of its
handler. For the capacity, a count of the map alone is not inductive: `CapacityInv`
counts the handlers that have passed the test and not yet inserted (`Passed`) with
the sessions. For the playbooks, `OwnInv` says that an id belongs to one client
and is given out once (creators hold the mutex, one at a time: `MutexInv`), hence a session
serves one request at a time; `EngineInv` that the playbooks of an engine are of
`last_matchstate_`'s hand, and that while a client's search runs this is the
state it asked about. The stale check is what keeps it when a request comes for
another hand. That requests of one session do not overlap is an assumption about
clients, see below.

### Benchmark server

For any clients, scripts, games, limits and sizes of the pools:

| theorem | says |
|---|---|
| `JobsAlwaysAgree` | a running match has one job, a job its match, and `curRunningJobs` counts the jobs |
| `GamesKeepTheirLimits` | no game has more jobs than it may |
| `LimitsAlwaysHold` | that, and all jobs together have no more bots than `maxRunningBots` |
| `ReadyMatchesAreServed` | a match that may start and has a LOCAL player points to an open connection of its user |
| `QueueIsImplemented` | `BmServer` implements `MatchQueue`: a request is run as often as asked and no more, never twice at a time, within the limit of its game, and not once the connection it is played over is closed |

`Steps` sorts the steps by what they do to the pools, and each invariant goes
through that list. `JobsAgreeWithMatches` is inductive with the types: an entry is
given away only when it does not run. The limit of a game is proved of the counter,
which `StartBest` tests, and carried over to the jobs by `JobsAlwaysAgree`. The bots are
counted by a sum over the jobs (`BotLimit`): `StartBest` tests it for the sum before,
and since a match has one job, its job is a new summand; every other step keeps the
matches of the jobs that stay. For the connections, `ReadyAreServed` is kept since
closing a connection sets `numRuns` of its matches to zero before the entry is free, a
freed entry is given only to a match or client that overwrites it, and nothing raises
`numRuns` again.

For the refinement a request is seen through the entries: `left` is the `numRuns` of its
match, if it has one, and the question of the proof is whether it can have two. A
request is one line of a script (`ScriptAssumption`: the same text sent again is another
request), but lines come in pieces through the wire and the buffer of `getLine`.
`LinesInOrder` follows them: what is on a client's way to the server (`OnTheWay`: half a
line in the buffer, the wire, the script not yet sent) is in the order of the script, and
what has been taken lies behind it; so a line that is read is none that has been taken
(`ReadsAreNew`). With that, `OneEntryEach` is inductive: at most one entry per request,
also while entries are freed and used again. `ReadyAreOpen` and `EntriesAgree` tie the
entries to the connections and to the requests they came from. `QueueInv` joins these
with the invariants above; under it each step is one action of `MatchQueue` or a
stutter (`StartsAreStarts`, `FinishesAreFinishes`, `ClosesAreWithdrawals`,
`SubmitsAreSubmissions`, `OthersAreNone`), `StartBest`'s test of the counter of a game
being the queue's test of the number of its jobs by `JobsAgreeWithMatches`.

### Solver

For any configuration, schedule, accepted number and speed of threads, time span and
sizes of buckets:

| theorem | says |
|---|---|
| `PipelineFollows` | the commands of a configuration follow one another from iteration 0 to the last: "command pipeline error" is never logged |
| `CommandsAreOnTime` | a command is executed when as many iterations have been run as its trigger says |
| `NothingThrows` | a negative number of iterations is never dealt to threads |
| `AllIterationsRun` | without a cancellation every iteration is run, and run once |
| `FlopsAreDealtFairly` | each bucket goes to one thread of each cluster, none of which gets more than its part and one bucket |

The pipeline. What the configuration asks for is sorted by trigger and rank, and ranks
tell types apart (`RanksDiffer`); the place of a command is the number of commands before
it, which is an injection of a finite set into itself and so reaches every place
(`SortedIsInOrder`). Between two commands `WithSolves` puts a solve that is as long as the
gap. `Follows` says of a sequence that it leads from one iteration to another without a gap,
and is kept when sequences are joined (`FollowsJoin`, `PiecesFollow`). A schedule that asks for
something after the last iteration ends in a solve of negative length; `Follows` has that
only where the search has converged.

The search. In `SearchInv` the commands not yet executed follow from `iteration` to the last
one, and what is done, with what the threads still have before them, is `iteration` and the steps
of the command (`AtIterations`): the shares of the threads add up to the steps, the last
thread taking the remainder (`SharesAddUp`). A cancellation between two iterations leaves a
command unfinished; the invariant then asks nothing of the counts, and no other command
is executed. `NothingThrows` follows since a negative solve is never launched: the search
has converged before it.

The flops. `DealtOut` is the invariant of the loop of `AllocateFlops`: the buckets dealt so far
are with one thread each, the tallies count them, and no tally is above the cap by
more than the largest bucket. A bucket that fits nowhere goes to the thread with the
fewest flops, which has at most an equal part of those dealt, and that is no more than the
cap (`FirstFitIsAThread`, `BucketIsDealt`). Threads of a pool in clusters get the hand of
their place in the cluster (`ThreadsOfACluster`); the pool is one `AllocateFlops` accepts, so
no thread is beyond the last whole cluster.

### The library's recursion

The community modules write sums, folds and flattening as recursive functions, and the
library's induction theorems take an operator as a parameter, which the installed
provers cannot instantiate. `SumProofs` and `FoldProofs` go another way: `LeastNatural`
derives the least-number principle from the well-foundedness of strict inclusion on
finite sets, and induction is by a least counterexample in a set. That gives the
existence of the recursive functions and from there what one element more does
(`TotalRemove`, `TotalAdd`, `FoldAppend`, `ScanAppend`) and the laws of sums
(`TotalSplit`, `TotalSwap`, `TotalCounts`). The step of a fold is a constant operator
of `FoldProofs`, instantiated for `readBetting`, `processTransactionFile`, `AllocateFlops` and
the concatenation of the solver's commands.

### Model-checked only

Every invariant and action property of the passing runs has a theorem, and so have both
refinements. Liveness (`HandEnds`, `DealerEnds`, `MatchesStart`, `RequestsAreAnswered`,
`SearchEnds`) and `ENABLED` are
out of the prover's reach and stay with TLC.

## Not modelled

- Cards and dealing: no betting decision looks at them, a deal is a value of the
  constant `Deal`.
- Formatting, logging, command lines, the wording of requests and replies; the
  limit on the length of a line.
- The transaction line of the dealer is written in one piece; a partial line is a
  hazard in the list. A line of a player comes in at most two pieces.
- Benchmark server: random seeds and tags (`bm_server.c:776-789` leaves
  `useRngForSeed` uninitialised when the seed is 0), the log-on of
  `bm_run_matches`, two equal times.
- Sessions: two requests of one session at once, which a client makes when it
  gives up after the 30 s of its HTTP time-out; a look-up in the map while
  another thread inserts or erases is one step here, and is a data race in the
  code.
- Engine: the choice of nodes and actions, triggers of subgames, the daemon thread.
  `TranslateToNormState` (`engine.cpp:580`) scales stacks and raises between the
  table's blinds and the engine's; with blinds that are no multiple of one
  another it truncates, and an all-in raise may become none. It is planned.
- Solver: regret updates (unlocked by design), loading of checkpoints (the start is
  checkpoint 0), the limits by time and exploitability, the numbers of CFR.
- Abstract game: chance nodes and kernels; the tree's storage.
- Hand clustering, beliefs, terminal evaluation, evaluators and their tables:
  numerical code over large vectors, without states a model checker would reach.
- Trainers, connectors to Slumbot and ACPC servers, the agent's loop, start-up
  scripts, notebooks, vendored libraries.

## Plan

1. `Game`, `Betting`, `Payoff`, `Showdown`, `Match`, `Dealer` and the proofs about
   them: done.
2. `MatchQueue`, `BmServer`, `BmServerProofs`: done.
3. `Engine`, `Sessions`, `SessionsProofs`: done, but for overlapping requests of one
   session and the daemon thread.
4. `Pipeline`, `Flops`, `Solver`, `SolverProofs`: done, but for checkpoints and limits.
5. `ActionAbs`: the nodes are done; kernels and chance nodes are left.
6. `Protocol`: match state lines, the blind scaling of `TranslateToNormState`, the
   agent's loop and the connectors. Left.
7. Proofs: every invariant a run checks is proved, and both refinements are. What the
   parts left in 3 to 6 add would come with proofs of its own.
