------------------------------- MODULE Solver -------------------------------
(***************************************************************************)
(* A search: the engine starts a CFR solver and gives it a limited time    *)
(* (engine.cpp, AsynStartCFRSolving), the solver executes its commands one *)
(* by one (cfr.cpp, Solve), and a command that runs iterations deals them  *)
(* to threads (ThreadedCfrSolve, CfrSolve).  One token cancels them all.   *)
(*                                                                         *)
(* An iteration, with the test of the token before it, is one step.  What  *)
(* is solved is left out.                                                  *)
(***************************************************************************)
EXTENDS Pipeline, Flops

CONSTANTS
    Configs,            \* configurations, with the threads and, for the whole
                        \* game, the sizes of the public buckets
    Spans               \* what the time left may be in tenths of a second, rounded

(* Numbers of a configuration count something.  Only the average may be -1  *)
(* for "never"; that no other trigger is negative is an assumption about    *)
(* the files, not something the code tests.                                 *)
MaybeSome(S) == S \cup {Absent}

Configuration ==
    [threads : Nat \ {0}, maxIter : Nat, sizes : Seq(Nat), depthLimited : BOOLEAN,
     discFirst : Nat, discInterval : MaybeSome(Nat \ {0}), discCount : Nat, avgOn : MaybeSome(Nat \cup {-1}),
     profInterval : MaybeSome(Nat \ {0}), profSteps : Nat, profAverage : BOOLEAN,
     saveInterval : MaybeSome(Nat \ {0}), saveFinal : BOOLEAN, printRoot : BOOLEAN,
     pruneAt : MaybeSome(Nat)]

SolverAssumption == Configs \subseteq Configuration /\ Spans \subseteq Int
ASSUME SolverAssumption

VARIABLES
    config, span,       \* of this search
    boards,             \* thread_board
    commands,           \* local_commands
    pc,                 \* where Solve is
    iteration,          \* current_state.iteration
    left,               \* remaining_iter of each thread that runs
    avg, pruning,       \* rm_avg_update and pruning_on of local_cfr_param
    cancelled,          \* the token
    polls,              \* count: how often the engine found the solver busy
    code,               \* return code of Solve, 0 before
    answer,             \* what the engine got from the future, 0 before
    done,               \* history: iterations run so far, without profiling
    ran                 \* history: commands executed, with done at that time

solverVars == <<boards, commands, pc, iteration, left, avg, pruning, code, done, ran>>
vars == <<config, span, solverVars, cancelled, polls, answer>>

ASYNC_CHECKPOINT == 10
ALL_COMMANDS     == 1
EARLY            == 2
THROWN           == -1      \* an exception instead of a code

(* The flops are dealt when a game is solved from its first round.  A pool  *)
(* that is not accepted ends the program here.                              *)
Init ==
    /\ config \in Configs /\ span \in Spans
    /\ commands = BuildCMDPipeline(config)
    /\ IF config.sizes = << >> THEN boards = << >>
       ELSE /\ AcceptsPool(config.threads)
            /\ \E order \in Descending(config.sizes) :
                 boards = AllocateFlops(config.sizes, order, config.threads)
    /\ left = << >>
    /\ pc = "commands"
    /\ iteration = 0
    /\ avg = FALSE /\ pruning = FALSE
    /\ cancelled = FALSE /\ polls = 0
    /\ code = 0 /\ answer = 0
    /\ done = 0 /\ ran = {}

(***************************************************************************)
(* Solve                                                                   *)
(***************************************************************************)
GoingUncancelled == pc = "commands" /\ commands # << >>      \* mutant: token not tested
Going == pc = "commands" /\ commands # << >> /\ ~cancelled

Current   == Head(commands)
Is(types) == Going /\ Current.type \in types
Record    == ran' = ran \cup {[cmd |-> Current, done |-> done]}

NeverConverged == FALSE                 \* mutant: convergence not tested
Converged == iteration >= config.maxIter

(* The last thread takes what is left over; few iterations are run by one.  *)
ShareRounded(steps, n, t) == steps \div n       \* mutant: no remainder
Share(steps, n, t) == IF t = n - 1 THEN steps - (steps \div n) * (n - 1) ELSE steps \div n

Effective(steps) == IF steps < config.threads THEN 1 ELSE config.threads

(* ThreadedCfrSolve.  A thread keeps a result per iteration, and a negative *)
(* number of them cannot be allocated.                                      *)
Launch(to, steps) ==
    IF steps < 0
    THEN pc' = "returned" /\ code' = THROWN /\ UNCHANGED left
    ELSE /\ left' = [t \in 0 .. Effective(steps) - 1 |-> Share(steps, Effective(steps), t)]
         /\ pc' = to
         /\ UNCHANGED code

CmdSolve ==
    /\ Is({"solve"})
    /\ IF Converged THEN pc' = "stop" /\ UNCHANGED <<left, code, ran>>
       ELSE Launch("solving", Current.steps) /\ Record
    /\ UNCHANGED <<config, span, boards, commands, iteration, avg, pruning, cancelled, polls,
                   answer, done>>

CmdProfile ==
    /\ Is({"profile"}) /\ ~config.depthLimited
    /\ Launch("profiling", Current.steps)
    /\ Record
    /\ UNCHANGED <<config, span, boards, commands, iteration, avg, pruning, cancelled, polls,
                   answer, done>>

(* Discounting, saving and printing change what is left out; a solver that  *)
(* is limited in depth does not profile.                                    *)
CmdOther ==
    /\ \/ Is({"discount", "save", "printRoot", "avgOn", "pruneOn"})
       \/ Is({"profile"}) /\ config.depthLimited
    /\ avg' = (avg \/ Current.type = "avgOn")
    /\ pruning' = (pruning \/ Current.type = "pruneOn")
    /\ Record
    /\ commands' = Tail(commands)
    /\ UNCHANGED <<config, span, boards, pc, iteration, left, cancelled, polls, code, answer, done>>

(* One turn of a thread's loop.                                             *)
IterateForFree(t) ==                    \* mutant: remaining_iter not counted down
    /\ pc \in {"solving", "profiling"} /\ t \in DOMAIN left
    /\ left[t] # 0 /\ ~cancelled
    /\ UNCHANGED vars

Iterate(t) ==
    /\ pc \in {"solving", "profiling"} /\ t \in DOMAIN left
    /\ left[t] # 0 /\ ~cancelled
    /\ left' = [left EXCEPT ![t] = @ - 1]
    /\ done' = IF pc = "solving" THEN done + 1 ELSE done
    /\ UNCHANGED <<config, span, boards, commands, pc, iteration, avg, pruning, cancelled,
                   polls, code, answer, ran>>

(* All threads have come to their end.                                      *)
Join ==
    /\ pc \in {"solving", "profiling"}
    /\ \A t \in DOMAIN left : left[t] = 0 \/ cancelled
    /\ iteration' = IF pc = "solving" /\ ~cancelled THEN iteration + Current.steps ELSE iteration
    /\ pc' = "commands"
    /\ commands' = Tail(commands)
    /\ left' = << >>
    /\ UNCHANGED <<config, span, boards, avg, pruning, cancelled, polls, code, answer, done, ran>>

Return ==
    /\ pc = "stop" \/ (pc = "commands" /\ ~Going)
    /\ pc' = "returned"
    /\ code' = IF cancelled THEN Max({iteration, ASYNC_CHECKPOINT})
               ELSE IF pc = "stop" THEN EARLY
               ELSE ALL_COMMANDS
    /\ UNCHANGED <<config, span, boards, commands, iteration, left, avg, pruning, cancelled,
                   polls, answer, done, ran>>

(***************************************************************************)
(* The engine                                                              *)
(***************************************************************************)
(* A tenth of a second passes.  Once count is above the span it is not      *)
(* looked at again.                                                         *)
Poll ==
    /\ answer = 0 /\ pc # "returned"
    /\ polls <= span \/ polls = 0
    /\ polls' = polls + 1
    /\ cancelled' = (cancelled \/ polls' = span)
    /\ UNCHANGED <<config, span, solverVars, answer>>

Get ==
    /\ answer = 0 /\ pc = "returned"
    /\ answer' = code
    /\ UNCHANGED <<config, span, solverVars, cancelled, polls>>

Rest == answer # 0 /\ UNCHANGED vars

Threads == UNION {0 .. c.threads - 1 : c \in Configs}

SolverStep == CmdSolve \/ CmdProfile \/ CmdOther \/ Join \/ Return

Next == SolverStep \/ Poll \/ Get \/ Rest \/ \E t \in Threads : Iterate(t)

Spec == Init /\ [][Next]_vars

(* Every thread runs.  Time need not pass before the search is done.        *)
FairSpec ==
    /\ Spec
    /\ WF_vars(SolverStep) /\ WF_vars(Get)
    /\ \A t \in Threads : WF_vars(Iterate(t))

(***************************************************************************)
(* Properties                                                              *)
(***************************************************************************)
(* Every command is executed when as many iterations have been run as its   *)
(* trigger says, whatever the configuration, the number of threads and the  *)
(* time of a cancellation: no average, saving or profile is early or late.  *)
CommandsRunOnTime == \A r \in ran : r.done = r.cmd.iter

(* No search runs a negative number of iterations, though a schedule may    *)
(* have such a command (an average switched on after the last iteration):   *)
(* the test of convergence comes first.                                     *)
NeverThrows == code # THROWN

(* A search that is not cancelled runs all its iterations, each of them on  *)
(* one thread.                                                              *)
RunsAllIterations ==
    /\ pc = "commands" /\ ~cancelled => done = iteration
    /\ code \in {ALL_COMMANDS, EARLY} => done >= config.maxIter

(* Every flop is solved by one thread of each cluster, and no thread gets   *)
(* more than its part and one bucket.                                       *)
FlopsAreDealt ==
    boards # << >> =>
        LET n == Cluster(config.threads)
            size(b) == config.sizes[b]
        IN
        /\ \A b \in DOMAIN config.sizes : \A k \in 0 .. (config.threads \div n) - 1 :
             Cardinality({t \in k * n .. k * n + n - 1 : b \in boards[t]}) = 1
        /\ \A t \in DOMAIN boards :
             MapThenSumSet(size, boards[t])
               <= Cap(config.sizes, config.threads) + Max({size(b) : b \in DOMAIN config.sizes})

(* The engine gets its answer, cancelled or not.                            *)
SearchEnds == <>(answer # 0)
=============================================================================
