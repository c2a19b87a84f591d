----------------------------- MODULE MatchQueue -----------------------------
(***************************************************************************)
(* What the benchmark server promises about the matches it is asked for:   *)
(* a request is run as often as was asked and no more, never twice at the  *)
(* same time, within the limit of its game, and not once the connection it *)
(* needs is closed.                                                        *)
(***************************************************************************)
EXTENDS Integers, FiniteSets

CONSTANTS
    Clients,        \* connections that may ask for matches
    Requests,       \* the RUNMATCHES commands they may send
    Owner(_),       \* the client that sends a request
    GameOf(_),      \* the game a request names
    RunsOf(_),      \* how often it is to be run
    IsLocal(_),     \* has it a seat played by its own client?
    JobLimit(_)     \* jobs of a game at a time, 0 for any number

VARIABLES
    left,           \* left[r]: runs still to be started, -1 before r is asked
    running,        \* the requests with a job
    gone            \* the clients whose connection is closed

queueVars == <<left, running, gone>>

QueueInit ==
    /\ left = [r \in Requests |-> -1]
    /\ running = {}
    /\ gone = {}

Busy(g) ==
    /\ JobLimit(g) # 0
    /\ Cardinality({r \in running : GameOf(r) = g}) >= JobLimit(g)

Submit(r) ==
    /\ left[r] = -1
    /\ Owner(r) \notin gone
    /\ left' = [left EXCEPT ![r] = RunsOf(r)]
    /\ UNCHANGED <<running, gone>>

Start(r) ==
    /\ left[r] > 0
    /\ r \notin running
    /\ ~Busy(GameOf(r))
    /\ IsLocal(r) => Owner(r) \notin gone
    /\ left' = [left EXCEPT ![r] = @ - 1]
    /\ running' = running \cup {r}
    /\ UNCHANGED gone

Finish(r) ==
    /\ r \in running
    /\ running' = running \ {r}
    /\ UNCHANGED <<left, gone>>

(* The end of a connection withdraws the requests that are played over it.  *)
Withdraw(c) ==
    /\ c \notin gone
    /\ gone' = gone \cup {c}
    /\ left' = [r \in Requests |->
                  IF Owner(r) = c /\ IsLocal(r) /\ left[r] > 0 THEN 0 ELSE left[r]]
    /\ UNCHANGED running

QueueNext ==
    \/ \E r \in Requests : Submit(r) \/ Start(r) \/ Finish(r)
    \/ \E c \in Clients : Withdraw(c)

QueueSpec == QueueInit /\ [][QueueNext]_queueVars
=============================================================================
