------------------------------ MODULE BmServer ------------------------------
(***************************************************************************)
(* bm_server.c: clients log on and ask for matches, the server starts a    *)
(* dealer and the bots of each match and tells the clients that play in it *)
(* where to connect.  The server is one loop; clients and child processes  *)
(* take their steps between any two of its steps.                          *)
(*                                                                         *)
(* An entry of an LLPool is a slot.  A freed slot is used again before a   *)
(* new one; in which order the entries of a pool are visited is left open. *)
(* Pointers to an entry stay what they are when it is freed and used again.*)
(* Times are ranks: waitOrder lists the users by waitStart, queueOrder the *)
(* matches by queueTime, no two times being equal.                         *)
(*                                                                         *)
(* A line on its way is its text, one symbol, and a newline.               *)
(***************************************************************************)
EXTENDS Integers, Sequences, FiniteSets, FiniteSetsExt, SequencesExt

CONSTANTS
    Clients, Users, Games, Requests,
    UserOf,             \* [Clients -> Users]: whom a client logs on as
    Script,             \* [Clients -> Seq(Symbols)]: what a client sends
    Asked,              \* [Requests -> [game, runs, seats]]: arguments of RUNMATCHES,
                        \* seats[p] saying whether player p is LOCAL
    NumPlayers,         \* [Games -> Nat]
    MaxMatchRuns, MaxRunningJobs,   \* [Games -> Nat]
    MaxRunningBots,
    ConnSlots, MatchSlots,
    NoMatch, None

ServerAssumption ==
    /\ IsFiniteSet(Clients) /\ Clients # {} /\ IsFiniteSet(Requests)
    /\ Asked \in [Requests -> [game : Games, runs : Int, seats : Seq(BOOLEAN)]]
    /\ NumPlayers \in [Games -> Nat]
    /\ MaxMatchRuns \in [Games -> Nat]
    /\ MaxRunningJobs \in [Games -> Nat]
    /\ MaxRunningBots \in Nat
    /\ UserOf \in [Clients -> Users]
    /\ NoMatch \notin [request : Requests, game : Games, seats : Seq(BOOLEAN),
                       user : Users, conn : ConnSlots, numRuns : Int, isRunning : BOOLEAN]
    /\ None \notin ConnSlots
ASSUME ServerAssumption

VARIABLES
    sock,               \* client: "idle", "open" or "shut"
    unsent,             \* client: what it has still to send
    backlog,            \* connections not accepted yet
    wire,               \* sent and not read by the server
    buf,                \* connBuf of the server's end
    asked,              \* history: the requests taken into the queue
    closed,             \* clients whose descriptor the server has closed
    conns,              \* [ConnSlots -> Connection], status FREE for free entries
    matches,            \* [MatchSlots -> Match], NoMatch for free entries
    jobs,               \* set of [match, live]: job entries
    curRunningJobs,     \* [Games -> Int]
    waitOrder, queueOrder,
    phase,              \* place in main()
    todo, cur           \* ready connections, the one handleConnection is at

clientVars == <<sock, unsent>>
poolVars   == <<conns, matches, jobs, curRunningJobs, waitOrder, queueOrder>>
vars == <<sock, unsent, backlog, wire, buf, closed, asked, conns, matches, jobs,
          curRunningJobs, waitOrder, queueOrder, phase, todo, cur>>

NL == "newline"
Symbols == {NL, "logon", "badlogon", "query", "unknown"} \cup Requests

(* A request is one RUNMATCHES line: a client that sends the same text      *)
(* again makes another request.                                             *)
ScriptAssumption ==
    /\ Script \in [Clients -> Seq(Symbols)]
    /\ \A c, d \in Clients : \A i \in DOMAIN Script[c], j \in DOMAIN Script[d] :
         Script[c][i] \in Requests /\ Script[c][i] = Script[d][j] => c = d /\ i = j
ASSUME ScriptAssumption

Match == [request : Requests, game : Games, seats : Seq(BOOLEAN), user : Users,
          conn : ConnSlots, numRuns : Int, isRunning : BOOLEAN]
Connection == [status : {"FREE", "UNVALIDATED", "OKAY", "CLOSED"}, client : Clients]

(***************************************************************************)
(* Pools and requests                                                      *)
(***************************************************************************)
Queued   == {m \in MatchSlots : matches[m] # NoMatch}
FreeConn == {s \in ConnSlots : conns[s].status = "FREE"}
NewEntry(free) == CHOOSE x \in free : TRUE

BotSeats(seats)   == {p \in DOMAIN seats : ~seats[p]}
botsInMatch(m)    == Cardinality(BotSeats(matches[m].seats))
BotsRunning       == MapThenSumSet(LAMBDA j : botsInMatch(j.match), jobs)
matchUsesConnection(m, s) ==
    /\ matches[m].conn = s
    /\ \E p \in DOMAIN matches[m].seats : matches[m].seats[p]

(* parseMatchSpec: is the request one the server can run?                   *)
SpecIsGood(r) ==
    /\ Asked[r].runs \in 0 .. MaxMatchRuns[Asked[r].game]
    /\ Len(Asked[r].seats) >= NumPlayers[Asked[r].game]
PlayersOf(r) == SubSeq(Asked[r].seats, 1, NumPlayers[Asked[r].game])

(***************************************************************************)
(* Initial state: no client has connected                                  *)
(***************************************************************************)
Init ==
    /\ sock = [c \in Clients |-> "idle"]
    /\ unsent = Script
    /\ backlog = {}
    /\ wire = [c \in Clients |-> <<>>]
    /\ buf = [c \in Clients |-> <<>>]
    /\ closed = {} /\ asked = {}
    /\ conns = [s \in ConnSlots |-> [status |-> "FREE", client |-> NewEntry(Clients)]]
    /\ matches = [m \in MatchSlots |-> NoMatch]
    /\ jobs = {}
    /\ curRunningJobs = [g \in Games |-> 0]
    /\ waitOrder = SetToSeq(Users)
    /\ queueOrder = <<>>
    /\ phase = "reap" /\ todo = {} /\ cur = None

(***************************************************************************)
(* Clients and child processes                                             *)
(***************************************************************************)
Connect(c) ==
    /\ sock[c] = "idle"
    /\ sock' = [sock EXCEPT ![c] = "open"]
    /\ backlog' = backlog \cup {c}
    /\ UNCHANGED <<unsent, wire, buf, closed, asked, poolVars, phase, todo, cur>>

(* The next symbol arrives: a line may come in pieces, and several lines    *)
(* are there at once if the server has not read in between.  What a client  *)
(* does after the server has closed its connection has no effect.           *)
Send(c) ==
    /\ sock[c] = "open" /\ c \notin closed
    /\ unsent[c] # <<>>
    /\ unsent' = [unsent EXCEPT ![c] = Tail(@)]
    /\ wire' = [wire EXCEPT ![c] = Append(@, Head(unsent[c]))]
    /\ UNCHANGED <<sock, backlog, buf, closed, asked, poolVars, phase, todo, cur>>

HangUp(c) ==
    /\ sock[c] = "open" /\ c \notin closed
    /\ sock' = [sock EXCEPT ![c] = "shut"]
    /\ unsent' = [unsent EXCEPT ![c] = <<>>]
    /\ UNCHANGED <<backlog, wire, buf, closed, asked, poolVars, phase, todo, cur>>

(* The processes of a job: the bots by their seat and the dealer, which     *)
(* startDealer forks and whose ports it reads.                              *)
DealerProcess == -1

(* The dealer or a bot ends.                                                *)
ChildExits(j, x) ==
    /\ x \in j.live
    /\ jobs' = (jobs \ {j}) \cup {[j EXCEPT !.live = @ \ {x}]}
    /\ UNCHANGED <<clientVars, backlog, wire, buf, closed, asked, conns, matches,
                   curRunningJobs, waitOrder, queueOrder, phase, todo, cur>>

(***************************************************************************)
(* main(): finished jobs, closed connections                               *)
(***************************************************************************)
checkIfJobFinished(j) == j.live = {}

FinishedJobStaysCounted(j) ==          \* mutant: curRunningJobs is left as it is
    /\ phase = "reap"
    /\ checkIfJobFinished(j)
    /\ jobs' = jobs \ {j}
    /\ matches' = [matches EXCEPT ![j.match].isRunning = FALSE]
    /\ UNCHANGED <<clientVars, backlog, wire, buf, closed, asked, conns, curRunningJobs,
                   waitOrder, queueOrder, phase, todo, cur>>

finishedJob(j) ==
    /\ phase = "reap"
    /\ checkIfJobFinished(j)
    /\ jobs' = jobs \ {j}
    /\ curRunningJobs' = [curRunningJobs EXCEPT ![matches[j.match].game] = @ - 1]
    /\ matches' = [matches EXCEPT ![j.match].isRunning = FALSE]
    /\ UNCHANGED <<clientVars, backlog, wire, buf, closed, asked, conns, waitOrder,
                   queueOrder, phase, todo, cur>>

RemoveClosed ==
    /\ phase = "reap"
    /\ \A j \in jobs : ~checkIfJobFinished(j)
    /\ conns' = [s \in ConnSlots |->
                   IF conns[s].status = "CLOSED" THEN [conns[s] EXCEPT !.status = "FREE"]
                   ELSE conns[s]]
    /\ phase' = "start"
    /\ UNCHANGED <<clientVars, backlog, wire, buf, closed, asked, matches, jobs,
                   curRunningJobs, waitOrder, queueOrder, todo, cur>>

(***************************************************************************)
(* startMatchJob                                                           *)
(***************************************************************************)
FinishedThoughRunning(m) == matches[m].numRuns <= 0    \* mutant: isRunning not tested
Finished(m)   == ~matches[m].isRunning /\ matches[m].numRuns <= 0
GameIsBusyAboveLimit(g) ==              \* mutant: > for >=
    MaxRunningJobs[g] # 0 /\ curRunningJobs[g] > MaxRunningJobs[g]
GameIsBusy(g) == MaxRunningJobs[g] # 0 /\ curRunningJobs[g] >= MaxRunningJobs[g]
Startable(m)  == ~matches[m].isRunning /\ matches[m].numRuns > 0 /\ ~GameIsBusy(matches[m].game)

Rank(seq, x) == CHOOSE i \in DOMAIN seq : seq[i] = x
Earlier(m, n) ==
    LET um == Rank(waitOrder, matches[m].user)
        un == Rank(waitOrder, matches[n].user)
    IN  um < un \/ (um = un /\ Rank(queueOrder, m) < Rank(queueOrder, n))
IsBest(m) ==
    /\ m \in Queued /\ Startable(m)
    /\ \A n \in Queued \ {m} : Startable(n) => Earlier(m, n)

BotsFit(m) == MaxRunningBots = 0 \/ botsInMatch(m) + BotsRunning <= MaxRunningBots

ToBack(seq, x) == Append(SelectSeq(seq, LAMBDA y : y # x), x)

(* The processes runMatchJob leaves behind: the dealer and the bots.  When  *)
(* a LOCAL player cannot be told, the players after it are not started and *)
(* the processes before it are killed; they end like any other.             *)
StartedProcesses(m) ==
    LET bots == BotSeats(matches[m].seats)
        told == {p \in DOMAIN matches[m].seats : matches[m].seats[p]}
    IN  {{DealerProcess} \cup bots} \cup
        {{DealerProcess} \cup {p \in bots : p < q} :
             q \in {x \in told : sock[conns[matches[m].conn].client] = "shut"}}

CleanedUp == [m \in MatchSlots |->
                IF m \in Queued /\ Finished(m) THEN NoMatch ELSE matches[m]]

StartBest(m) ==
    /\ phase = "start"
    /\ IsBest(m) /\ BotsFit(m)
    /\ \E live \in StartedProcesses(m) : jobs' = jobs \cup {[match |-> m, live |-> live]}
    /\ curRunningJobs' = [curRunningJobs EXCEPT ![matches[m].game] = @ + 1]
    /\ matches' = [CleanedUp EXCEPT ![m].isRunning = TRUE, ![m].numRuns = @ - 1]
    /\ waitOrder' = ToBack(waitOrder, matches[m].user)
    /\ queueOrder' = ToBack(SelectSeq(queueOrder, LAMBDA y : CleanedUp[y] # NoMatch), m)
    /\ UNCHANGED <<clientVars, backlog, wire, buf, closed, asked, conns, phase, todo, cur>>

NothingToStart ==
    /\ phase = "start"
    /\ \A m \in Queued : IsBest(m) => ~BotsFit(m)
    /\ matches' = CleanedUp
    /\ queueOrder' = SelectSeq(queueOrder, LAMBDA y : CleanedUp[y] # NoMatch)
    /\ phase' = "wait"
    /\ UNCHANGED <<clientVars, backlog, wire, buf, closed, asked, conns, jobs,
                   curRunningJobs, waitOrder, todo, cur>>

(***************************************************************************)
(* select and accept                                                       *)
(***************************************************************************)
Readable(c) == wire[c] # <<>> \/ sock[c] = "shut"

addConnection(s, c) == [conns EXCEPT ![s] = [status |-> "UNVALIDATED", client |-> c]]

(* select returns, after a second at the latest, and one waiting client is  *)
(* accepted; its connection is not among the ready ones yet.                *)
Select ==
    /\ phase = "wait"
    /\ todo' = {s \in ConnSlots : conns[s].status # "FREE" /\ Readable(conns[s].client)}
    /\ \/ /\ backlog = {}
          /\ UNCHANGED <<backlog, conns>>
       \/ \E c \in backlog :
            /\ FreeConn # {}
            /\ backlog' = backlog \ {c}
            /\ conns' = addConnection(NewEntry(FreeConn), c)
    /\ phase' = "serve"
    /\ UNCHANGED <<clientVars, wire, buf, closed, asked, matches, jobs, curRunningJobs,
                   waitOrder, queueOrder, cur>>

(***************************************************************************)
(* handleConnection                                                        *)
(***************************************************************************)
AllHandled ==
    /\ phase = "serve" /\ todo = {} /\ cur = None
    /\ phase' = "reap"
    /\ UNCHANGED <<todo, cur>>
    /\ UNCHANGED <<clientVars, backlog, wire, buf, closed, asked, poolVars>>

Return      == phase' = "serve" /\ cur' = None
Continue(s) == phase' = "serve" /\ cur' = s

Reply == UNCHANGED <<conns, matches, queueOrder, closed, asked>>

CloseKeepingMatches(s) ==               \* mutant: the matches stay in the queue
    /\ closed' = closed \cup {conns[s].client}
    /\ conns' = [conns EXCEPT ![s].status = "CLOSED"]
    /\ UNCHANGED <<matches, queueOrder, asked>>
    /\ Return

closeConnection(s) ==
    /\ closed' = closed \cup {conns[s].client}
    /\ conns' = [conns EXCEPT ![s].status = "CLOSED"]
    /\ matches' = [m \in MatchSlots |->
                     IF m \in Queued /\ matchUsesConnection(m, s)
                     THEN [matches[m] EXCEPT !.numRuns = 0] ELSE matches[m]]
    /\ UNCHANGED <<queueOrder, asked>>
    /\ Return

(* A RUNMATCHES command is put into the queue when it can be read.          *)
runMatches(s, r) ==
    IF SpecIsGood(r)
    THEN /\ MatchSlots \ Queued # {}
         /\ LET m == NewEntry(MatchSlots \ Queued) IN
              /\ matches' = [matches EXCEPT ![m] =
                    [request |-> r, game |-> Asked[r].game, seats |-> PlayersOf(r),
                     user |-> UserOf[conns[s].client], conn |-> s,
                     numRuns |-> Asked[r].runs, isRunning |-> FALSE]]
              /\ queueOrder' = Append(queueOrder, m)
         /\ asked' = asked \cup {r}
         /\ UNCHANGED <<conns, closed>>
    ELSE Reply

handleLine(s, text) ==
    \/ /\ conns[s].status = "UNVALIDATED"
       /\ IF text = <<"logon">>
          THEN /\ conns' = [conns EXCEPT ![s].status = "OKAY"]
               /\ UNCHANGED <<matches, queueOrder, closed, asked>>
               /\ Return
          ELSE closeConnection(s)
    \/ /\ conns[s].status = "OKAY"
       /\ \/ text = <<"query">> /\ Reply /\ Continue(s)
          \/ \E r \in Requests : text = <<r>> /\ runMatches(s, r) /\ Return
          \/ /\ text \notin {<<x>> : x \in {"query"} \cup Requests}
             /\ Reply /\ Return

(***************************************************************************)
(* getLine with a time-out of zero.  The buffer is used up first; what is  *)
(* then missing is read if it is there.                                    *)
(***************************************************************************)
HasLine(data)  == \E i \in DOMAIN data : data[i] = NL
FirstLine(data) == SubSeq(data, 1, SelectInSeq(data, LAMBDA x : x = NL) - 1)
AfterLine(data) == SubSeq(data, SelectInSeq(data, LAMBDA x : x = NL) + 1, Len(data))

GotLine(s, data, rest) ==
    LET c == conns[s].client IN
    /\ handleLine(s, FirstLine(data))
    /\ buf' = [buf EXCEPT ![c] = AfterLine(data)]
    /\ wire' = [wire EXCEPT ![c] = rest]

(* End of input: what came before it counts as a line, nothing as r = 0.    *)
GotEnd(s) ==
    LET c == conns[s].client IN
    /\ IF buf[c] = <<>> THEN closeConnection(s) ELSE handleLine(s, buf[c])
    /\ buf' = [buf EXCEPT ![c] = <<>>]
    /\ UNCHANGED wire

(* Nothing there: -1, and what had been taken from the buffer is lost.      *)
GotNothing(s) ==
    /\ buf' = [buf EXCEPT ![conns[s].client] = <<>>]
    /\ UNCHANGED <<conns, matches, queueOrder, closed, asked, wire>>
    /\ Return

(* A piece of a line: the time left is 0 minus the time since the call      *)
(* began, in unsigned arithmetic.  It is 0 when no microsecond has passed,  *)
(* else 584542 years.                                                       *)
GotPiece(s) ==
    LET c == conns[s].client IN
    /\ wire' = [wire EXCEPT ![c] = <<>>]
    /\ UNCHANGED <<conns, matches, queueOrder, closed, asked>>
    /\ \/ buf' = [buf EXCEPT ![c] = <<>>] /\ Return
       \/ buf' = [buf EXCEPT ![c] = @ \o wire[c]] /\ phase' = "reading" /\ cur' = s

getLine(s) ==
    LET c == conns[s].client IN
    /\ phase = "serve"
    /\ \/ cur = s /\ UNCHANGED todo
       \/ cur = None /\ s \in todo /\ todo' = todo \ {s}
    /\ \/ HasLine(buf[c]) /\ GotLine(s, buf[c], wire[c])
       \/ /\ ~HasLine(buf[c])
          /\ \/ HasLine(wire[c]) /\ GotLine(s, buf[c] \o wire[c], <<>>)
             \/ wire[c] # <<>> /\ ~HasLine(wire[c]) /\ GotPiece(s)
             \/ wire[c] = <<>> /\ sock[c] = "shut" /\ GotEnd(s)
             \/ wire[c] = <<>> /\ sock[c] # "shut" /\ GotNothing(s)
    /\ UNCHANGED <<clientVars, backlog, jobs, curRunningJobs, waitOrder>>

(* getLine waits in its second select until the client sends or hangs up.   *)
getLineGoesOn ==
    LET c == conns[cur].client IN
    /\ phase = "reading"
    /\ \/ HasLine(wire[c]) /\ GotLine(cur, buf[c] \o wire[c], <<>>)
       \/ /\ wire[c] # <<>> /\ ~HasLine(wire[c])
          /\ buf' = [buf EXCEPT ![c] = @ \o wire[c]]
          /\ wire' = [wire EXCEPT ![c] = <<>>]
          /\ UNCHANGED <<conns, matches, queueOrder, closed, asked, phase, cur>>
       \/ wire[c] = <<>> /\ sock[c] = "shut" /\ GotEnd(cur)
    /\ UNCHANGED <<clientVars, backlog, jobs, curRunningJobs, waitOrder, todo>>

(***************************************************************************)
(* Next-state relation and fairness                                        *)
(***************************************************************************)
ServerStep ==
    \/ \E j \in jobs : finishedJob(j)
    \/ RemoveClosed
    \/ \E m \in MatchSlots : StartBest(m)
    \/ NothingToStart
    \/ Select \/ AllHandled \/ getLineGoesOn
    \/ \E s \in ConnSlots : getLine(s)

Environment ==
    \/ \E c \in Clients : Connect(c) \/ Send(c) \/ HangUp(c)
    \/ \E j \in jobs : \E x \in j.live : ChildExits(j, x)

Next == ServerStep \/ Environment

Spec == Init /\ [][Next]_vars

(* The server has the processor to itself, every match ends (dealers have   *)
(* time limits, bots end with the dealer), and a line that was begun is     *)
(* finished unless the client hangs up.                                     *)
FinishLine(c) == Send(c) /\ Head(unsent[c]) = NL
ChildrenExit(m) == \E j \in jobs : j.match = m /\ \E x \in j.live : ChildExits(j, x)

FairSpec ==
    /\ Spec
    /\ WF_vars(ServerStep)
    /\ \A m \in MatchSlots : WF_vars(ChildrenExit(m))
    /\ \A c \in Clients : WF_vars(FinishLine(c))

(***************************************************************************)
(* Properties                                                              *)
(***************************************************************************)
TypeOK ==
    /\ sock \in [Clients -> {"idle", "open", "shut"}]
    /\ unsent \in [Clients -> Seq(Symbols)]
    /\ backlog \subseteq Clients /\ closed \subseteq Clients
    /\ asked \subseteq Requests
    /\ wire \in [Clients -> Seq(Symbols)] /\ buf \in [Clients -> Seq(Symbols)]
    /\ conns \in [ConnSlots -> Connection]
    /\ matches \in [MatchSlots -> Match \cup {NoMatch}]
    /\ \A j \in jobs : j.match \in Queued
    /\ curRunningJobs \in [Games -> Int]
    /\ waitOrder \in Seq(Users) /\ queueOrder \in Seq(MatchSlots)
    /\ phase \in {"reap", "start", "wait", "serve", "reading"}
    /\ todo \subseteq ConnSlots
    /\ cur \in ConnSlots \cup {None}

JobsOf(g) == {j \in jobs : matches[j.match].game = g}

(* A match that runs has one job and a job has its match: the entry of a    *)
(* running match is not given away (the isRunning test of startMatchJob     *)
(* keeps it), and curRunningJobs counts the jobs of each game.              *)
JobsAgreeWithMatches ==
    /\ \A j \in jobs : j.match \in Queued /\ matches[j.match].isRunning
    /\ \A j, k \in jobs : j.match = k.match => j = k
    /\ \A m \in Queued : matches[m].isRunning => \E j \in jobs : j.match = m
    /\ \A g \in Games : curRunningJobs[g] = Cardinality(JobsOf(g))

(* The limits of the configuration hold: jobs of a game, bots of all jobs   *)
(* together, counted from the matches the jobs point to.                    *)
LimitsHold ==
    /\ \A g \in Games : MaxRunningJobs[g] # 0 =>
          Cardinality(JobsOf(g)) <= MaxRunningJobs[g]
    /\ MaxRunningBots # 0 => BotsRunning <= MaxRunningBots

(* A match that may still be started and has a LOCAL player points to an    *)
(* open connection of the user who asked for it: the pointer is not used    *)
(* after the entry has been freed and given to another client               *)
(* (closeConnection takes the match out of the queue first).                *)
ReadyMatchesKeepTheirConnection ==
    \A m \in Queued :
        (matches[m].numRuns > 0 /\ TRUE \in Range(matches[m].seats)) =>
            /\ conns[matches[m].conn].status = "OKAY"
            /\ UserOf[conns[matches[m].conn].client] = matches[m].user

(* The server implements the queue of matches: no request is run more often *)
(* than asked, twice at once or after its connection was closed.            *)
Sender(r)     == CHOOSE c \in Clients : r \in Range(Script[c])
LocalSeats(r) == TRUE \in Range(PlayersOf(r))
Game(r)       == Asked[r].game
Runs(r)       == Asked[r].runs
Limit(g)      == MaxRunningJobs[g]
EntryOf(r)    == {m \in Queued : matches[m].request = r}
LeftOf(r)     == IF EntryOf(r) # {} THEN matches[CHOOSE m \in EntryOf(r) : TRUE].numRuns
                 ELSE IF r \in asked THEN 0 ELSE -1

Queue == INSTANCE MatchQueue WITH
    Owner <- Sender, GameOf <- Game, RunsOf <- Runs, IsLocal <- LocalSeats, JobLimit <- Limit,
    left <- [r \in Requests |-> LeftOf(r)],
    running <- {matches[j.match].request : j \in jobs},
    gone <- closed
ImplementsQueue == Queue!QueueSpec

(* A match in the queue is started at last, or withdrawn with its           *)
(* connection, whatever else is asked for and although jobs hold up others: *)
(* the user who waits longest comes first.  (Each match by itself fits under *)
(* maxRunningBots in the run; one that does not is never started and keeps  *)
(* all others from starting.)                                               *)
Waiting(r)  == \E m \in EntryOf(r) : matches[m].numRuns > 0 /\ ~matches[m].isRunning
MatchesStart ==
    \A r \in Requests : Waiting(r) ~> ~Waiting(r)

(* getLine called with a time-out of zero does not wait (net.c:38: "do not  *)
(* spend more than that number of microseconds waiting to read data").      *)
GetLineKeepsItsTimeout == phase # "reading"
=============================================================================
