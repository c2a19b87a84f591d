---------------------------- MODULE BmServerProofs ----------------------------
(***************************************************************************)
(* Proofs about BmServer, for any clients, scripts, games, limits and pool *)
(* sizes.                                                                  *)
(***************************************************************************)
EXTENDS BmServer, SumProofs, SequenceTheorems

Job == [match : MatchSlots, live : SUBSET Int]

PoolTypes ==
    /\ conns \in [ConnSlots -> Connection]
    /\ matches \in [MatchSlots -> Match \cup {NoMatch}]
    /\ jobs \subseteq Job /\ IsFiniteSet(jobs)
    /\ curRunningJobs \in [Games -> Int]
PlaceTypes ==
    /\ todo \subseteq ConnSlots /\ backlog \subseteq Clients
    /\ cur \in ConnSlots \cup {None}
    /\ phase = "reading" => cur \in ConnSlots
Types == PoolTypes /\ PlaceTypes

(***************************************************************************)
(* What the steps do to the pools                                          *)
(***************************************************************************)
(* A request that can be run is a good match.                               *)
LEMMA RequestsAreMatches ==
  ASSUME NEW r \in Requests, SpecIsGood(r), NEW c \in Clients, NEW s \in ConnSlots
  PROVE  [request |-> r, game |-> Asked[r].game, seats |-> PlayersOf(r), user |-> UserOf[c],
          conn |-> s, numRuns |-> Asked[r].runs, isRunning |-> FALSE] \in Match
<1>1. /\ Asked[r].game \in Games /\ Asked[r].runs \in Int /\ Asked[r].seats \in Seq(BOOLEAN)
      /\ NumPlayers[Asked[r].game] \in Nat /\ UserOf[c] \in Users
  BY ServerAssumption DEF ServerAssumption
<1>2. PlayersOf(r) \in Seq(BOOLEAN)
  <2>1. NumPlayers[Asked[r].game] <= Len(Asked[r].seats)
    BY <1>1 DEF SpecIsGood
  <2> QED BY <1>1, <2>1 DEF PlayersOf
<1> QED
  BY <1>1, <1>2 DEF Match

(* A line that is read: what becomes of the connection and the matches.     *)
LineStep(s) ==
    \/ conns' = conns /\ matches' = matches
    \/ /\ conns[s].status = "UNVALIDATED"
       /\ conns' = [conns EXCEPT ![s].status = "OKAY"] /\ matches' = matches
    \/ /\ conns' = [conns EXCEPT ![s].status = "CLOSED"]
       /\ matches' = [m \in MatchSlots |->
                        IF m \in Queued /\ matchUsesConnection(m, s)
                        THEN [matches[m] EXCEPT !.numRuns = 0] ELSE matches[m]]
    \/ /\ conns' = conns /\ conns[s].status = "OKAY"
       /\ \E m \in MatchSlots \ Queued, k \in Match :
            /\ matches' = [matches EXCEPT ![m] = k]
            /\ k.conn = s /\ k.user = UserOf[conns[s].client] /\ ~k.isRunning

(* A line, whatever it says, leaves the pools in one of four ways.          *)
LEMMA HandledLines ==
  ASSUME Types, NEW s \in ConnSlots, NEW text, handleLine(s, text)
  PROVE  LineStep(s) /\ phase' = "serve" /\ cur' \in {s, None}
<1>1. CASE conns[s].status = "UNVALIDATED"
  BY <1>1 DEF handleLine, closeConnection, Return, LineStep
<1>2. CASE conns[s].status = "OKAY"
  <2>1. CASE text = <<"query">> /\ Reply /\ Continue(s)
    BY <2>1 DEF Reply, Continue, LineStep
  <2>2. CASE text \notin {<<x>> : x \in {"query"} \cup Requests} /\ Reply /\ Return
    BY <2>2 DEF Reply, Return, LineStep
  <2>3. ASSUME NEW r \in Requests, runMatches(s, r), Return
        PROVE  LineStep(s)
    <3>1. CASE ~SpecIsGood(r)
      BY <2>3, <3>1 DEF runMatches, Reply, LineStep
    <3>2. CASE SpecIsGood(r)
      <4> DEFINE k == [request |-> r, game |-> Asked[r].game, seats |-> PlayersOf(r),
                       user |-> UserOf[conns[s].client], conn |-> s,
                       numRuns |-> Asked[r].runs, isRunning |-> FALSE]
                 m == NewEntry(MatchSlots \ Queued)
      <4>1. matches' = [matches EXCEPT ![m] = k] /\ conns' = conns
        BY <2>3, <3>2 DEF runMatches
      <4>2. m \in MatchSlots \ Queued
        BY <2>3, <3>2 DEF runMatches, NewEntry
      <4>3. conns[s].client \in Clients
        BY DEF Types, PoolTypes, Connection
      <4>4. k \in Match
        BY <3>2, <4>3, RequestsAreMatches
      <4>5. k.conn = s /\ k.user = UserOf[conns[s].client] /\ ~k.isRunning
        OBVIOUS
      <4> HIDE DEF k, m
      <4> QED BY <1>2, <4>1, <4>2, <4>4, <4>5 DEF LineStep
    <3> QED BY <3>1, <3>2
  <2>4. \/ text = <<"query">> /\ Reply /\ Continue(s)
        \/ \E r \in Requests : runMatches(s, r) /\ Return
        \/ text \notin {<<x>> : x \in {"query"} \cup Requests} /\ Reply /\ Return
    BY <1>2 DEF handleLine
  <2> QED BY <2>1, <2>2, <2>3, <2>4 DEF Return, Continue
<1> QED
  BY <1>1, <1>2 DEF handleLine

(* So does a call of getLine, whether a line comes of it or not.            *)
LEMMA ReadLines ==
  ASSUME Types, NEW s \in ConnSlots,
         \/ GotEnd(s) \/ GotNothing(s) \/ GotPiece(s)
         \/ \E data, rest : GotLine(s, data, rest)
  PROVE  LineStep(s) /\ phase' \in {"serve", "reading"} /\ cur' \in {s, None}
         /\ (phase' = "reading" => cur' = s)
<1>1. CASE GotNothing(s) \/ GotPiece(s)
  BY <1>1 DEF GotNothing, GotPiece, LineStep, Return
<1>2. CASE closeConnection(s)
  BY <1>2 DEF closeConnection, LineStep, Return
<1>3. CASE \E text : handleLine(s, text)
  BY <1>3, HandledLines
<1> QED
  BY <1>1, <1>2, <1>3 DEF GotEnd, GotLine

PoolsStay == UNCHANGED <<conns, matches, jobs, curRunningJobs>>

(* A step of the system, by what it does to the pools.                      *)
LEMMA Steps ==
  ASSUME Types, [Next]_vars
  PROVE  \/ PoolsStay
         \/ \E j \in jobs : \E x : ChildExits(j, x)
         \/ \E j \in jobs : finishedJob(j)
         \/ RemoveClosed
         \/ \E m \in MatchSlots : StartBest(m)
         \/ NothingToStart
         \/ /\ UNCHANGED <<matches, jobs, curRunningJobs>>
            /\ \E s \in FreeConn, c \in Clients : conns' = addConnection(s, c)
         \/ /\ UNCHANGED <<jobs, curRunningJobs>>
            /\ \E s \in ConnSlots : LineStep(s)
<1>1. CASE UNCHANGED vars
  BY <1>1 DEF vars, PoolsStay
<1>2. CASE \E c \in Clients : Connect(c) \/ Send(c) \/ HangUp(c)
  BY <1>2 DEF Connect, Send, HangUp, poolVars, PoolsStay
<1>3. CASE Select
  <2>1. CASE backlog = {} /\ UNCHANGED <<backlog, conns>>
    BY <1>3, <2>1 DEF Select, PoolsStay
  <2>2. CASE \E c \in backlog : /\ FreeConn # {}
                                /\ conns' = addConnection(NewEntry(FreeConn), c)
    <3>1. FreeConn # {} => NewEntry(FreeConn) \in FreeConn
      BY DEF NewEntry
    <3>2. backlog \subseteq Clients
      BY DEF Types, PlaceTypes
    <3> QED BY <1>3, <2>2, <3>1, <3>2 DEF Select
  <2> QED BY <1>3, <2>1, <2>2 DEF Select
<1>4. CASE AllHandled
  BY <1>4 DEF AllHandled, poolVars, PoolsStay
<1>5. CASE getLineGoesOn
  <2>1. cur \in ConnSlots
    BY <1>5 DEF getLineGoesOn, Types, PlaceTypes
  <2>2. \/ GotEnd(cur) \/ (\E data, rest : GotLine(cur, data, rest))
        \/ UNCHANGED <<conns, matches>>
    BY <1>5 DEF getLineGoesOn
  <2>3. UNCHANGED <<jobs, curRunningJobs>>
    BY <1>5 DEF getLineGoesOn
  <2> QED BY <2>1, <2>2, <2>3, ReadLines DEF LineStep
<1>6. ASSUME NEW s \in ConnSlots, getLine(s)
      PROVE  LineStep(s) /\ UNCHANGED <<jobs, curRunningJobs>>
  <2>1. \/ GotEnd(s) \/ GotNothing(s) \/ GotPiece(s) \/ \E data, rest : GotLine(s, data, rest)
    BY <1>6 DEF getLine
  <2>2. UNCHANGED <<jobs, curRunningJobs>>
    BY <1>6 DEF getLine
  <2> QED BY <2>1, <2>2, ReadLines
<1> QED
  BY <1>1, <1>2, <1>3, <1>4, <1>5, <1>6 DEF Next, ServerStep, Environment

(***************************************************************************)
(* Types                                                                   *)
(***************************************************************************)
LEMMA PlacesStayTyped ==
  ASSUME Types, [Next]_vars
  PROVE  PlaceTypes'
<1> USE DEF Types, PlaceTypes
<1>1. CASE UNCHANGED vars
  BY <1>1 DEF vars
<1>2. CASE Environment
  BY <1>2 DEF Environment, Connect, Send, HangUp, ChildExits
<1>3. CASE (\E j \in jobs : finishedJob(j)) \/ RemoveClosed \/ AllHandled
  BY <1>3 DEF finishedJob, RemoveClosed, AllHandled
<1>4. CASE (\E m \in MatchSlots : StartBest(m)) \/ NothingToStart
  BY <1>4 DEF StartBest, NothingToStart
<1>5. CASE Select
  BY <1>5 DEF Select
<1>6. CASE getLineGoesOn
  <2>1. cur \in ConnSlots
    BY <1>6 DEF getLineGoesOn
  <2>2. \/ GotEnd(cur) \/ (\E data, rest : GotLine(cur, data, rest)) \/ UNCHANGED <<phase, cur>>
    BY <1>6 DEF getLineGoesOn
  <2>3. UNCHANGED <<todo, backlog>>
    BY <1>6 DEF getLineGoesOn
  <2> QED BY <2>1, <2>2, <2>3, ReadLines
<1>7. ASSUME NEW s \in ConnSlots, getLine(s)
      PROVE  PlaceTypes'
  <2>1. \/ GotEnd(s) \/ GotNothing(s) \/ GotPiece(s) \/ \E data, rest : GotLine(s, data, rest)
    BY <1>7 DEF getLine
  <2>2. todo' \subseteq todo /\ backlog' = backlog
    BY <1>7 DEF getLine
  <2> QED BY <2>1, <2>2, ReadLines
<1> QED
  BY <1>1, <1>2, <1>3, <1>4, <1>5, <1>6, <1>7 DEF Next, ServerStep

(* An entry in use holds a match.                                           *)
LEMMA QueuedAreMatches ==
  ASSUME matches \in [MatchSlots -> Match \cup {NoMatch}]
  PROVE  Queued = {m \in MatchSlots : matches[m] \in Match}
<1>1. NoMatch \notin Match
  BY ServerAssumption DEF ServerAssumption, Match
<1> QED
  BY <1>1 DEF Queued

(* Cleaning up frees entries or leaves them as they are.                    *)
LEMMA CleanedUpIsTyped ==
  ASSUME matches \in [MatchSlots -> Match \cup {NoMatch}]
  PROVE  CleanedUp \in [MatchSlots -> Match \cup {NoMatch}]
BY DEF CleanedUp

(* What startMatchJob does to the match it starts and to the others.        *)
LEMMA StartedMatch ==
  ASSUME Types, NEW m \in MatchSlots, StartBest(m)
  PROVE  /\ matches[m] \in Match /\ ~matches[m].isRunning /\ ~GameIsBusy(matches[m].game)
         /\ matches[m].numRuns > 0
         /\ matches'[m] = [matches[m] EXCEPT !.isRunning = TRUE,
                                             !.numRuns = matches[m].numRuns - 1]
         /\ \A n \in MatchSlots \ {m} : matches'[n] = CleanedUp[n]
         /\ curRunningJobs' = [curRunningJobs EXCEPT
                                 ![matches[m].game] = curRunningJobs[matches[m].game] + 1]
         /\ \E live \in SUBSET Int : jobs' = jobs \cup {[match |-> m, live |-> live]}
<1>1. m \in Queued /\ Startable(m)
  BY DEF StartBest, IsBest
<1>2. matches \in [MatchSlots -> Match \cup {NoMatch}] /\ curRunningJobs \in [Games -> Int]
  BY DEF Types, PoolTypes
<1>3. matches[m] \in Match /\ matches[m].numRuns \in Int
  BY <1>1, <1>2, QueuedAreMatches DEF Match
<1>4. /\ ~matches[m].isRunning /\ ~GameIsBusy(matches[m].game)
      /\ matches[m].numRuns > 0 /\ CleanedUp[m] = matches[m]
  BY <1>1, <1>3 DEF Startable, CleanedUp, Finished
<1>5. matches' = [CleanedUp EXCEPT ![m].isRunning = TRUE, ![m].numRuns = @ - 1]
  BY DEF StartBest
<1>6. CleanedUp \in [MatchSlots -> Match \cup {NoMatch}]
  BY <1>2, CleanedUpIsTyped
<1>7. /\ matches'[m] = [matches[m] EXCEPT !.isRunning = TRUE,
                                          !.numRuns = matches[m].numRuns - 1]
      /\ \A n \in MatchSlots \ {m} : matches'[n] = CleanedUp[n]
  <2> HIDE DEF CleanedUp
  <2>1. [CleanedUp[m] EXCEPT !.isRunning = TRUE].numRuns = CleanedUp[m].numRuns
    BY <1>3, <1>4 DEF Match
  <2> QED BY <1>3, <1>4, <1>5, <1>6, <2>1
<1>8. curRunningJobs' = [curRunningJobs EXCEPT
                           ![matches[m].game] = curRunningJobs[matches[m].game] + 1]
  BY DEF StartBest
<1>9. \E live \in SUBSET Int : jobs' = jobs \cup {[match |-> m, live |-> live]}
  <2>1. matches[m].seats \in Seq(BOOLEAN)
    BY <1>3 DEF Match
  <2>2. \A live \in StartedProcesses(m) : live \subseteq Int
    BY <2>1 DEF StartedProcesses, BotSeats, DealerProcess
  <2> QED BY <2>2 DEF StartBest
<1> QED
  BY <1>3, <1>4, <1>7, <1>8, <1>9

(* What finishedJob does to the match, the counter and the jobs.            *)
LEMMA FinishedJob ==
  ASSUME Types, JobsAgreeWithMatches, NEW j \in jobs, finishedJob(j)
  PROVE  /\ matches[j.match] \in Match /\ j.match \in MatchSlots
         /\ matches'[j.match] = [matches[j.match] EXCEPT !.isRunning = FALSE]
         /\ \A n \in MatchSlots \ {j.match} : matches'[n] = matches[n]
         /\ curRunningJobs' = [curRunningJobs EXCEPT
                ![matches[j.match].game] = curRunningJobs[matches[j.match].game] - 1]
         /\ jobs' = jobs \ {j}
<1>1. matches \in [MatchSlots -> Match \cup {NoMatch}] /\ j.match \in MatchSlots
  BY DEF Types, PoolTypes, Job
<1>2. matches[j.match] \in Match
  BY <1>1, QueuedAreMatches DEF JobsAgreeWithMatches
<1> QED
  BY <1>1, <1>2 DEF finishedJob

(* The child's job goes on with its match.                                  *)
LEMMA ChildExit ==
  ASSUME Types, NEW j \in jobs, NEW x, ChildExits(j, x)
  PROVE  \E k \in Job : k.match = j.match /\ jobs' = (jobs \ {j}) \cup {k}
<1>1. j \in Job
  BY DEF Types, PoolTypes
<1>2. [j EXCEPT !.live = @ \ {x}] \in Job /\ [j EXCEPT !.live = @ \ {x}].match = j.match
  BY <1>1 DEF Job
<1> QED
  BY <1>2 DEF ChildExits

(* Every step keeps the types.                                              *)
LEMMA TypesAreKept ==
  ASSUME Types, JobsAgreeWithMatches, [Next]_vars
  PROVE  Types'
<1> USE DEF PoolTypes
<1>1. PoolTypes /\ PlaceTypes'
  BY PlacesStayTyped DEF Types
<1>2. CASE PoolsStay
  BY <1>1, <1>2 DEF Types, PoolsStay
<1>3. ASSUME NEW j \in jobs, NEW x, ChildExits(j, x)
      PROVE  Types'
  <2>1. PICK k \in Job : jobs' = (jobs \ {j}) \cup {k}
    BY <1>3, ChildExit
  <2>2. jobs' \subseteq Job /\ IsFiniteSet(jobs')
    BY <1>1, <2>1, FS_RemoveElement, FS_AddElement
  <2> QED BY <1>1, <1>3, <2>2 DEF ChildExits, Types
<1>4. ASSUME NEW j \in jobs, finishedJob(j)
      PROVE  Types'
  <2>1. [matches[j.match] EXCEPT !.isRunning = FALSE] \in Match
    BY <1>4, FinishedJob DEF Match
  <2>2. matches[j.match].game \in Games
    BY <1>4, FinishedJob DEF Match
  <2>3. matches' \in [MatchSlots -> Match \cup {NoMatch}]
    BY <1>1, <1>4, <2>1, FinishedJob DEF finishedJob
  <2>4. curRunningJobs' \in [Games -> Int]
    <3>1. curRunningJobs' = [curRunningJobs EXCEPT
            ![matches[j.match].game] = curRunningJobs[matches[j.match].game] - 1]
      BY <1>4, FinishedJob
    <3> QED BY <1>1, <2>2, <3>1
  <2>5. jobs' \subseteq Job /\ IsFiniteSet(jobs')
    <3>1. jobs' = jobs \ {j}
      BY <1>4, FinishedJob
    <3> QED BY <1>1, <3>1, FS_RemoveElement
  <2>6. conns' = conns
    BY <1>4 DEF finishedJob
  <2> QED BY <1>1, <2>3, <2>4, <2>5, <2>6 DEF Types
<1>5. CASE RemoveClosed
  <2>1. conns' \in [ConnSlots -> Connection]
    <3>1. \A k \in Connection : [k EXCEPT !.status = "FREE"] \in Connection
      BY DEF Connection
    <3> QED BY <1>1, <1>5, <3>1 DEF RemoveClosed
  <2> QED BY <1>1, <1>5, <2>1 DEF RemoveClosed, Types
<1>6. ASSUME NEW m \in MatchSlots, StartBest(m)
      PROVE  Types'
  <2>1. matches[m].game \in Games /\ matches[m].numRuns \in Int
    BY <1>6, StartedMatch DEF Match
  <2>2. [matches[m] EXCEPT !.isRunning = TRUE, !.numRuns = matches[m].numRuns - 1] \in Match
    <3>1. matches[m] \in Match
      BY <1>6, StartedMatch
    <3>2. \A k \in Match, n \in Int : [k EXCEPT !.isRunning = TRUE, !.numRuns = n] \in Match
      BY DEF Match
    <3>3. matches[m].numRuns - 1 \in Int
      BY <2>1
    <3> QED BY <3>1, <3>2, <3>3
  <2>3. matches' \in [MatchSlots -> Match \cup {NoMatch}]
    <3>1. CleanedUp \in [MatchSlots -> Match \cup {NoMatch}]
      BY <1>1, CleanedUpIsTyped
    <3>2. matches' = [n \in MatchSlots |-> matches'[n]]
      BY <1>6, <3>1 DEF StartBest
    <3>3. \A n \in MatchSlots : matches'[n] \in Match \cup {NoMatch}
      BY <1>6, <2>2, <3>1, StartedMatch
    <3> QED BY <3>2, <3>3
  <2>4. curRunningJobs' \in [Games -> Int]
    <3>1. curRunningJobs' = [curRunningJobs EXCEPT
            ![matches[m].game] = curRunningJobs[matches[m].game] + 1]
      BY <1>6, StartedMatch
    <3> QED BY <1>1, <2>1, <3>1
  <2>5. PICK live \in SUBSET Int : jobs' = jobs \cup {[match |-> m, live |-> live]}
    BY <1>6, StartedMatch
  <2>6. jobs' \subseteq Job /\ IsFiniteSet(jobs')
    <3>1. [match |-> m, live |-> live] \in Job
      BY DEF Job
    <3> QED BY <1>1, <2>5, <3>1, FS_AddElement
  <2>7. conns' = conns
    BY <1>6 DEF StartBest
  <2> QED BY <1>1, <2>3, <2>4, <2>6, <2>7 DEF Types
<1>7. CASE NothingToStart
  BY <1>1, <1>7, CleanedUpIsTyped DEF NothingToStart, Types
<1>8. ASSUME UNCHANGED <<matches, jobs, curRunningJobs>>, NEW s \in FreeConn,
             NEW c \in Clients, conns' = addConnection(s, c)
      PROVE  Types'
  <2>1. conns' \in [ConnSlots -> Connection]
    BY <1>1, <1>8 DEF addConnection, FreeConn, Connection
  <2> QED BY <1>1, <1>8, <2>1 DEF Types
<1>9. ASSUME UNCHANGED <<jobs, curRunningJobs>>, NEW s \in ConnSlots, LineStep(s)
      PROVE  Types'
  <2>1. conns' \in [ConnSlots -> Connection]
    BY <1>1, <1>9 DEF LineStep, Connection
  <2>2. matches' \in [MatchSlots -> Match \cup {NoMatch}]
    <3>1. \A k \in Match : [k EXCEPT !.numRuns = 0] \in Match
      BY DEF Match
    <3>2. Queued = {m \in MatchSlots : matches[m] \in Match}
      BY <1>1, QueuedAreMatches
    <3> QED BY <1>1, <1>9, <3>1, <3>2 DEF LineStep
  <2> QED BY <1>1, <1>9, <2>1, <2>2 DEF Types
<1> QED
  BY <1>2, <1>3, <1>4, <1>5, <1>6, <1>7, <1>8, <1>9, Steps

(***************************************************************************)
(* Jobs and matches                                                        *)
(***************************************************************************)
Running(m) == matches[m] \in Match /\ matches[m].isRunning

JobsAreRunning ==
    /\ \A j \in jobs : Running(j.match)
    /\ \A j, k \in jobs : j.match = k.match => j = k
    /\ \A m \in MatchSlots : Running(m) => \E j \in jobs : j.match = m
JobsAreCounted == \A g \in Games : curRunningJobs[g] = Cardinality(JobsOf(g))

(* JobsAgreeWithMatches by its two halves, without Queued.                  *)
LEMMA JobsInTwoParts ==
  ASSUME Types
  PROVE  JobsAgreeWithMatches <=> JobsAreRunning /\ JobsAreCounted
<1>1. Queued = {m \in MatchSlots : matches[m] \in Match}
  BY QueuedAreMatches DEF Types, PoolTypes
<1>2. \A j \in jobs : j.match \in MatchSlots
  BY DEF Types, PoolTypes, Job
<1> QED
  BY <1>1, <1>2 DEF JobsAgreeWithMatches, JobsAreRunning, JobsAreCounted, Running

(* Nothing of a match that runs is changed but the runs left.               *)
RunningStays ==
    \A m \in MatchSlots : /\ Running(m) => matches'[m].game = matches[m].game
                          /\ Running(m)' <=> Running(m)

(* A step that leaves running matches alone keeps both halves.              *)
LEMMA RunningJobsStay ==
  ASSUME Types, JobsAgreeWithMatches, RunningStays, UNCHANGED <<jobs, curRunningJobs>>
  PROVE  JobsAreRunning' /\ JobsAreCounted'
<1>1. JobsAreRunning /\ JobsAreCounted
  BY JobsInTwoParts
<1>2. \A j \in jobs : j.match \in MatchSlots
  BY DEF Types, PoolTypes, Job
<1>3. JobsAreRunning'
  BY <1>1, <1>2 DEF JobsAreRunning, RunningStays
<1>4. \A g \in Games : JobsOf(g)' = JobsOf(g)
  BY <1>1, <1>2 DEF JobsAreRunning, JobsOf, RunningStays
<1> QED
  BY <1>1, <1>3, <1>4 DEF JobsAreCounted

(* No running match is cleaned up.                                          *)
LEMMA CleaningKeepsRunning ==
  ASSUME Types, NEW m \in MatchSlots
  PROVE  /\ Running(m) => CleanedUp[m] = matches[m]
         /\ CleanedUp[m] \in Match => CleanedUp[m] = matches[m]
<1>1. NoMatch \notin Match
  BY ServerAssumption DEF ServerAssumption, Match
<1> QED
  BY <1>1 DEF CleanedUp, Finished, Running, Types, PoolTypes

(* No line and no closed connection touches a running match.                *)
LEMMA LinesLeaveRunning ==
  ASSUME Types, NEW s \in ConnSlots, LineStep(s)
  PROVE  RunningStays
<1>1. matches \in [MatchSlots -> Match \cup {NoMatch}]
  BY DEF Types, PoolTypes
<1>2. Queued = {m \in MatchSlots : matches[m] \in Match} /\ NoMatch \notin Match
  BY <1>1, QueuedAreMatches, ServerAssumption DEF ServerAssumption, Match
<1>3. CASE matches' = matches
  BY <1>3 DEF RunningStays, Running
<1>4. CASE matches' = [m \in MatchSlots |->
                         IF m \in Queued /\ matchUsesConnection(m, s)
                         THEN [matches[m] EXCEPT !.numRuns = 0] ELSE matches[m]]
  <2>1. \A k \in Match : /\ [k EXCEPT !.numRuns = 0] \in Match
                         /\ [k EXCEPT !.numRuns = 0].game = k.game
                         /\ [k EXCEPT !.numRuns = 0].isRunning = k.isRunning
    BY DEF Match
  <2> QED BY <1>2, <1>4, <2>1 DEF RunningStays, Running
<1>5. CASE \E m \in MatchSlots \ Queued, k \in Match :
             matches' = [matches EXCEPT ![m] = k] /\ ~k.isRunning
  BY <1>1, <1>2, <1>5 DEF RunningStays, Running
<1> QED
  BY <1>3, <1>4, <1>5 DEF LineStep

(* The jobs of a game can be counted.                                       *)
LEMMA JobsSetsAreFinite ==
  ASSUME Types
  PROVE  \A g : IsFiniteSet(JobsOf(g)) /\ Cardinality(JobsOf(g)) \in Nat
<1>1. \A g : JobsOf(g) \subseteq jobs
  BY DEF JobsOf
<1> QED
  BY <1>1, FS_Subset, FS_CardinalityType DEF Types, PoolTypes

(* A process that ends takes no job away.                                   *)
LEMMA ChildExitsKeepJobs ==
  ASSUME Types, JobsAgreeWithMatches, NEW j \in jobs, NEW x, ChildExits(j, x)
  PROVE  JobsAreRunning' /\ JobsAreCounted'
<1>1. PICK i \in Job : i.match = j.match /\ jobs' = (jobs \ {j}) \cup {i}
  BY ChildExit
<1>2. JobsAreRunning /\ JobsAreCounted
  BY JobsInTwoParts
<1>3. matches' = matches /\ curRunningJobs' = curRunningJobs
  BY DEF ChildExits
<1>4. JobsAreRunning'
  BY <1>1, <1>2, <1>3 DEF JobsAreRunning, Running
<1>5. i \notin jobs \ {j}
  BY <1>1, <1>2 DEF JobsAreRunning
<1>6. ASSUME NEW g \in Games
      PROVE  Cardinality(JobsOf(g)') = Cardinality(JobsOf(g))
  <2>1. CASE matches[j.match].game = g
    <3>1. JobsOf(g)' = (JobsOf(g) \ {j}) \cup {i} /\ j \in JobsOf(g)
      BY <1>1, <1>3, <2>1 DEF JobsOf
    <3>2. i \notin JobsOf(g) \ {j}
      BY <1>5 DEF JobsOf
    <3>3. /\ IsFiniteSet(JobsOf(g) \ {j})
          /\ Cardinality(JobsOf(g) \ {j}) = Cardinality(JobsOf(g)) - 1
          /\ Cardinality(JobsOf(g)) \in Nat
      BY <3>1, JobsSetsAreFinite, FS_RemoveElement
    <3>4. Cardinality((JobsOf(g) \ {j}) \cup {i}) = Cardinality(JobsOf(g) \ {j}) + 1
      BY <3>2, <3>3, FS_AddElement
    <3> QED BY <3>1, <3>3, <3>4
  <2>2. CASE matches[j.match].game # g
    <3>1. JobsOf(g)' = JobsOf(g)
      BY <1>1, <1>3, <2>2 DEF JobsOf
    <3> QED BY <3>1
  <2> QED BY <2>1, <2>2
<1> QED
  BY <1>2, <1>3, <1>4, <1>6 DEF JobsAreCounted

(* A finished job leaves its match and the counter of its game.             *)
LEMMA FinishedJobsLeave ==
  ASSUME Types, JobsAgreeWithMatches, NEW j \in jobs, finishedJob(j)
  PROVE  JobsAreRunning' /\ JobsAreCounted'
<1> DEFINE n == j.match
<1>1. JobsAreRunning /\ JobsAreCounted
  BY JobsInTwoParts
<1>2. /\ matches[n] \in Match /\ n \in MatchSlots /\ jobs' = jobs \ {j}
      /\ matches'[n] = [matches[n] EXCEPT !.isRunning = FALSE]
      /\ \A m \in MatchSlots \ {n} : matches'[m] = matches[m]
  BY FinishedJob
<1>3. curRunningJobs' = [curRunningJobs EXCEPT
                            ![matches[n].game] = curRunningJobs[matches[n].game] - 1]
  BY FinishedJob
<1>4. \A k \in jobs : k.match \in MatchSlots
  BY DEF Types, PoolTypes, Job
<1>5. ~matches'[n].isRunning /\ matches[n].game \in Games
  BY <1>2 DEF Match
<1>6. \A k \in jobs \ {j} : k.match # n
  BY <1>1 DEF JobsAreRunning
<1> HIDE DEF n
<1>7. JobsAreRunning'
  BY <1>1, <1>2, <1>4, <1>5, <1>6 DEF JobsAreRunning, Running, n
<1>8. ASSUME NEW g \in Games
      PROVE  curRunningJobs'[g] = Cardinality(JobsOf(g)')
  <2>1. JobsOf(g)' = JobsOf(g) \ {j}
    BY <1>2, <1>4, <1>6 DEF JobsOf, n
  <2>2. IsFiniteSet(JobsOf(g)) /\ Cardinality(JobsOf(g)) \in Nat
    BY JobsSetsAreFinite
  <2>3. curRunningJobs[g] = Cardinality(JobsOf(g))
    BY <1>1 DEF JobsAreCounted
  <2>4. CASE matches[n].game = g
    <3>1. j \in JobsOf(g)
      BY <2>4 DEF JobsOf, n
    <3>2. curRunningJobs'[g] = curRunningJobs[g] - 1
      BY <1>3, <1>5, <2>4 DEF Types, PoolTypes
    <3>3. Cardinality(JobsOf(g) \ {j}) = Cardinality(JobsOf(g)) - 1
      BY <2>2, <3>1, FS_RemoveElement
    <3> QED BY <2>1, <2>3, <3>2, <3>3
  <2>5. CASE matches[n].game # g
    <3>1. j \notin JobsOf(g)
      BY <2>5 DEF JobsOf, n
    <3>2. curRunningJobs'[g] = curRunningJobs[g]
      BY <1>3, <1>5, <2>5 DEF Types, PoolTypes
    <3>3. JobsOf(g) \ {j} = JobsOf(g)
      BY <3>1
    <3> QED BY <2>1, <2>3, <3>2, <3>3
  <2> QED BY <2>4, <2>5
<1> QED
  BY <1>7, <1>8 DEF JobsAreCounted

(* A started job is the only one of its match and is counted.               *)
LEMMA StartedJobsAreCounted ==
  ASSUME Types, JobsAgreeWithMatches, NEW m \in MatchSlots, StartBest(m)
  PROVE  JobsAreRunning' /\ JobsAreCounted'
<1>1. JobsAreRunning /\ JobsAreCounted
  BY JobsInTwoParts
<1>2. /\ matches[m] \in Match /\ ~matches[m].isRunning
      /\ matches'[m] = [matches[m] EXCEPT !.isRunning = TRUE,
                                          !.numRuns = matches[m].numRuns - 1]
      /\ \A n \in MatchSlots \ {m} : matches'[n] = CleanedUp[n]
  BY StartedMatch
<1>3. curRunningJobs' = [curRunningJobs EXCEPT
                            ![matches[m].game] = curRunningJobs[matches[m].game] + 1]
  BY StartedMatch
<1>4. PICK live \in SUBSET Int : jobs' = jobs \cup {[match |-> m, live |-> live]}
  BY StartedMatch
<1>5. /\ matches'[m] \in Match /\ matches'[m].isRunning
      /\ matches'[m].game = matches[m].game /\ matches[m].game \in Games
  <2>1. matches[m].numRuns - 1 \in Int
    BY <1>2 DEF Match
  <2>2. \A k \in Match, i \in Int :
          LET r == [k EXCEPT !.isRunning = TRUE, !.numRuns = i] IN
          r \in Match /\ r.isRunning /\ r.game = k.game /\ k.game \in Games
    BY DEF Match
  <2> QED BY <1>2, <2>1, <2>2
<1>6. \A j \in jobs : j.match \in MatchSlots
  BY DEF Types, PoolTypes, Job
<1>7. \A j \in jobs : j.match # m
  BY <1>1, <1>2 DEF JobsAreRunning, Running
<1>8. \A j \in jobs : matches'[j.match] = matches[j.match]
  BY <1>1, <1>2, <1>6, <1>7, CleaningKeepsRunning DEF JobsAreRunning
<1> DEFINE new == [match |-> m, live |-> live]
<1>9. new.match = m /\ new \notin jobs
  BY <1>7
<1> HIDE DEF new
<1>10. JobsAreRunning'
  <2>1. \A n \in MatchSlots \ {m} : Running(n)' => Running(n)
    BY <1>2, CleaningKeepsRunning DEF Running
  <2>2. Running(m)' /\ \A j \in jobs : Running(j.match)'
    BY <1>1, <1>5, <1>8 DEF JobsAreRunning, Running
  <2>3. jobs' = jobs \cup {new}
    BY <1>4 DEF new
  <2> QED BY <1>1, <1>7, <1>9, <2>1, <2>2, <2>3 DEF JobsAreRunning
<1>11. ASSUME NEW g \in Games
       PROVE  curRunningJobs'[g] = Cardinality(JobsOf(g)')
  <2>1. IsFiniteSet(JobsOf(g)) /\ Cardinality(JobsOf(g)) \in Nat
    BY JobsSetsAreFinite
  <2>2. curRunningJobs[g] = Cardinality(JobsOf(g))
    BY <1>1 DEF JobsAreCounted
  <2>3. jobs' = jobs \cup {new}
    BY <1>4 DEF new
  <2>4. CASE matches[m].game = g
    <3>1. JobsOf(g)' = JobsOf(g) \cup {new} /\ new \notin JobsOf(g)
      BY <1>5, <1>8, <1>9, <2>3, <2>4 DEF JobsOf
    <3>2. curRunningJobs'[g] = curRunningJobs[g] + 1
      BY <1>3, <1>5, <2>4 DEF Types, PoolTypes
    <3>3. Cardinality(JobsOf(g) \cup {new}) = Cardinality(JobsOf(g)) + 1
      BY <2>1, <3>1, FS_AddElement
    <3> QED BY <2>2, <3>1, <3>2, <3>3
  <2>5. CASE matches[m].game # g
    <3>1. JobsOf(g)' = JobsOf(g)
      BY <1>5, <1>8, <1>9, <2>3, <2>5 DEF JobsOf
    <3>2. curRunningJobs'[g] = curRunningJobs[g]
      BY <1>3, <1>5, <2>5 DEF Types, PoolTypes
    <3> QED BY <2>2, <3>1, <3>2
  <2> QED BY <2>4, <2>5
<1> QED
  BY <1>10, <1>11 DEF JobsAreCounted

(* JobsAgreeWithMatches is inductive relative to the types.                 *)
LEMMA JobsKeepAgreeing ==
  ASSUME Types, JobsAgreeWithMatches, [Next]_vars
  PROVE  JobsAgreeWithMatches'
<1>1. Types'
  BY TypesAreKept
<1>2. JobsAreRunning' /\ JobsAreCounted'
  <2>1. CASE PoolsStay \/ RemoveClosed \/ UNCHANGED <<matches, jobs, curRunningJobs>>
    <3>1. UNCHANGED <<matches, jobs, curRunningJobs>>
      BY <2>1 DEF PoolsStay, RemoveClosed
    <3>2. RunningStays
      BY <3>1 DEF RunningStays, Running
    <3> QED BY <3>1, <3>2, RunningJobsStay
  <2>2. CASE NothingToStart
    <3>1. matches' = CleanedUp /\ UNCHANGED <<jobs, curRunningJobs>>
      BY <2>2 DEF NothingToStart
    <3>2. RunningStays
      BY <3>1, CleaningKeepsRunning DEF RunningStays, Running
    <3> QED BY <3>1, <3>2, RunningJobsStay
  <2>3. ASSUME UNCHANGED <<jobs, curRunningJobs>>, NEW s \in ConnSlots, LineStep(s)
        PROVE  JobsAreRunning' /\ JobsAreCounted'
    BY <2>3, LinesLeaveRunning, RunningJobsStay
  <2> QED
    BY <2>1, <2>2, <2>3, Steps, ChildExitsKeepJobs, FinishedJobsLeave, StartedJobsAreCounted
<1>3. Queued' = {m \in MatchSlots : matches'[m] \in Match}
  <2>1. NoMatch \notin Match
    BY ServerAssumption DEF ServerAssumption, Match
  <2> QED BY <1>1, <2>1 DEF Queued, Types, PoolTypes
<1>4. \A j \in jobs' : j.match \in MatchSlots
  BY <1>1 DEF Types, PoolTypes, Job
<1> QED
  BY <1>2, <1>3, <1>4 DEF JobsAgreeWithMatches, JobsAreRunning, JobsAreCounted, Running

(* The server starts with empty pools.                                      *)
LEMMA InitialPools == Init => Types /\ JobsAgreeWithMatches /\ Queued = {}
<1> SUFFICES ASSUME Init PROVE Types /\ JobsAgreeWithMatches /\ Queued = {}
  OBVIOUS
<1>1. Types
  <2>1. NewEntry(Clients) \in Clients
    BY ServerAssumption DEF ServerAssumption, NewEntry
  <2>2. conns \in [ConnSlots -> Connection]
    BY <2>1 DEF Init, Connection
  <2> QED BY <2>2, FS_EmptySet DEF Init, Types, PoolTypes, PlaceTypes
<1>2. Queued = {} /\ jobs = {}
  BY DEF Init, Queued
<1>3. \A g : JobsOf(g) = {}
  BY <1>2 DEF JobsOf
<1>4. JobsAgreeWithMatches
  BY <1>2, <1>3, FS_EmptySet DEF JobsAgreeWithMatches, Init
<1> QED
  BY <1>1, <1>2, <1>4

(* However clients, dealers and bots come and go and entries are used       *)
(* again, a running match has one job, a job its match, and curRunningJobs  *)
(* counts them.                                                             *)
THEOREM JobsAlwaysAgree == Spec => []JobsAgreeWithMatches
<1>1. Types /\ JobsAgreeWithMatches /\ [Next]_vars => (Types /\ JobsAgreeWithMatches)'
  BY TypesAreKept, JobsKeepAgreeing
<1> QED
  BY <1>1, InitialPools, PTL DEF Spec

(***************************************************************************)
(* Limits of the games                                                     *)
(***************************************************************************)
JobLimits == \A g \in Games : MaxRunningJobs[g] # 0 => curRunningJobs[g] <= MaxRunningJobs[g]

JobLimitHolds == \A g \in Games : MaxRunningJobs[g] # 0 =>
                    Cardinality(JobsOf(g)) <= MaxRunningJobs[g]

(* No game ever has more jobs than it may.                                  *)
THEOREM GamesKeepTheirLimits == Spec => []JobLimitHolds
<1>1. Init => JobLimits
  BY ServerAssumption DEF ServerAssumption, Init, JobLimits
<1>2. Types /\ JobsAgreeWithMatches /\ JobLimits /\ [Next]_vars => JobLimits'
  <2> SUFFICES ASSUME Types, JobsAgreeWithMatches, JobLimits, [Next]_vars
               PROVE  JobLimits'
    OBVIOUS
  <2>1. CASE UNCHANGED curRunningJobs
    BY <2>1 DEF JobLimits
  <2>2. ASSUME NEW j \in jobs, finishedJob(j)
        PROVE  JobLimits'
    <3>1. matches[j.match].game \in Games
      BY <2>2, FinishedJob DEF Match
    <3>2. curRunningJobs' = [curRunningJobs EXCEPT
            ![matches[j.match].game] = curRunningJobs[matches[j.match].game] - 1]
      BY <2>2, FinishedJob
    <3>3. MaxRunningJobs \in [Games -> Nat] /\ curRunningJobs \in [Games -> Int]
      BY ServerAssumption DEF ServerAssumption, Types, PoolTypes
    <3>4. ASSUME NEW g \in Games
          PROVE  curRunningJobs'[g] \in {curRunningJobs[g], curRunningJobs[g] - 1}
      BY <3>1, <3>2, <3>3, <3>4
    <3>5. ASSUME NEW g \in Games, MaxRunningJobs[g] # 0
          PROVE  curRunningJobs'[g] <= MaxRunningJobs[g]
      <4>1. curRunningJobs[g] <= MaxRunningJobs[g]
        BY <3>5 DEF JobLimits
      <4>2. curRunningJobs[g] \in Int /\ MaxRunningJobs[g] \in Nat
        BY <3>3
      <4> QED BY <3>4, <4>1, <4>2
    <3> QED
      BY <3>5 DEF JobLimits
  <2>3. ASSUME NEW m \in MatchSlots, StartBest(m)
        PROVE  JobLimits'
    <3>1. matches[m].game \in Games /\ ~GameIsBusy(matches[m].game)
      BY <2>3, StartedMatch DEF Match
    <3>2. curRunningJobs' = [curRunningJobs EXCEPT
            ![matches[m].game] = curRunningJobs[matches[m].game] + 1]
      BY <2>3, StartedMatch
    <3>3. MaxRunningJobs \in [Games -> Nat] /\ curRunningJobs \in [Games -> Int]
      BY ServerAssumption DEF ServerAssumption, Types, PoolTypes
    <3>4. ASSUME NEW g \in Games, MaxRunningJobs[g] # 0
          PROVE  curRunningJobs'[g] <= MaxRunningJobs[g]
      <4>1. curRunningJobs[g] <= MaxRunningJobs[g]
        BY <3>4 DEF JobLimits
      <4>2. curRunningJobs[g] \in Int /\ MaxRunningJobs[g] \in Nat
        BY <3>3
      <4>3. CASE g = matches[m].game
        <5>1. curRunningJobs[g] < MaxRunningJobs[g]
          BY <3>1, <3>4, <4>2, <4>3 DEF GameIsBusy
        <5>2. curRunningJobs'[g] = curRunningJobs[g] + 1
          BY <3>2, <3>3, <4>3
        <5> QED BY <4>2, <5>1, <5>2
      <4>4. CASE g # matches[m].game
        BY <3>2, <3>3, <4>1, <4>4
      <4> QED BY <4>3, <4>4
    <3> QED
      BY <3>4 DEF JobLimits
  <2> QED
    BY <2>1, <2>2, <2>3, Steps DEF PoolsStay, ChildExits, RemoveClosed, NothingToStart
<1>3. JobsAgreeWithMatches /\ JobLimits => JobLimitHolds
  BY DEF JobsAgreeWithMatches, JobLimits, JobLimitHolds
<1>4. Types /\ JobsAgreeWithMatches /\ [Next]_vars => (Types /\ JobsAgreeWithMatches)'
  BY TypesAreKept, JobsKeepAgreeing
<1> QED
  BY <1>1, <1>2, <1>3, <1>4, InitialPools, PTL DEF Spec

(***************************************************************************)
(* Connections                                                             *)
(***************************************************************************)
HasLocal(m) == \E p \in DOMAIN matches[m].seats : matches[m].seats[p]
Ready(m)    == matches[m] \in Match /\ matches[m].numRuns > 0 /\ HasLocal(m)
Served(m)   == /\ conns[matches[m].conn].status = "OKAY"
               /\ UserOf[conns[matches[m].conn].client] = matches[m].user

ReadyAreServed == \A m \in MatchSlots : Ready(m) => Served(m)

(* ReadyAreServed says the same as the checked property.                    *)
LEMMA ServedIsTheProperty ==
  ASSUME Types
  PROVE  ReadyAreServed <=> ReadyMatchesKeepTheirConnection
<1>1. Queued = {m \in MatchSlots : matches[m] \in Match}
  BY QueuedAreMatches DEF Types, PoolTypes
<1>2. ASSUME NEW m \in MatchSlots, matches[m] \in Match
      PROVE  HasLocal(m) <=> TRUE \in Range(matches[m].seats)
  <2>1. \A p \in DOMAIN matches[m].seats : matches[m].seats[p] \in BOOLEAN
    BY <1>2 DEF Match
  <2> QED BY <2>1 DEF HasLocal, Range
<1> QED
  BY <1>1, <1>2 DEF ReadyAreServed, ReadyMatchesKeepTheirConnection, Ready, Served

(* A match gets no new connection, seats or runs while it is queued.        *)
MatchesOnlyFade ==
    \A m \in MatchSlots : Ready(m)' =>
        /\ Ready(m) /\ matches'[m].conn = matches[m].conn
        /\ matches'[m].user = matches[m].user

(* Fewer ready matches ask less of the connections.                         *)
LEMMA FadingKeepsServed ==
  ASSUME MatchesOnlyFade, ReadyAreServed, conns' = conns
  PROVE  ReadyAreServed'
BY DEF MatchesOnlyFade, ReadyAreServed, Served

(* Cleaning up only takes ready matches away.                               *)
LEMMA CleaningFades ==
  ASSUME Types, NothingToStart
  PROVE  MatchesOnlyFade
BY CleaningKeepsRunning DEF NothingToStart, MatchesOnlyFade, Ready, HasLocal

(* Starting one makes no other ready.                                       *)
LEMMA StartingFades ==
  ASSUME Types, NEW m \in MatchSlots, StartBest(m)
  PROVE  MatchesOnlyFade
<1>1. /\ matches[m] \in Match /\ matches[m].numRuns > 0
      /\ matches'[m] = [matches[m] EXCEPT !.isRunning = TRUE,
                                          !.numRuns = matches[m].numRuns - 1]
      /\ \A n \in MatchSlots \ {m} : matches'[n] = CleanedUp[n]
  BY StartedMatch
<1>2. /\ matches'[m].seats = matches[m].seats /\ matches'[m].conn = matches[m].conn
      /\ matches'[m].user = matches[m].user
  BY <1>1 DEF Match
<1>3. Ready(m)' => Ready(m)
  BY <1>1, <1>2 DEF Ready, HasLocal
<1>4. \A n \in MatchSlots \ {m} : Ready(n)' => matches'[n] = matches[n]
  BY <1>1, CleaningKeepsRunning DEF Ready
<1>5. \A n \in MatchSlots \ {m} : Ready(n)' => Ready(n)
  BY <1>4 DEF Ready, HasLocal
<1> QED
  BY <1>2, <1>3, <1>4, <1>5 DEF MatchesOnlyFade

(* Neither does the end of a job.                                           *)
LEMMA FinishingFades ==
  ASSUME Types, JobsAgreeWithMatches, NEW j \in jobs, finishedJob(j)
  PROVE  MatchesOnlyFade
<1> DEFINE n == j.match
<1>1. /\ matches[n] \in Match /\ n \in MatchSlots
      /\ matches'[n] = [matches[n] EXCEPT !.isRunning = FALSE]
      /\ \A m \in MatchSlots \ {n} : matches'[m] = matches[m]
  BY FinishedJob
<1> HIDE DEF n
<1>2. /\ matches'[n].seats = matches[n].seats /\ matches'[n].conn = matches[n].conn
      /\ matches'[n].user = matches[n].user /\ matches'[n].numRuns = matches[n].numRuns
  BY <1>1 DEF Match
<1>3. \A m \in MatchSlots : Ready(m)' => Ready(m)
  BY <1>1, <1>2 DEF Ready, HasLocal
<1> QED
  BY <1>1, <1>2, <1>3 DEF MatchesOnlyFade

(* A line makes a match ready for its own connection only, and closing one  *)
(* withdraws its matches.                                                   *)
LEMMA LinesKeepServed ==
  ASSUME Types, ReadyAreServed, NEW s \in ConnSlots, LineStep(s)
  PROVE  ReadyAreServed'
<1>1. matches \in [MatchSlots -> Match \cup {NoMatch}] /\ conns \in [ConnSlots -> Connection]
  BY DEF Types, PoolTypes
<1>2. Queued = {m \in MatchSlots : matches[m] \in Match} /\ NoMatch \notin Match
  BY <1>1, QueuedAreMatches, ServerAssumption DEF ServerAssumption, Match
<1>3. CASE conns' = conns /\ matches' = matches
  BY <1>3 DEF ReadyAreServed, Ready, Served, HasLocal
<1>4. \A x : /\ conns' = [conns EXCEPT ![s].status = x]
             => /\ conns'[s].status = x
                /\ \A t \in ConnSlots : /\ conns'[t].client = conns[t].client
                                        /\ t # s => conns'[t] = conns[t]
  BY <1>1 DEF Connection
<1>5. \A k \in Match : k.conn \in ConnSlots
  BY DEF Match
<1>6. CASE /\ conns[s].status = "UNVALIDATED"
           /\ conns' = [conns EXCEPT ![s].status = "OKAY"] /\ matches' = matches
  <2>1. \A m \in MatchSlots : Ready(m)' => Ready(m) /\ Served(m)
    BY <1>6 DEF ReadyAreServed, Ready, HasLocal
  <2> QED BY <1>4, <1>5, <1>6, <2>1 DEF ReadyAreServed, Ready, Served
<1>7. CASE /\ conns' = [conns EXCEPT ![s].status = "CLOSED"]
           /\ matches' = [m \in MatchSlots |->
                            IF m \in Queued /\ matchUsesConnection(m, s)
                            THEN [matches[m] EXCEPT !.numRuns = 0] ELSE matches[m]]
  <2> SUFFICES ASSUME NEW m \in MatchSlots, Ready(m)'
               PROVE  Served(m)'
    BY DEF ReadyAreServed
  <2>1. ~(m \in Queued /\ matchUsesConnection(m, s))
    <3>1. \A k \in Match : [k EXCEPT !.numRuns = 0].numRuns = 0
      BY DEF Match
    <3>2. CASE m \in Queued /\ matchUsesConnection(m, s)
      <4>1. matches'[m].numRuns = 0
        BY <1>2, <1>7, <3>1, <3>2
      <4> QED BY <4>1 DEF Ready
    <3> QED BY <3>2
  <2>2. matches'[m] = matches[m]
    BY <1>7, <2>1
  <2>3. Ready(m) /\ Served(m) /\ matches[m].conn \in ConnSlots
    BY <1>5, <2>2 DEF ReadyAreServed, Ready, HasLocal
  <2>4. matches[m].conn # s
    BY <1>2, <2>1, <2>3 DEF Ready, HasLocal, matchUsesConnection
  <2> QED BY <1>4, <1>7, <2>2, <2>3, <2>4 DEF Served
<1>8. CASE /\ conns' = conns /\ conns[s].status = "OKAY"
           /\ \E m \in MatchSlots \ Queued, k \in Match :
                /\ matches' = [matches EXCEPT ![m] = k]
                /\ k.conn = s /\ k.user = UserOf[conns[s].client] /\ ~k.isRunning
  <2>1. PICK m \in MatchSlots, k \in Match :
                /\ matches' = [matches EXCEPT ![m] = k]
                /\ k.conn = s /\ k.user = UserOf[conns[s].client]
    BY <1>8
  <2>2. matches'[m] = k /\ \A n \in MatchSlots \ {m} : matches'[n] = matches[n]
    BY <1>1, <2>1
  <2>3. Served(m)'
    BY <1>8, <2>1, <2>2 DEF Served
  <2>4. \A n \in MatchSlots \ {m} : Ready(n)' => Served(n)'
    BY <1>8, <2>2 DEF ReadyAreServed, Ready, Served, HasLocal
  <2> QED BY <2>3, <2>4 DEF ReadyAreServed
<1> QED
  BY <1>3, <1>6, <1>7, <1>8 DEF LineStep

(* ReadyAreServed is inductive relative to the types and the jobs.          *)
LEMMA ServedIsKept ==
  ASSUME Types, JobsAgreeWithMatches, ReadyAreServed, [Next]_vars
  PROVE  ReadyAreServed'
<1>1. CASE PoolsStay
  BY <1>1 DEF PoolsStay, ReadyAreServed, Ready, Served, HasLocal
<1>2. ASSUME NEW j \in jobs, NEW x, ChildExits(j, x)
      PROVE  ReadyAreServed'
  BY <1>2 DEF ChildExits, ReadyAreServed, Ready, Served, HasLocal
<1>3. ASSUME NEW j \in jobs, finishedJob(j)
      PROVE  ReadyAreServed'
  <2>1. conns' = conns
    BY <1>3 DEF finishedJob
  <2> QED BY <1>3, <2>1, FinishingFades, FadingKeepsServed
<1>4. ASSUME UNCHANGED matches,
             \A s \in ConnSlots : conns[s].status = "OKAY" => conns'[s] = conns[s]
      PROVE  ReadyAreServed'
  <2>1. \A k \in Match : k.conn \in ConnSlots
    BY DEF Match
  <2> QED BY <1>4, <2>1 DEF ReadyAreServed, Ready, Served, HasLocal
<1>5. CASE RemoveClosed
  <2>1. \A s \in ConnSlots : conns[s].status = "OKAY" => conns'[s] = conns[s]
    BY <1>5 DEF RemoveClosed
  <2> QED BY <1>4, <1>5, <2>1 DEF RemoveClosed
<1>6. ASSUME UNCHANGED matches, NEW s \in FreeConn, NEW c \in Clients,
             conns' = addConnection(s, c)
      PROVE  ReadyAreServed'
  <2>1. \A t \in ConnSlots : conns[t].status = "OKAY" => conns'[t] = conns[t]
    BY <1>6 DEF addConnection, FreeConn, Types, PoolTypes
  <2> QED BY <1>4, <1>6, <2>1
<1>7. ASSUME NEW m \in MatchSlots, StartBest(m)
      PROVE  ReadyAreServed'
  <2>1. conns' = conns
    BY <1>7 DEF StartBest
  <2> QED BY <1>7, <2>1, StartingFades, FadingKeepsServed
<1>8. CASE NothingToStart
  <2>1. conns' = conns
    BY <1>8 DEF NothingToStart
  <2> QED BY <1>8, <2>1, CleaningFades, FadingKeepsServed
<1> QED
  BY <1>1, <1>2, <1>3, <1>5, <1>6, <1>7, <1>8, LinesKeepServed, Steps

(* A match that may be started belongs to an open connection of the user    *)
(* who asked for it, in whatever order connections close, entries are freed *)
(* and used again.                                                          *)
THEOREM ReadyMatchesAreServed == Spec => []ReadyMatchesKeepTheirConnection
<1>1. Init => ReadyAreServed
  <2> SUFFICES ASSUME Init PROVE ReadyAreServed
    OBVIOUS
  <2>1. NoMatch \notin Match
    BY ServerAssumption DEF ServerAssumption, Match
  <2> QED BY <2>1 DEF Init, ReadyAreServed, Ready
<1>2. Types /\ JobsAgreeWithMatches /\ [Next]_vars => (Types /\ JobsAgreeWithMatches)'
  BY TypesAreKept, JobsKeepAgreeing
<1>3. Types /\ ReadyAreServed => ReadyMatchesKeepTheirConnection
  BY ServedIsTheProperty
<1> QED
  BY <1>1, <1>2, <1>3, ServedIsKept, InitialPools, PTL DEF Spec

(***************************************************************************)
(* Bots of all jobs together                                               *)
(***************************************************************************)
(* The bots of each job; BotsRunning is their sum.                          *)
Bots == [j \in jobs |-> botsInMatch(j.match)]

(* The fold of the library is the sum of SumProofs.                         *)
LEMMA BotsRunningIsTotal == BotsRunning = Total(Bots, jobs)
<1> DEFINE B(F) == [s \in SUBSET jobs |->
                      IF s = {} THEN 0 ELSE botsInMatch(AnElement(s).match) + F[s \ {AnElement(s)}]]
<1>1. BotsRunning = (CHOOSE F : F = B(F))[jobs]
  BY DEF BotsRunning, MapThenSumSet, MapThenFoldSet, AnElement
<1>2. ASSUME NEW F
      PROVE  B(F) = [s \in SUBSET jobs |-> IF s = {} THEN 0 ELSE Bots[AnElement(s)] + F[s \ {AnElement(s)}]]
  <2>1. ASSUME NEW s \in SUBSET jobs, s # {} PROVE Bots[AnElement(s)] = botsInMatch(AnElement(s).match)
    BY <2>1 DEF AnElement, Bots
  <2> HIDE DEF Bots
  <2> QED BY <2>1
<1>3. TotalFun(Bots, jobs) = CHOOSE F : F = B(F)
  <2> HIDE DEF B
  <2> QED BY <1>2 DEF TotalFun
<1> QED
  BY <1>1, <1>3 DEF Total

(* The second half of LimitsHold, inductive with JobsAgreeWithMatches: one  *)
(* job to a match makes every job a summand of its own.                     *)
BotLimit == MaxRunningBots # 0 => Total(Bots, jobs) <= MaxRunningBots

(* The bots of a match are counted by a number, which its seats determine.  *)
LEMMA BotsOfAMatch ==
  ASSUME NEW m
  PROVE  /\ matches[m] \in Match => botsInMatch(m) \in Nat
         /\ matches'[m].seats = matches[m].seats => botsInMatch(m)' = botsInMatch(m)
<1>1. ASSUME matches[m] \in Match PROVE botsInMatch(m) \in Nat
  <2>1. matches[m].seats \in Seq(BOOLEAN)
    BY <1>1 DEF Match
  <2>2. DOMAIN matches[m].seats = 1 .. Len(matches[m].seats) /\ Len(matches[m].seats) \in Nat
    BY <2>1
  <2>3. IsFiniteSet(BotSeats(matches[m].seats))
    <3>1. IsFiniteSet(DOMAIN matches[m].seats)
      BY <2>2, FS_Interval
    <3>2. BotSeats(matches[m].seats) \subseteq DOMAIN matches[m].seats
      BY DEF BotSeats
    <3> QED BY <3>1, <3>2, FS_Subset
  <2> QED BY <2>3, FS_CardinalityType DEF botsInMatch
<1>2. ASSUME matches'[m].seats = matches[m].seats PROVE botsInMatch(m)' = botsInMatch(m)
  BY <1>2 DEF botsInMatch
<1> QED
  BY <1>1, <1>2

(* A match keeps its seats while it has a job.                              *)
LEMMA SeatsStay ==
  ASSUME Types, JobsAgreeWithMatches, [Next]_vars, NEW j \in jobs
  PROVE  matches[j.match] \in Match /\ matches'[j.match].seats = matches[j.match].seats
<1> DEFINE n == j.match
<1>1. matches \in [MatchSlots -> Match \cup {NoMatch}] /\ n \in MatchSlots /\ NoMatch \notin Match
  BY ServerAssumption DEF ServerAssumption, Types, PoolTypes, Job, Match
<1>2. matches[n] \in Match /\ matches[n].isRunning /\ Running(n)
  BY JobsInTwoParts DEF JobsAreRunning, Running
<1>3. Queued = {m \in MatchSlots : matches[m] \in Match}
  BY <1>1, QueuedAreMatches
<1> HIDE DEF n
<1>4. ASSUME matches' = matches PROVE matches'[n].seats = matches[n].seats
  BY <1>4
<1>5. ASSUME NEW i \in jobs, finishedJob(i) PROVE matches'[n].seats = matches[n].seats
  <2>1. /\ matches[i.match] \in Match
        /\ matches'[i.match] = [matches[i.match] EXCEPT !.isRunning = FALSE]
        /\ \A m \in MatchSlots \ {i.match} : matches'[m] = matches[m]
    BY <1>5, FinishedJob
  <2>2. \A k \in Match : [k EXCEPT !.isRunning = FALSE].seats = k.seats
    BY DEF Match
  <2> QED BY <1>1, <2>1, <2>2
<1>6. ASSUME NEW m \in MatchSlots, StartBest(m) PROVE matches'[n].seats = matches[n].seats
  <2>1. /\ ~matches[m].isRunning
        /\ \A k \in MatchSlots \ {m} : matches'[k] = CleanedUp[k]
    BY <1>6, StartedMatch
  <2>2. n # m
    BY <1>2, <2>1
  <2>3. matches'[n] = matches[n]
    BY <1>1, <1>2, <2>1, <2>2, CleaningKeepsRunning
  <2> QED BY <2>3
<1>7. ASSUME NothingToStart PROVE matches'[n].seats = matches[n].seats
  BY <1>1, <1>2, <1>7, CleaningKeepsRunning DEF NothingToStart
<1>8. ASSUME NEW s \in ConnSlots, LineStep(s) PROVE matches'[n].seats = matches[n].seats
  <2>1. \A k \in Match : [k EXCEPT !.numRuns = 0].seats = k.seats
    BY DEF Match
  <2>2. CASE matches' = [m \in MatchSlots |->
                           IF m \in Queued /\ matchUsesConnection(m, s)
                           THEN [matches[m] EXCEPT !.numRuns = 0] ELSE matches[m]]
    BY <1>1, <1>2, <2>1, <2>2
  <2>3. CASE \E m \in MatchSlots \ Queued, k \in Match : matches' = [matches EXCEPT ![m] = k]
    BY <1>1, <1>2, <1>3, <2>3
  <2> QED BY <1>4, <1>8, <2>2, <2>3 DEF LineStep
<1>9. matches'[n].seats = matches[n].seats
  BY <1>4, <1>5, <1>6, <1>7, <1>8, Steps DEF PoolsStay, ChildExits, RemoveClosed
<1> QED
  BY <1>2, <1>9 DEF n

(* What a step does to the jobs.                                            *)
LEMMA JobSteps ==
  ASSUME Types, JobsAgreeWithMatches, [Next]_vars
  PROVE  \/ jobs' = jobs
         \/ \E j \in jobs : \E k \in Job : k.match = j.match /\ jobs' = (jobs \ {j}) \cup {k}
         \/ \E j \in jobs : jobs' = jobs \ {j}
         \/ \E m \in MatchSlots : StartBest(m)
<1>1. ASSUME NEW j \in jobs, NEW x, ChildExits(j, x)
      PROVE  \E k \in Job : k.match = j.match /\ jobs' = (jobs \ {j}) \cup {k}
  BY <1>1, ChildExit
<1>2. ASSUME NEW j \in jobs, finishedJob(j) PROVE jobs' = jobs \ {j}
  BY <1>2, FinishedJob
<1> QED
  BY <1>1, <1>2, Steps DEF PoolsStay, RemoveClosed, NothingToStart

(* Jobs that end give bots back; one that starts was seen to fit.           *)
LEMMA BotLimitIsKept ==
  ASSUME Types, JobsAgreeWithMatches, BotLimit, [Next]_vars
  PROVE  BotLimit'
<1> SUFFICES ASSUME MaxRunningBots # 0 PROVE Total(Bots', jobs') <= MaxRunningBots
  BY DEF BotLimit
<1> DEFINE B == Bots
           C == Bots'
<1>1. /\ IsFiniteSet(jobs) /\ MaxRunningBots \in Nat /\ Total(B, jobs) <= MaxRunningBots
      /\ \A j \in jobs : j.match \in MatchSlots
  BY ServerAssumption DEF ServerAssumption, Types, PoolTypes, Job, BotLimit
<1>2. \A j \in jobs : B[j] = botsInMatch(j.match) /\ B[j] \in Nat
  <2>1. ASSUME NEW j \in jobs PROVE botsInMatch(j.match) \in Nat
    BY SeatsStay, BotsOfAMatch
  <2> QED BY <2>1 DEF Bots
<1>3. \A j \in jobs' : C[j] = botsInMatch(j.match)'
  BY DEF Bots
<1>4. \A j \in jobs : botsInMatch(j.match)' = B[j]
  <2>1. ASSUME NEW j \in jobs PROVE botsInMatch(j.match)' = botsInMatch(j.match)
    BY SeatsStay, BotsOfAMatch
  <2> QED BY <1>2, <2>1
<1>5. \A j, k \in jobs : j.match = k.match => j = k
  BY DEF JobsAgreeWithMatches
<1>6. \A j \in jobs : /\ IsFiniteSet(jobs \ {j}) /\ Total(B, jobs \ {j}) \in Int
                      /\ Total(B, jobs) = B[j] + Total(B, jobs \ {j})
  <2>1. ASSUME NEW j \in jobs PROVE IsFiniteSet(jobs \ {j}) /\ Total(B, jobs \ {j}) \in Int
    <3>1. IsFiniteSet(jobs \ {j})
      BY <1>1, FS_Subset
    <3>2. \A k \in jobs \ {j} : B[k] \in Int
      BY <1>2
    <3> QED BY <3>1, <3>2, TotalIsInt
  <2>2. \A k \in jobs : B[k] \in Int
    BY <1>2
  <2> QED BY <1>1, <2>1, <2>2, TotalRemove
<1>7. Total(B, jobs) \in Int
  <2>1. \A k \in jobs : B[k] \in Int
    BY <1>2
  <2> QED BY <1>1, <2>1, TotalIsInt
<1>8. CASE jobs' = jobs
  <2>1. \A j \in jobs : C[j] = B[j]
    BY <1>3, <1>4, <1>8
  <2>2. Total(C, jobs) = Total(B, jobs)
    BY <1>1, <2>1, TotalAgrees
  <2> QED BY <1>1, <1>8, <2>2
<1> HIDE DEF B, C
<1>9. ASSUME NEW j \in jobs, NEW k \in Job, k.match = j.match, jobs' = (jobs \ {j}) \cup {k}
      PROVE  Total(C, jobs') <= MaxRunningBots
  <2>1. k \notin jobs \ {j}
    BY <1>5, <1>9
  <2>2. \A i \in jobs \ {j} : C[i] = B[i] /\ C[i] \in Int
    BY <1>2, <1>3, <1>4, <1>9
  <2>3. C[k] = B[j] /\ C[k] \in Int
    BY <1>2, <1>3, <1>4, <1>9
  <2>4. Total(C, jobs \ {j}) = Total(B, jobs \ {j})
    BY <1>6, <2>2, TotalAgrees
  <2>5. Total(C, (jobs \ {j}) \cup {k}) = C[k] + Total(C, jobs \ {j})
    BY <1>6, <2>1, <2>2, <2>3, TotalAdd
  <2> QED BY <1>1, <1>6, <1>9, <2>3, <2>4, <2>5
<1>10. ASSUME NEW j \in jobs, jobs' = jobs \ {j}
       PROVE  Total(C, jobs') <= MaxRunningBots
  <2>1. \A i \in jobs \ {j} : C[i] = B[i]
    BY <1>3, <1>4, <1>10
  <2>2. Total(C, jobs \ {j}) = Total(B, jobs \ {j})
    BY <1>6, <2>1, TotalAgrees
  <2>3. B[j] \in Nat /\ Total(B, jobs) = B[j] + Total(B, jobs \ {j}) /\ Total(B, jobs \ {j}) \in Int
    BY <1>2, <1>6
  <2>4. Total(B, jobs \ {j}) <= MaxRunningBots
    BY <1>1, <2>3
  <2> QED BY <1>10, <2>2, <2>4
<1>11. ASSUME NEW m \in MatchSlots, StartBest(m)
       PROVE  Total(C, jobs') <= MaxRunningBots
  <2>1. PICK live \in SUBSET Int : jobs' = jobs \cup {[match |-> m, live |-> live]}
    BY <1>11, StartedMatch
  <2> DEFINE k == [match |-> m, live |-> live]
  <2>2. /\ matches[m] \in Match /\ ~matches[m].isRunning
        /\ matches'[m] = [matches[m] EXCEPT !.isRunning = TRUE,
                                            !.numRuns = matches[m].numRuns - 1]
    BY <1>11, StartedMatch
  <2>3. matches'[m].seats = matches[m].seats
    <3>1. \A h \in Match : \A i : [h EXCEPT !.isRunning = TRUE, !.numRuns = i].seats = h.seats
      BY DEF Match
    <3> QED BY <2>2, <3>1
  <2>4. k \notin jobs
    <3>1. k.match = m
      OBVIOUS
    <3>2. \A j \in jobs : matches[j.match].isRunning
      BY DEF JobsAgreeWithMatches
    <3> HIDE DEF k
    <3> QED BY <2>2, <3>1, <3>2
  <2>5. C[k] = botsInMatch(m) /\ botsInMatch(m) \in Nat
    <3>1. botsInMatch(m)' = botsInMatch(m) /\ botsInMatch(m) \in Nat
      BY <2>2, <2>3, BotsOfAMatch
    <3>2. k \in jobs' /\ k.match = m
      BY <2>1
    <3> HIDE DEF k
    <3> QED BY <1>3, <3>1, <3>2
  <2>6. \A i \in jobs : C[i] = B[i] /\ C[i] \in Int
    BY <1>2, <1>3, <1>4, <2>1
  <2>7. Total(C, jobs) = Total(B, jobs)
    BY <1>1, <2>6, TotalAgrees
  <2>8. Total(C, jobs \cup {k}) = C[k] + Total(C, jobs)
    <3>1. C[k] \in Int
      BY <2>5
    <3> HIDE DEF k
    <3> QED BY <1>1, <2>4, <2>6, <3>1, TotalAdd
  <2>9. botsInMatch(m) + Total(B, jobs) <= MaxRunningBots
    BY <1>11, BotsRunningIsTotal DEF StartBest, BotsFit, B
  <2> QED BY <2>1, <2>5, <2>7, <2>8, <2>9
<1> QED
  BY <1>8, <1>9, <1>10, <1>11, JobSteps DEF C

(* No game has more jobs, and all jobs together no more bots, than the      *)
(* configuration allows.                                                    *)
THEOREM LimitsAlwaysHold == Spec => []LimitsHold
<1>1. Init => BotLimit
  BY TotalEmpty, ServerAssumption DEF Init, BotLimit, ServerAssumption
<1>2. Types /\ JobsAgreeWithMatches /\ [Next]_vars => (Types /\ JobsAgreeWithMatches)'
  BY TypesAreKept, JobsKeepAgreeing
<1>3. Types /\ JobsAgreeWithMatches /\ BotLimit /\ [Next]_vars => BotLimit'
  BY BotLimitIsKept
<1>4. BotLimit /\ JobLimitHolds => LimitsHold
  BY BotsRunningIsTotal DEF BotLimit, JobLimitHolds, LimitsHold
<1> QED
  BY <1>1, <1>2, <1>3, <1>4, InitialPools, GamesKeepTheirLimits, PTL DEF Spec

(***************************************************************************)
(* What is on the way from a client                                        *)
(***************************************************************************)
(* s is what script says from place k + 1 on.                               *)
Piece(script, k, s) ==
    /\ k + Len(s) <= Len(script)
    /\ \A i \in 1 .. Len(s) : s[i] = script[k + i]

(* All that has been taken is at places up to k.                            *)
Behind(script, taken, k) == \A i \in DOMAIN script : script[i] \in taken => i <= k

(* The server's buffer, the wire and what is still to be sent follow each   *)
(* other in the script, behind every request of it that has been taken.     *)
OnTheWay(script, taken, k, b, w, u) ==
    /\ Piece(script, k, b)
    /\ Piece(script, k + Len(b), w)
    /\ Piece(script, k + Len(b) + Len(w), u)
    /\ Behind(script, taken, k)

(* The first line of what has been read, and what follows it.               *)
LEMMA LinesAreCut ==
  ASSUME NEW data \in Seq(Symbols), HasLine(data)
  PROVE  \E n \in 1 .. Len(data) :
           /\ FirstLine(data) = SubSeq(data, 1, n - 1)
           /\ AfterLine(data) \in Seq(Symbols)
           /\ n + Len(AfterLine(data)) = Len(data)
           /\ \A i \in 1 .. Len(AfterLine(data)) : AfterLine(data)[i] = data[n + i]
<1> DEFINE I == {i \in 1 .. Len(data) : data[i] = NL}
           n == Min(I)
<1>1. Len(data) \in Nat /\ DOMAIN data = 1 .. Len(data)
  OBVIOUS
<1>2. I \in SUBSET Nat /\ I # {}
  BY <1>1 DEF HasLine
<1>3. n \in I
  <2>1. \E x \in I : \A y \in I : x <= y
    BY <1>2, LeastNatural
  <2> QED BY <2>1 DEF Min
<1>4. SelectInSeq(data, LAMBDA x : x = NL) = n
  BY <1>2 DEF SelectInSeq
<1>5. FirstLine(data) = SubSeq(data, 1, n - 1) /\ AfterLine(data) = SubSeq(data, n + 1, Len(data))
  BY <1>4 DEF FirstLine, AfterLine
<1>6. n \in 1 .. Len(data)
  BY <1>3
<1> DEFINE z == Len(data)
           t == SubSeq(data, n + 1, z)
<1>7. t \in Seq(Symbols) /\ Len(t) = z - n /\ \A i \in 1 .. z - n : t[i] = data[n + i]
  <2>1. \A i \in 1 .. z : data[i] \in Symbols
    BY <1>1
  <2> HIDE DEF n, I, z
  <2>2. z \in Nat /\ n \in 1 .. z
    BY <1>1, <1>6 DEF z
  <2>3. n + 1 \in Int /\ z \in Int /\ \A i \in n + 1 .. z : data[i] \in Symbols
    BY <2>1, <2>2
  <2>4. /\ t \in Seq(Symbols)
        /\ Len(t) = IF n + 1 <= z THEN z - (n + 1) + 1 ELSE 0
        /\ \A i \in 1 .. z - (n + 1) + 1 : t[i] = data[n + 1 + i - 1]
    BY <2>3, SubSeqProperties
  <2> HIDE DEF t
  <2>5. Len(t) = z - n
    BY <2>2, <2>4
  <2>6. ASSUME NEW i \in 1 .. z - n PROVE t[i] = data[n + i]
    <3>1. i \in 1 .. z - (n + 1) + 1 /\ n + 1 + i - 1 = n + i
      BY <2>2
    <3> QED BY <2>4, <3>1
  <2> QED BY <2>4, <2>5, <2>6
<1>8. t = AfterLine(data)
  BY <1>5
<1> HIDE DEF n, I, t
<1>9. n + Len(t) = Len(data) /\ \A i \in 1 .. Len(t) : t[i] = data[n + i]
  BY <1>1, <1>6, <1>7
<1> QED
  BY <1>5, <1>6, <1>7, <1>8, <1>9

(* Pieces that follow each other, and the symbols that go from one to the   *)
(* next.                                                                    *)
LEMMA PiecesJoin ==
  ASSUME NEW sc \in Seq(Symbols), NEW k \in Nat, NEW b \in Seq(Symbols), NEW w \in Seq(Symbols),
         Piece(sc, k, b), Piece(sc, k + Len(b), w)
  PROVE  b \o w \in Seq(Symbols) /\ Len(b \o w) = Len(b) + Len(w) /\ Piece(sc, k, b \o w)
<1> DEFINE g == b \o w
           lb == Len(b)
           lw == Len(w)
<1>1. /\ g \in Seq(Symbols) /\ Len(g) = lb + lw /\ lb \in Nat /\ lw \in Nat
      /\ \A i \in 1 .. lb : g[i] = b[i]
      /\ \A i \in 1 .. lw : g[lb + i] = w[i]
  OBVIOUS
<1>2. /\ k + lb + lw <= Len(sc) /\ Len(sc) \in Nat
      /\ \A i \in 1 .. lb : b[i] = sc[k + i]
      /\ \A i \in 1 .. lw : w[i] = sc[k + lb + i]
  BY DEF Piece
<1> HIDE DEF g, lb, lw
<1>3. ASSUME NEW i \in 1 .. Len(g) PROVE g[i] = sc[k + i]
  <2>1. CASE i \in 1 .. lb
    BY <1>1, <1>2, <2>1
  <2>2. ASSUME NEW j \in 1 .. lw, i = lb + j PROVE g[i] = sc[k + i]
    <3>1. k + i = k + lb + j
      BY <1>1, <2>2
    <3> QED BY <1>1, <1>2, <2>2, <3>1
  <2>3. i \in 1 .. lb \/ (i - lb \in 1 .. lw /\ i = lb + (i - lb))
    BY <1>1
  <2> QED BY <2>1, <2>2, <2>3
<1>4. k + Len(g) <= Len(sc)
  BY <1>1, <1>2
<1>5. Piece(sc, k, g)
  BY <1>3, <1>4 DEF Piece
<1> QED
  BY <1>1, <1>5 DEF g, lb, lw

(* A symbol that goes from one piece to the one before it.                  *)
LEMMA PiecesPass ==
  ASSUME NEW sc \in Seq(Symbols), NEW k \in Nat, NEW w \in Seq(Symbols), NEW u \in Seq(Symbols),
         Piece(sc, k, w), Piece(sc, k + Len(w), u), u # << >>
  PROVE  /\ Append(w, Head(u)) \in Seq(Symbols) /\ Tail(u) \in Seq(Symbols)
         /\ Piece(sc, k, Append(w, Head(u)))
         /\ Piece(sc, k + Len(Append(w, Head(u))), Tail(u))
<1> DEFINE g == Append(w, Head(u))
           t == Tail(u)
           lw == Len(w)
           lu == Len(u)
<1>1. /\ g \in Seq(Symbols) /\ t \in Seq(Symbols) /\ lw \in Nat /\ lu \in Nat /\ lu >= 1
      /\ Len(g) = lw + 1 /\ Len(t) = lu - 1
      /\ \A i \in 1 .. lw : g[i] = w[i]
      /\ g[lw + 1] = u[1]
      /\ \A i \in 1 .. lu - 1 : t[i] = u[i + 1]
  OBVIOUS
<1>2. /\ k + lw + lu <= Len(sc) /\ Len(sc) \in Nat
      /\ \A i \in 1 .. lw : w[i] = sc[k + i]
      /\ \A i \in 1 .. lu : u[i] = sc[k + lw + i]
  BY DEF Piece
<1> HIDE DEF g, t, lw, lu
<1>3. Piece(sc, k, g)
  <2>1. ASSUME NEW i \in 1 .. Len(g) PROVE g[i] = sc[k + i]
    <3>1. CASE i \in 1 .. lw
      BY <1>1, <1>2, <3>1
    <3>2. CASE i = lw + 1
      <4>1. k + i = k + lw + 1 /\ 1 \in 1 .. lu
        BY <1>1, <3>2
      <4>2. u[1] = sc[k + lw + 1]
        BY <1>2, <4>1
      <4> QED BY <1>1, <3>2, <4>1, <4>2
    <3> QED BY <1>1, <3>1, <3>2
  <2>2. k + Len(g) <= Len(sc)
    BY <1>1, <1>2
  <2> QED BY <2>1, <2>2 DEF Piece
<1>4. Piece(sc, k + Len(g), t)
  <2>1. ASSUME NEW i \in 1 .. Len(t) PROVE t[i] = sc[k + Len(g) + i]
    <3>1. i \in 1 .. lu - 1 /\ i + 1 \in 1 .. lu /\ k + Len(g) + i = k + lw + (i + 1)
      BY <1>1
    <3>2. u[i + 1] = sc[k + lw + (i + 1)]
      BY <1>2, <3>1
    <3> QED BY <1>1, <3>1, <3>2
  <2>2. k + Len(g) + Len(t) <= Len(sc)
    BY <1>1, <1>2
  <2> QED BY <2>1, <2>2 DEF Piece
<1> QED
  BY <1>1, <1>3, <1>4 DEF g, t

(* The line at the front of a piece and what is behind it; a line of one    *)
(* symbol is the next of the script.                                        *)
LEMMA PiecesAreCut ==
  ASSUME NEW sc \in Seq(Symbols), NEW k \in Nat, NEW s \in Seq(Symbols),
         Piece(sc, k, s), HasLine(s)
  PROVE  \E n \in Nat : /\ n >= 1 /\ n + Len(AfterLine(s)) = Len(s)
                        /\ AfterLine(s) \in Seq(Symbols) /\ Piece(sc, k + n, AfterLine(s))
                        /\ \A r : FirstLine(s) = <<r>> => k + 1 <= Len(sc) /\ sc[k + 1] = r
<1>1. PICK n \in 1 .. Len(s) :
           /\ FirstLine(s) = SubSeq(s, 1, n - 1)
           /\ AfterLine(s) \in Seq(Symbols)
           /\ n + Len(AfterLine(s)) = Len(s)
           /\ \A i \in 1 .. Len(AfterLine(s)) : AfterLine(s)[i] = s[n + i]
  BY LinesAreCut
<1> DEFINE t == AfterLine(s)
           f == FirstLine(s)
           z == Len(s)
<1>2. /\ z \in Nat /\ n \in 1 .. z /\ t \in Seq(Symbols) /\ Len(t) \in Nat
      /\ k + z <= Len(sc) /\ Len(sc) \in Nat
      /\ \A i \in 1 .. z : s[i] = sc[k + i]
      /\ n + Len(t) = z /\ \A i \in 1 .. Len(t) : t[i] = s[n + i]
  BY <1>1 DEF Piece
<1>3. ASSUME NEW r, f = <<r>>
      PROVE  k + 1 <= Len(sc) /\ sc[k + 1] = r
  <2>1. Len(f) = 1 /\ f[1] = r
    BY <1>3
  <2>2. \A i \in 1 .. n - 1 : s[i] \in Symbols
    BY <1>2
  <2>3. f = SubSeq(s, 1, n - 1)
    BY <1>1
  <2> HIDE DEF t, f, z
  <2>4. 1 \in Int /\ n - 1 \in Int
    BY <1>2
  <2>5. /\ Len(f) = IF 1 <= n - 1 THEN n - 1 - 1 + 1 ELSE 0
        /\ \A i \in 1 .. n - 1 - 1 + 1 : f[i] = s[1 + i - 1]
    BY <2>2, <2>3, <2>4, SubSeqProperties
  <2>6. n >= 2
    <3>1. n \in Int
      BY <1>2
    <3>2. CASE 1 <= n - 1
      BY <3>1, <3>2
    <3>3. CASE ~(1 <= n - 1)
      BY <2>1, <2>5, <3>3
    <3> QED BY <3>2, <3>3
  <2>7. 1 \in 1 .. n - 1 - 1 + 1 /\ 1 + 1 - 1 = 1 /\ 1 \in 1 .. z
    BY <1>2, <2>6
  <2>8. f[1] = s[1]
    BY <2>5, <2>7
  <2> QED BY <1>2, <2>1, <2>7, <2>8
<1> HIDE DEF t, f, z
<1>4. Piece(sc, k + n, t)
  <2>1. ASSUME NEW i \in 1 .. Len(t) PROVE t[i] = sc[k + n + i]
    <3>1. n + i \in 1 .. z /\ k + n + i = k + (n + i)
      BY <1>2
    <3> QED BY <1>2, <3>1
  <2>2. k + n + Len(t) <= Len(sc)
    BY <1>2
  <2> QED BY <2>1, <2>2 DEF Piece
<1> QED
  BY <1>2, <1>3, <1>4 DEF t, f, z

(* What is on the way stays in its place whichever way it goes on.          *)
Symbolic(b, w, u) == b \in Seq(Symbols) /\ w \in Seq(Symbols) /\ u \in Seq(Symbols)

(* Nothing is a piece at any place.                                         *)
LEMMA NothingIsAPiece ==
  ASSUME NEW sc \in Seq(Symbols), NEW k \in Nat, k <= Len(sc)
  PROVE  << >> \in Seq(Symbols) /\ Len(<< >>) = 0 /\ Piece(sc, k, << >>)
<1>1. << >> \in Seq(Symbols) /\ Len(<< >>) = 0
  OBVIOUS
<1> DEFINE e == << >>
<1>2. Len(e) = 0
  BY <1>1
<1> HIDE DEF e
<1>3. Piece(sc, k, e)
  BY <1>2 DEF Piece
<1> QED
  BY <1>1, <1>3 DEF e

(* A piece ends within the script.                                          *)
LEMMA PiecesEnd ==
  ASSUME NEW sc \in Seq(Symbols), NEW k \in Nat, NEW s \in Seq(Symbols), Piece(sc, k, s)
  PROVE  Len(s) \in Nat /\ k + Len(s) \in Nat /\ k + Len(s) <= Len(sc) /\ k <= Len(sc)
<1>1. Len(s) \in Nat /\ Len(sc) \in Nat /\ k + Len(s) <= Len(sc)
  BY DEF Piece
<1> QED
  BY <1>1

(* The client sends a symbol, or nothing more.                              *)
LEMMA SendingStays ==
  ASSUME NEW sc \in Seq(Symbols), NEW A, NEW k \in Nat, NEW b, NEW w, NEW u,
         Symbolic(b, w, u), OnTheWay(sc, A, k, b, w, u)
  PROVE  /\ Symbolic(b, w, << >>) /\ OnTheWay(sc, A, k, b, w, << >>)
         /\ u # << >> => /\ Symbolic(b, Append(w, Head(u)), Tail(u))
                        /\ OnTheWay(sc, A, k, b, Append(w, Head(u)), Tail(u))
<1>1. Len(b) \in Nat /\ k + Len(b) \in Nat
  BY PiecesEnd DEF OnTheWay, Symbolic
<1>2. Len(w) \in Nat /\ k + Len(b) + Len(w) \in Nat /\ k + Len(b) + Len(w) <= Len(sc)
  BY <1>1, PiecesEnd DEF OnTheWay, Symbolic
<1>3. Symbolic(b, w, << >>) /\ OnTheWay(sc, A, k, b, w, << >>)
  BY <1>2, NothingIsAPiece DEF OnTheWay, Symbolic
<1>4. ASSUME u # << >>
      PROVE  /\ Symbolic(b, Append(w, Head(u)), Tail(u))
             /\ OnTheWay(sc, A, k, b, Append(w, Head(u)), Tail(u))
  <2>1. /\ b \in Seq(Symbols) /\ w \in Seq(Symbols) /\ u \in Seq(Symbols)
        /\ Piece(sc, k, b) /\ Piece(sc, k + Len(b), w) /\ Piece(sc, k + Len(b) + Len(w), u)
        /\ Behind(sc, A, k)
    BY DEF OnTheWay, Symbolic
  <2>2. /\ Append(w, Head(u)) \in Seq(Symbols) /\ Tail(u) \in Seq(Symbols)
        /\ Piece(sc, k + Len(b), Append(w, Head(u)))
        /\ Piece(sc, k + Len(b) + Len(Append(w, Head(u))), Tail(u))
    BY <1>1, <1>4, <2>1, PiecesPass
  <2> QED BY <2>1, <2>2 DEF OnTheWay, Symbolic
<1> QED
  BY <1>3, <1>4

(* A line that is taken, if of one symbol, is the next of the script.       *)
LineTaken(sc, k, m, text) ==
    \A r : text = <<r>> => k + 1 <= m /\ k + 1 <= Len(sc) /\ sc[k + 1] = r

(* The server takes a line out of its buffer.                               *)
LEMMA BufferedLineStays ==
  ASSUME NEW sc \in Seq(Symbols), NEW A, NEW k \in Nat, NEW b, NEW w, NEW u,
         Symbolic(b, w, u), OnTheWay(sc, A, k, b, w, u), HasLine(b)
  PROVE  \E m \in Nat : /\ Symbolic(AfterLine(b), w, u)
                        /\ OnTheWay(sc, A, m, AfterLine(b), w, u)
                        /\ LineTaken(sc, k, m, FirstLine(b))
<1>1. /\ b \in Seq(Symbols) /\ w \in Seq(Symbols) /\ u \in Seq(Symbols)
      /\ Piece(sc, k, b) /\ Piece(sc, k + Len(b), w) /\ Piece(sc, k + Len(b) + Len(w), u)
      /\ Behind(sc, A, k)
  BY DEF OnTheWay, Symbolic
<1>2. PICK n \in Nat : /\ n >= 1 /\ n + Len(AfterLine(b)) = Len(b)
                      /\ AfterLine(b) \in Seq(Symbols) /\ Piece(sc, k + n, AfterLine(b))
                      /\ \A r : FirstLine(b) = <<r>> => k + 1 <= Len(sc) /\ sc[k + 1] = r
  BY <1>1, PiecesAreCut
<1> DEFINE t == AfterLine(b)
<1>3. Len(t) \in Nat /\ Len(b) \in Nat /\ DOMAIN sc \subseteq Int
  BY <1>1, <1>2
<1> HIDE DEF t
<1>4. k + n + Len(t) = k + Len(b)
  <2>1. n + Len(t) = Len(b)
    BY <1>2 DEF t
  <2> QED BY <1>3, <2>1
<1>5. Behind(sc, A, k + n)
  BY <1>1, <1>3 DEF Behind
<1>6. OnTheWay(sc, A, k + n, t, w, u)
  <2>1. Piece(sc, k + n, t)
    BY <1>2 DEF t
  <2> QED BY <1>1, <1>4, <1>5, <2>1 DEF OnTheWay
<1>7. LineTaken(sc, k, k + n, FirstLine(b))
  BY <1>2 DEF LineTaken
<1> QED
  BY <1>1, <1>2, <1>6, <1>7 DEF t, Symbolic

(* The server reads what is on the wire into its buffer.                    *)
LEMMA ReadingStays ==
  ASSUME NEW sc \in Seq(Symbols), NEW A, NEW k \in Nat, NEW b, NEW w, NEW u,
         Symbolic(b, w, u), OnTheWay(sc, A, k, b, w, u)
  PROVE  Symbolic(b \o w, << >>, u) /\ OnTheWay(sc, A, k, b \o w, << >>, u)
<1>1. /\ b \in Seq(Symbols) /\ w \in Seq(Symbols) /\ u \in Seq(Symbols)
      /\ Piece(sc, k, b) /\ Piece(sc, k + Len(b), w) /\ Piece(sc, k + Len(b) + Len(w), u)
      /\ Behind(sc, A, k)
  BY DEF OnTheWay, Symbolic
<1>2. b \o w \in Seq(Symbols) /\ Len(b \o w) = Len(b) + Len(w) /\ Piece(sc, k, b \o w)
  BY <1>1, PiecesJoin
<1> DEFINE g == b \o w
<1>3. /\ g \in Seq(Symbols) /\ Len(g) = Len(b) + Len(w) /\ Piece(sc, k, g)
      /\ Len(b) \in Nat /\ Len(w) \in Nat
  BY <1>1, <1>2
<1> HIDE DEF g
<1>4. k + Len(g) \in Nat /\ k + Len(g) <= Len(sc)
  BY <1>3, PiecesEnd
<1>5. << >> \in Seq(Symbols) /\ Len(<< >>) = 0 /\ Piece(sc, k + Len(g), << >>)
  BY <1>4, NothingIsAPiece
<1>6. k + Len(g) + Len(<< >>) = k + Len(b) + Len(w)
  BY <1>3, <1>5
<1>7. OnTheWay(sc, A, k, g, << >>, u)
  BY <1>1, <1>3, <1>5, <1>6 DEF OnTheWay
<1> QED
  BY <1>1, <1>3, <1>5, <1>7 DEF g, Symbolic

(* The server throws its buffer away, or takes what is in it for a line     *)
(* when nothing is on the wire.                                             *)
LEMMA DroppingStays ==
  ASSUME NEW sc \in Seq(Symbols), NEW A, NEW k \in Nat, NEW b, NEW u,
         Symbolic(b, << >>, u), OnTheWay(sc, A, k, b, << >>, u)
  PROVE  \E m \in Nat : /\ Symbolic(<< >>, << >>, u)
                        /\ OnTheWay(sc, A, m, << >>, << >>, u)
                        /\ LineTaken(sc, k, m, b)
<1>1. /\ b \in Seq(Symbols) /\ u \in Seq(Symbols) /\ Piece(sc, k, b)
      /\ Piece(sc, k + Len(b) + Len(<< >>), u)
      /\ Behind(sc, A, k)
  BY DEF OnTheWay, Symbolic
<1> DEFINE m == k + Len(b)
<1>2. Len(b) \in Nat /\ m \in Nat /\ m <= Len(sc) /\ k <= m /\ DOMAIN sc \subseteq Int
  BY <1>1, PiecesEnd
<1>3. LineTaken(sc, k, m, b)
  <2>1. ASSUME NEW r, b = <<r>> PROVE k + 1 <= m /\ k + 1 <= Len(sc) /\ sc[k + 1] = r
    <3>1. Len(b) = 1 /\ b[1] = r
      BY <2>1
    <3>2. b[1] = sc[k + 1]
      BY <1>1, <3>1 DEF Piece
    <3> QED BY <1>2, <3>1, <3>2
  <2> QED BY <2>1 DEF LineTaken
<1> HIDE DEF m
<1>4. << >> \in Seq(Symbols) /\ Len(<< >>) = 0 /\ Piece(sc, m, << >>)
  BY <1>2, NothingIsAPiece
<1>5. m + Len(<< >>) = m
  BY <1>2, <1>4
<1>6. Behind(sc, A, m)
  BY <1>1, <1>2 DEF Behind
<1>7. Piece(sc, m, u)
  <2>1. k + Len(b) + Len(<< >>) = m
    BY <1>5 DEF m
  <2> QED BY <1>1, <2>1
<1>8. OnTheWay(sc, A, m, << >>, << >>, u)
  BY <1>4, <1>5, <1>6, <1>7 DEF OnTheWay
<1> QED
  BY <1>1, <1>2, <1>3, <1>4, <1>8 DEF Symbolic

(* No client but c asks for r.                                              *)
OnlyAsks(c, r) == \A d \in Clients \ {c} : \A j \in DOMAIN Script[d] : Script[d][j] # r

(* A request that is taken has not been taken before.                       *)
LEMMA TakenOnce ==
  ASSUME NEW c \in Clients, NEW A, NEW k \in Nat, NEW m \in Nat, NEW r \in Requests,
         Behind(Script[c], A, k), LineTaken(Script[c], k, m, <<r>>)
  PROVE  /\ r \notin A /\ Sender(r) = c /\ Behind(Script[c], A \cup {r}, m)
         /\ OnlyAsks(c, r)
<1>1. /\ Script \in [Clients -> Seq(Symbols)]
      /\ \A d \in Clients : \A i \in DOMAIN Script[c], j \in DOMAIN Script[d] :
           Script[c][i] \in Requests /\ Script[c][i] = Script[d][j] => c = d /\ i = j
  BY ScriptAssumption DEF ScriptAssumption
<1>2. k + 1 <= m /\ k + 1 \in DOMAIN Script[c] /\ Script[c][k + 1] = r
  <2>1. k + 1 <= m /\ k + 1 <= Len(Script[c]) /\ Script[c][k + 1] = r
    BY DEF LineTaken
  <2> QED BY <1>1, <2>1
<1>3. r \notin A
  BY <1>2 DEF Behind
<1>4. \A d \in Clients : \A j \in DOMAIN Script[d] : Script[d][j] = r => d = c /\ j = k + 1
  BY <1>1, <1>2
<1>5. Sender(r) = c
  <2>1. \A d \in Clients : r \in Range(Script[d]) <=> \E j \in DOMAIN Script[d] : Script[d][j] = r
    BY DEF Range
  <2>2. r \in Range(Script[c]) /\ \A d \in Clients : r \in Range(Script[d]) => d = c
    BY <1>2, <1>4, <2>1
  <2> QED BY <2>2 DEF Sender
<1>6. Behind(Script[c], A \cup {r}, m)
  <2>1. \A i \in DOMAIN Script[c] : Script[c][i] \in A => i <= m
    BY <1>1, <1>2 DEF Behind
  <2>2. \A i \in DOMAIN Script[c] : Script[c][i] = r => i <= m
    BY <1>2, <1>4
  <2> QED BY <2>1, <2>2 DEF Behind
<1> QED
  BY <1>3, <1>4, <1>5, <1>6 DEF OnlyAsks

(***************************************************************************)
(* What handling a line may do                                             *)
(***************************************************************************)
LineTypes ==
    /\ buf \in [Clients -> Seq(Symbols)] /\ wire \in [Clients -> Seq(Symbols)]
    /\ unsent \in [Clients -> Seq(Symbols)]
LinesInOrder ==
    \A c \in Clients : \E k \in Nat :
        OnTheWay(Script[c], asked, k, buf[c], wire[c], unsent[c])

(* A line that puts nothing into the queue and closes nothing.              *)
Quiet(s) ==
    /\ UNCHANGED <<matches, closed, asked>>
    /\ \/ conns' = conns
       \/ conns[s].status = "UNVALIDATED" /\ conns' = [conns EXCEPT ![s].status = "OKAY"]

(* A line that asks for a match.                                            *)
NewMatch(s, r) ==
    [request |-> r, game |-> Asked[r].game, seats |-> PlayersOf(r),
     user |-> UserOf[conns[s].client], conn |-> s, numRuns |-> Asked[r].runs, isRunning |-> FALSE]
Submits(s, r) ==
    /\ conns[s].status = "OKAY" /\ SpecIsGood(r)
    /\ \E m \in MatchSlots \ Queued : matches' = [matches EXCEPT ![m] = NewMatch(s, r)]
    /\ asked' = asked \cup {r}
    /\ UNCHANGED <<conns, closed>>

(* A line is of one of three kinds.                                         *)
LEMMA LinesInThreeWays ==
  ASSUME NEW s, NEW text, handleLine(s, text)
  PROVE  \/ Quiet(s) \/ closeConnection(s)
         \/ \E r \in Requests : text = <<r>> /\ Submits(s, r)
<1>1. CASE conns[s].status = "UNVALIDATED"
  <2>1. CASE text = <<"logon">>
    BY <1>1, <2>1 DEF handleLine, Quiet
  <2>2. CASE text # <<"logon">>
    <3>1. conns[s].status # "OKAY"
      BY <1>1
    <3> QED BY <1>1, <2>2, <3>1 DEF handleLine
  <2> QED BY <2>1, <2>2
<1>2. CASE conns[s].status = "OKAY"
  <2>1. \/ Reply
        \/ \E r \in Requests : text = <<r>> /\ runMatches(s, r)
    BY <1>2 DEF handleLine
  <2>2. CASE Reply
    BY <2>2 DEF Reply, Quiet
  <2>3. ASSUME NEW r \in Requests, text = <<r>>, runMatches(s, r)
        PROVE  Quiet(s) \/ (text = <<r>> /\ Submits(s, r))
    <3>1. CASE ~SpecIsGood(r)
      BY <2>3, <3>1 DEF runMatches, Reply, Quiet
    <3>2. CASE SpecIsGood(r)
      <4> DEFINE m == NewEntry(MatchSlots \ Queued)
      <4>1. /\ matches' = [matches EXCEPT ![m] = NewMatch(s, r)] /\ conns' = conns
            /\ asked' = asked \cup {r} /\ closed' = closed /\ MatchSlots \ Queued # {}
        BY <2>3, <3>2 DEF runMatches, NewMatch
      <4>2. m \in MatchSlots \ Queued
        BY <4>1 DEF NewEntry
      <4> HIDE DEF m
      <4> QED BY <1>2, <2>3, <3>2, <4>1, <4>2 DEF Submits
    <3> QED BY <3>1, <3>2
  <2> QED BY <2>1, <2>2, <2>3
<1> QED
  BY <1>1, <1>2 DEF handleLine

(* What a client has on its way after a step of the server.                 *)
Kept(c, taken, m) ==
    /\ Symbolic(buf'[c], wire'[c], unsent'[c])
    /\ OnTheWay(Script[c], taken, m, buf'[c], wire'[c], unsent'[c])

ReadsFrom(s) == getLine(s) \/ (getLineGoesOn /\ s = cur)

OneClientReads(c) ==
    /\ \E b, w : buf' = [buf EXCEPT ![c] = b] /\ wire' = [wire EXCEPT ![c] = w]
    /\ unsent' = unsent

(* The server takes something from one client and handles it.               *)
LEMMA ReadsKeepTheOrder ==
  ASSUME LineTypes, LinesInOrder, NEW s \in ConnSlots, conns[s].client \in Clients,
         ReadsFrom(s)
  PROVE  /\ OneClientReads(conns[s].client)
         /\ \E k, m \in Nat : \E text :
              /\ OnTheWay(Script[conns[s].client], asked, k, buf[conns[s].client],
                          wire[conns[s].client], unsent[conns[s].client])
              /\ Kept(conns[s].client, asked, m)
              /\ LineTaken(Script[conns[s].client], k, m, text)
              /\ \/ handleLine(s, text) \/ closeConnection(s)
                 \/ UNCHANGED <<conns, matches, closed, asked>>
<1> DEFINE c == conns[s].client
           b == buf[c]
           w == wire[c]
           u == unsent[c]
           sc == Script[c]
<1>1. /\ Symbolic(b, w, u) /\ sc \in Seq(Symbols) /\ c \in Clients
      /\ buf \in [Clients -> Seq(Symbols)] /\ wire \in [Clients -> Seq(Symbols)]
  BY ScriptAssumption DEF LineTypes, Symbolic, ScriptAssumption
<1>2. PICK k \in Nat : OnTheWay(sc, asked, k, b, w, u)
  BY DEF LinesInOrder
<1>3. unsent' = unsent
  BY DEF ReadsFrom, getLine, getLineGoesOn, clientVars
<1> DEFINE Goes(m, text) == /\ OneClientReads(c) /\ Kept(c, asked, m) /\ LineTaken(sc, k, m, text)
                            /\ \/ handleLine(s, text) \/ closeConnection(s)
                               \/ UNCHANGED <<conns, matches, closed, asked>>
<1>4. \/ HasLine(b) /\ GotLine(s, b, w)
      \/ HasLine(b \o w) /\ GotLine(s, b \o w, << >>)
      \/ GotPiece(s)
      \/ w = << >> /\ GotEnd(s)
      \/ w = << >> /\ GotNothing(s)
      \/ /\ buf' = [buf EXCEPT ![c] = b \o w] /\ wire' = [wire EXCEPT ![c] = << >>]
         /\ UNCHANGED <<conns, matches, closed, asked>>
  <2>1. HasLine(w) => HasLine(b \o w)
    <3>1. b \in Seq(Symbols) /\ w \in Seq(Symbols)
      BY <1>1 DEF Symbolic
    <3> HIDE DEF b, w
    <3>2. ASSUME NEW i \in DOMAIN w, w[i] = NL
          PROVE  Len(b) + i \in DOMAIN (b \o w) /\ (b \o w)[Len(b) + i] = NL
      BY <3>1, <3>2
    <3> QED BY <3>2 DEF HasLine
  <2>2. CASE getLine(s)
    BY <2>1, <2>2 DEF getLine
  <2>3. CASE getLineGoesOn /\ s = cur
    BY <2>1, <2>3 DEF getLineGoesOn
  <2> QED BY <2>2, <2>3 DEF ReadsFrom
<1>5. ASSUME NEW bb, NEW ww, NEW m \in Nat, NEW text,
             buf' = [buf EXCEPT ![c] = bb], wire' = [wire EXCEPT ![c] = ww],
             Symbolic(bb, ww, u), OnTheWay(sc, asked, m, bb, ww, u), LineTaken(sc, k, m, text),
             \/ handleLine(s, text) \/ closeConnection(s)
             \/ UNCHANGED <<conns, matches, closed, asked>>
      PROVE  Goes(m, text)
  <2>1. OneClientReads(c)
    BY <1>3, <1>5 DEF OneClientReads
  <2>2. buf'[c] = bb /\ wire'[c] = ww /\ unsent'[c] = u
    <3> HIDE DEF c
    <3> QED BY <1>1, <1>3, <1>5
  <2>3. Kept(c, asked, m)
    BY <1>5, <2>2 DEF Kept
  <2> QED BY <1>5, <2>1, <2>3
<1> HIDE DEF b, w, u, sc
<1>6. LineTaken(sc, k, k, << >>) /\ wire = [wire EXCEPT ![c] = w]
  <2>1. \A r : << >> # <<r>>
    OBVIOUS
  <2>2. LineTaken(sc, k, k, << >>)
    BY <2>1 DEF LineTaken
  <2>3. wire = [wire EXCEPT ![c] = w]
    <3> HIDE DEF c
    <3> QED BY <1>1 DEF w
  <2> QED BY <2>2, <2>3
<1>7. \E m \in Nat : \E text : Goes(m, text)
  <2>1. CASE HasLine(b) /\ GotLine(s, b, w)
    <3>1. PICK m \in Nat : /\ Symbolic(AfterLine(b), w, u)
                          /\ OnTheWay(sc, asked, m, AfterLine(b), w, u)
                          /\ LineTaken(sc, k, m, FirstLine(b))
      BY <1>1, <1>2, <2>1, BufferedLineStays
    <3>2. /\ buf' = [buf EXCEPT ![c] = AfterLine(b)] /\ wire' = [wire EXCEPT ![c] = w]
          /\ handleLine(s, FirstLine(b))
      BY <2>1 DEF GotLine
    <3>3. Goes(m, FirstLine(b))
      BY <1>5, <3>1, <3>2
    <3> QED BY <3>3
  <2>2. CASE HasLine(b \o w) /\ GotLine(s, b \o w, << >>)
    <3> DEFINE g == b \o w
    <3>1. Symbolic(g, << >>, u) /\ OnTheWay(sc, asked, k, g, << >>, u) /\ HasLine(g)
      BY <1>1, <1>2, <2>2, ReadingStays
    <3>2. /\ buf' = [buf EXCEPT ![c] = AfterLine(g)] /\ wire' = [wire EXCEPT ![c] = << >>]
          /\ handleLine(s, FirstLine(g))
      BY <2>2 DEF GotLine
    <3> HIDE DEF g
    <3>3. PICK m \in Nat : /\ Symbolic(AfterLine(g), << >>, u)
                          /\ OnTheWay(sc, asked, m, AfterLine(g), << >>, u)
                          /\ LineTaken(sc, k, m, FirstLine(g))
      BY <1>1, <3>1, BufferedLineStays
    <3>4. Goes(m, FirstLine(g))
      BY <1>5, <3>2, <3>3
    <3> QED BY <3>4
  <2>3. ASSUME NEW g, Symbolic(g, << >>, u), OnTheWay(sc, asked, k, g, << >>, u),
               buf' = [buf EXCEPT ![c] = << >>], wire' = [wire EXCEPT ![c] = << >>],
               \/ handleLine(s, g) \/ closeConnection(s)
               \/ UNCHANGED <<conns, matches, closed, asked>>
        PROVE  \E m \in Nat : \E text : Goes(m, text)
    <3>1. PICK m \in Nat : /\ Symbolic(<< >>, << >>, u)
                          /\ OnTheWay(sc, asked, m, << >>, << >>, u)
                          /\ LineTaken(sc, k, m, g)
      BY <1>1, <2>3, DroppingStays
    <3>2. Goes(m, g)
      BY <1>5, <2>3, <3>1
    <3> QED BY <3>2
  <2>4. Symbolic(b \o w, << >>, u) /\ OnTheWay(sc, asked, k, b \o w, << >>, u)
    BY <1>1, <1>2, ReadingStays
  <2>5. CASE w = << >> /\ (GotEnd(s) \/ GotNothing(s))
    <3>1. Symbolic(b, << >>, u) /\ OnTheWay(sc, asked, k, b, << >>, u)
      BY <1>1, <1>2, <2>5
    <3>2. buf' = [buf EXCEPT ![c] = << >>] /\ wire' = [wire EXCEPT ![c] = << >>]
      BY <1>6, <2>5 DEF GotEnd, GotNothing
    <3>3. \/ handleLine(s, b) \/ closeConnection(s)
          \/ UNCHANGED <<conns, matches, closed, asked>>
      BY <2>5 DEF GotEnd, GotNothing, b
    <3> QED BY <2>3, <3>1, <3>2, <3>3
  <2>6. ASSUME buf' = [buf EXCEPT ![c] = b \o w], wire' = [wire EXCEPT ![c] = << >>],
               UNCHANGED <<conns, matches, closed, asked>>
        PROVE  \E m \in Nat : \E text : Goes(m, text)
    <3>1. Goes(k, << >>)
      BY <1>5, <1>6, <2>4, <2>6
    <3> QED BY <3>1
  <2>7. CASE GotPiece(s)
    <3>1. /\ wire' = [wire EXCEPT ![c] = << >>] /\ UNCHANGED <<conns, matches, closed, asked>>
          /\ buf' = [buf EXCEPT ![c] = << >>] \/ buf' = [buf EXCEPT ![c] = b \o w]
      BY <2>7 DEF GotPiece, b, w
    <3> QED BY <2>3, <2>4, <2>6, <3>1
  <2> QED BY <1>4, <2>1, <2>2, <2>5, <2>6, <2>7
<1>8. PICK m \in Nat : \E text : Goes(m, text)
  BY <1>7
<1>9. PICK text : Goes(m, text)
  BY <1>8
<1> QED
  BY <1>2, <1>9 DEF b, w, u, sc

(* What a step of the server that reads does: it keeps the order of what is *)
(* on its way, and puts only a new request of the line's sender into the    *)
(* queue.                                                                   *)
Outcome(s) ==
    \/ Quiet(s) \/ closeConnection(s)
    \/ \E r \in Requests : Submits(s, r) /\ r \notin asked /\ Sender(r) = conns[s].client

(* Such a step has one of these outcomes.                                   *)
LEMMA ReadsAreNew ==
  ASSUME Types, LineTypes, LinesInOrder, NEW s \in ConnSlots, ReadsFrom(s)
  PROVE  LineTypes' /\ LinesInOrder' /\ Outcome(s)
<1> DEFINE c == conns[s].client
<1>1. c \in Clients
  BY DEF Types, PoolTypes, Connection
<1>2. OneClientReads(c)
  BY <1>1, ReadsKeepTheOrder
<1> DEFINE From(k, m, text) ==
      /\ OnTheWay(Script[c], asked, k, buf[c], wire[c], unsent[c])
      /\ Kept(c, asked, m) /\ LineTaken(Script[c], k, m, text)
      /\ \/ handleLine(s, text) \/ closeConnection(s)
         \/ UNCHANGED <<conns, matches, closed, asked>>
<1>0. PICK k \in Nat, m \in Nat : \E text : From(k, m, text)
  BY <1>1, ReadsKeepTheOrder
<1>3. PICK text : From(k, m, text)
  BY <1>0
<1>4. PICK b, w : buf' = [buf EXCEPT ![c] = b] /\ wire' = [wire EXCEPT ![c] = w]
  BY <1>2 DEF OneClientReads
<1> HIDE DEF c
<1>5. \A d \in Clients \ {c} : buf'[d] = buf[d] /\ wire'[d] = wire[d] /\ unsent'[d] = unsent[d]
  BY <1>2, <1>4 DEF OneClientReads, LineTypes
<1>6. LineTypes'
  <2>1. Symbolic(buf'[c], wire'[c], unsent'[c])
    BY <1>3 DEF Kept
  <2>2. buf'[c] \in Seq(Symbols) /\ wire'[c] \in Seq(Symbols) /\ unsent'[c] \in Seq(Symbols)
    BY <2>1 DEF Symbolic
  <2>3. buf'[c] = b /\ wire'[c] = w
    BY <1>1, <1>4 DEF LineTypes
  <2> QED BY <1>2, <1>4, <2>2, <2>3 DEF LineTypes, OneClientReads
<1>7. ASSUME asked' = asked
      PROVE  LinesInOrder'
  <2>1. ASSUME NEW d \in Clients
        PROVE  \E n \in Nat : OnTheWay(Script[d], asked', n, buf'[d], wire'[d], unsent'[d])
    <3>1. CASE d = c
      BY <1>3, <1>7, <3>1 DEF Kept
    <3>2. CASE d # c
      BY <1>5, <1>7, <3>2 DEF LinesInOrder
    <3> QED BY <3>1, <3>2
  <2> QED BY <2>1 DEF LinesInOrder
<1>8. ASSUME NEW r \in Requests, text = <<r>>, Submits(s, r)
      PROVE  LinesInOrder' /\ Outcome(s)
  <2>1. LineTaken(Script[c], k, m, <<r>>)
    BY <1>3, <1>8
  <2>2. OnTheWay(Script[c], asked, m, buf'[c], wire'[c], unsent'[c])
    BY <1>3 DEF Kept
  <2>3. /\ r \notin asked /\ Sender(r) = c
        /\ Behind(Script[c], asked \cup {r}, m)
        /\ OnlyAsks(c, r)
    <3>1. Behind(Script[c], asked, k)
      BY <1>3 DEF OnTheWay
    <3>2. r \in Requests /\ k \in Nat /\ m \in Nat /\ c \in Clients
      BY <1>1, <1>3, <1>8
    <3> QED BY <2>1, <3>1, <3>2, TakenOnce
  <2>4. asked' = asked \cup {r}
    BY <1>8 DEF Submits
  <2>5. ASSUME NEW d \in Clients
        PROVE  \E n \in Nat : OnTheWay(Script[d], asked', n, buf'[d], wire'[d], unsent'[d])
    <3>1. CASE d = c
      BY <2>2, <2>3, <2>4, <3>1 DEF OnTheWay
    <3>2. CASE d # c
      <4>1. PICK n \in Nat : OnTheWay(Script[d], asked, n, buf[d], wire[d], unsent[d])
        BY DEF LinesInOrder
      <4>2. \A i \in DOMAIN Script[d] : Script[d][i] \in asked' => Script[d][i] \in asked
        BY <2>3, <2>4, <3>2 DEF OnlyAsks
      <4>3. OnTheWay(Script[d], asked', n, buf[d], wire[d], unsent[d])
        BY <4>1, <4>2 DEF OnTheWay, Behind
      <4> QED BY <1>5, <3>2, <4>3
    <3> QED BY <3>1, <3>2
  <2>6. LinesInOrder'
    BY <2>5 DEF LinesInOrder
  <2> QED BY <1>8, <2>3, <2>6 DEF Outcome, c
<1>9. CASE closeConnection(s) \/ Quiet(s)
  <2>1. asked' = asked
    BY <1>9 DEF closeConnection, Quiet
  <2> QED BY <1>6, <1>7, <1>9, <2>1 DEF Outcome
<1>10. CASE handleLine(s, text)
  <2>1. Quiet(s) \/ closeConnection(s) \/ \E r \in Requests : text = <<r>> /\ Submits(s, r)
    BY <1>10, LinesInThreeWays
  <2> QED BY <1>6, <1>8, <1>9, <2>1
<1>11. CASE UNCHANGED <<conns, matches, closed, asked>>
  <2>1. Quiet(s)
    BY <1>11 DEF Quiet
  <2> QED BY <1>9, <2>1
<1> QED
  BY <1>3, <1>9, <1>10, <1>11

(* The steps of the system, those that read taken together.                 *)
LEMMA StepKinds ==
  ASSUME Types, [Next]_vars
  PROVE  \/ UNCHANGED vars \/ AllHandled
         \/ \E c \in Clients : Connect(c)
         \/ \E c \in Clients : Send(c) \/ HangUp(c)
         \/ \E j \in jobs : \E x : ChildExits(j, x)
         \/ \E j \in jobs : finishedJob(j)
         \/ RemoveClosed
         \/ \E m \in MatchSlots : StartBest(m)
         \/ NothingToStart \/ Select
         \/ \E s \in ConnSlots : ReadsFrom(s)
<1>1. getLineGoesOn => cur \in ConnSlots
  BY DEF getLineGoesOn, Types, PlaceTypes
<1>2. CASE ServerStep
  BY <1>1, <1>2 DEF ServerStep, ReadsFrom
<1>3. CASE Environment
  BY <1>3 DEF Environment
<1> QED
  BY <1>2, <1>3 DEF Next

(* What is on its way keeps its order, and no request is taken twice.       *)
LEMMA LinesKeepTheirOrder ==
  ASSUME Types, LineTypes, LinesInOrder, [Next]_vars
  PROVE  LineTypes' /\ LinesInOrder'
<1>1. CASE UNCHANGED <<buf, wire, unsent, asked>>
  BY <1>1 DEF LineTypes, LinesInOrder
<1>2. CASE \E s \in ConnSlots : ReadsFrom(s)
  BY <1>2, ReadsAreNew
<1>3. ASSUME NEW c \in Clients, Send(c) \/ HangUp(c)
      PROVE  LineTypes' /\ LinesInOrder'
  <2>1. PICK k \in Nat : OnTheWay(Script[c], asked, k, buf[c], wire[c], unsent[c])
    BY DEF LinesInOrder
  <2>2. Script[c] \in Seq(Symbols) /\ Symbolic(buf[c], wire[c], unsent[c])
    BY ScriptAssumption DEF ScriptAssumption, LineTypes, Symbolic
  <2>3. /\ buf' = buf /\ asked' = asked
        /\ \E w, u : wire' = [wire EXCEPT ![c] = w] /\ unsent' = [unsent EXCEPT ![c] = u]
    <3>1. wire = [wire EXCEPT ![c] = wire[c]]
      BY DEF LineTypes
    <3> QED BY <1>3, <3>1 DEF Send, HangUp
  <2>4. /\ Symbolic(buf'[c], wire'[c], unsent'[c])
        /\ OnTheWay(Script[c], asked', k, buf'[c], wire'[c], unsent'[c])
    <3>1. CASE Send(c)
      <4>1. /\ unsent[c] # << >> /\ wire'[c] = Append(wire[c], Head(unsent[c]))
            /\ unsent'[c] = Tail(unsent[c]) /\ buf'[c] = buf[c] /\ asked' = asked
        BY <3>1 DEF Send, LineTypes
      <4>2. /\ Symbolic(buf[c], Append(wire[c], Head(unsent[c])), Tail(unsent[c]))
            /\ OnTheWay(Script[c], asked, k, buf[c], Append(wire[c], Head(unsent[c])), Tail(unsent[c]))
        BY <2>1, <2>2, <4>1, SendingStays
      <4> QED BY <4>1, <4>2
    <3>2. CASE HangUp(c)
      <4>1. /\ unsent'[c] = << >> /\ wire'[c] = wire[c] /\ buf'[c] = buf[c] /\ asked' = asked
        BY <3>2 DEF HangUp, LineTypes
      <4>2. /\ Symbolic(buf[c], wire[c], << >>)
            /\ OnTheWay(Script[c], asked, k, buf[c], wire[c], << >>)
        BY <2>1, <2>2, SendingStays
      <4> QED BY <4>1, <4>2
    <3> QED BY <1>3, <3>1, <3>2
  <2>5. LineTypes'
    <3>1. wire'[c] \in Seq(Symbols) /\ unsent'[c] \in Seq(Symbols)
      BY <2>4 DEF Symbolic
    <3>2. PICK w, u : wire' = [wire EXCEPT ![c] = w] /\ unsent' = [unsent EXCEPT ![c] = u]
      BY <2>3
    <3>3. wire'[c] = w /\ unsent'[c] = u
      BY <3>2 DEF LineTypes
    <3> QED BY <2>3, <3>1, <3>2, <3>3 DEF LineTypes
  <2>6. ASSUME NEW d \in Clients
        PROVE  \E n \in Nat : OnTheWay(Script[d], asked', n, buf'[d], wire'[d], unsent'[d])
    <3>1. CASE d = c
      BY <2>4, <3>1
    <3>2. CASE d # c
      <4>1. buf'[d] = buf[d] /\ wire'[d] = wire[d] /\ unsent'[d] = unsent[d] /\ asked' = asked
        BY <2>3, <3>2 DEF LineTypes
      <4> QED BY <4>1 DEF LinesInOrder
    <3> QED BY <3>1, <3>2
  <2> QED BY <2>5, <2>6 DEF LinesInOrder
<1>4. CASE \/ UNCHANGED vars \/ AllHandled \/ RemoveClosed \/ NothingToStart \/ Select
           \/ \E c \in Clients : Connect(c)
  BY <1>1, <1>4 DEF vars, AllHandled, RemoveClosed, NothingToStart, Select, Connect, clientVars
<1>5. CASE \/ \E j \in jobs : (\E x : ChildExits(j, x)) \/ finishedJob(j)
           \/ \E m \in MatchSlots : StartBest(m)
  BY <1>1, <1>5 DEF ChildExits, finishedJob, StartBest, clientVars
<1> QED
  BY <1>2, <1>3, <1>4, <1>5, StepKinds

(***************************************************************************)
(* Clients and their entries in the pool                                   *)
(***************************************************************************)
Open(s) == conns[s].status \in {"UNVALIDATED", "OKAY"}

SockTypes == sock \in [Clients -> {"idle", "open", "shut"}] /\ closed \subseteq Clients

(* A client waits to be accepted, has one open entry, or has been closed.   *)
OneEntryEach ==
    /\ \A c \in Clients : sock[c] = "idle" => c \notin backlog /\ c \notin closed
    /\ \A c \in backlog : c \notin closed
    /\ \A s \in ConnSlots : Open(s) =>
         /\ conns[s].client \notin closed /\ conns[s].client \notin backlog
         /\ sock[conns[s].client] # "idle"
    /\ \A s, t \in ConnSlots : Open(s) /\ Open(t) /\ conns[s].client = conns[t].client => s = t

(* The server reads from open entries only.                                 *)
ReadyAreOpen ==
    /\ \A s \in todo : Open(s)
    /\ cur # None => Open(cur) /\ cur \notin todo
    /\ phase \notin {"serve", "reading"} => cur = None
    /\ phase \in {"start", "wait"} => \A s \in ConnSlots : conns[s].status # "CLOSED"

(* The entries stay with their clients.                                     *)
EntriesStay ==
    \A s \in ConnSlots : (Open(s)' <=> Open(s)) /\ conns'[s].client = conns[s].client

(* Entries that stay keep each client to one.                               *)
LEMMA StayingKeepsEntries ==
  ASSUME OneEntryEach, EntriesStay, UNCHANGED <<sock, backlog, closed>>
  PROVE  OneEntryEach'
BY DEF OneEntryEach, EntriesStay

(* What a step that reads leaves alone, and where it goes on.               *)
LEMMA ReadsStayInPlace ==
  ASSUME Types, NEW s \in ConnSlots, ReadsFrom(s)
  PROVE  /\ UNCHANGED <<sock, backlog, jobs, curRunningJobs>>
         /\ phase \in {"serve", "reading"} /\ phase' \in {"serve", "reading"}
         /\ \/ cur = s /\ todo' = todo
            \/ cur = None /\ s \in todo /\ todo' = todo \ {s}
         /\ cur' \in {s, None}
         /\ closeConnection(s) => cur' = None
<1>1. closeConnection(s) => cur' = None
  BY DEF closeConnection, Return
<1>2. CASE getLine(s)
  <2>1. \/ GotEnd(s) \/ GotNothing(s) \/ GotPiece(s) \/ \E data, rest : GotLine(s, data, rest)
    BY <1>2 DEF getLine
  <2>2. phase' \in {"serve", "reading"} /\ cur' \in {s, None}
    BY <2>1, ReadLines
  <2> QED BY <1>1, <1>2, <2>2 DEF getLine, clientVars
<1>3. CASE getLineGoesOn /\ s = cur
  <2>1. \/ GotEnd(s) \/ (\E data, rest : GotLine(s, data, rest))
        \/ UNCHANGED <<phase, cur>>
    BY <1>3 DEF getLineGoesOn
  <2>2. phase = "reading" /\ todo' = todo
    BY <1>3 DEF getLineGoesOn
  <2>3. phase' \in {"serve", "reading"} /\ cur' \in {s, None}
    BY <1>3, <2>1, <2>2, ReadLines
  <2> QED BY <1>1, <1>3, <2>2, <2>3 DEF getLineGoesOn, clientVars
<1> QED
  BY <1>2, <1>3 DEF ReadsFrom

(* The server reads from an open entry.                                     *)
LEMMA ReadsAreOpen ==
  ASSUME Types, ReadyAreOpen, NEW s \in ConnSlots, ReadsFrom(s)
  PROVE  Open(s) /\ conns[s].client \in Clients
<1>1. Open(s)
  <2>1. None \notin ConnSlots
    BY ServerAssumption DEF ServerAssumption
  <2> QED BY <2>1, ReadsStayInPlace DEF ReadyAreOpen
<1> QED
  BY <1>1 DEF Types, PoolTypes, Connection

(* What a line does to the entry it is read from.                           *)
LEMMA LinesAndEntries ==
  ASSUME Types, NEW s \in ConnSlots, Outcome(s), Open(s)
  PROVE  \/ EntriesStay /\ closed' = closed
         \/ /\ closeConnection(s) /\ closed' = closed \cup {conns[s].client} /\ ~Open(s)'
            /\ \A t \in ConnSlots : /\ conns'[t].client = conns[t].client
                                    /\ t # s => (Open(t)' <=> Open(t))
<1>1. conns \in [ConnSlots -> Connection]
  BY DEF Types, PoolTypes
<1>2. CASE Quiet(s)
  <2>1. CASE conns' = conns
    BY <1>2, <2>1 DEF Quiet, EntriesStay, Open
  <2>2. CASE conns[s].status = "UNVALIDATED" /\ conns' = [conns EXCEPT ![s].status = "OKAY"]
    <3>1. conns'[s].status = "OKAY" /\ conns'[s].client = conns[s].client
      BY <1>1, <2>2 DEF Connection
    <3>2. \A t \in ConnSlots \ {s} : conns'[t] = conns[t]
      BY <1>1, <2>2
    <3>3. EntriesStay
      BY <2>2, <3>1, <3>2 DEF EntriesStay, Open
    <3> QED BY <1>2, <3>3 DEF Quiet
  <2> QED BY <1>2, <2>1, <2>2 DEF Quiet
<1>3. CASE closeConnection(s)
  <2>1. conns' = [conns EXCEPT ![s].status = "CLOSED"] /\ closed' = closed \cup {conns[s].client}
    BY <1>3 DEF closeConnection
  <2>2. conns'[s].status = "CLOSED" /\ conns'[s].client = conns[s].client
    BY <1>1, <2>1 DEF Connection
  <2>3. \A t \in ConnSlots \ {s} : conns'[t] = conns[t]
    BY <1>1, <2>1
  <2> QED BY <1>3, <2>1, <2>2, <2>3 DEF Open
<1>4. CASE \E r \in Requests : Submits(s, r)
  BY <1>4 DEF Submits, EntriesStay, Open
<1> QED
  BY <1>2, <1>3, <1>4 DEF Outcome

(* Closed entries become free ones.                                         *)
LEMMA RemovingKeepsEntries ==
  ASSUME Types, RemoveClosed
  PROVE  EntriesStay /\ \A s \in ConnSlots : conns'[s].status # "CLOSED"
<1>1. conns \in [ConnSlots -> Connection]
  BY DEF Types, PoolTypes
<1>2. ASSUME NEW s \in ConnSlots
      PROVE  /\ (Open(s)' <=> Open(s)) /\ conns'[s].client = conns[s].client
             /\ conns'[s].status # "CLOSED"
  <2>1. CASE conns[s].status = "CLOSED"
    <3>1. conns'[s] = [conns[s] EXCEPT !.status = "FREE"]
      BY <2>1 DEF RemoveClosed
    <3>2. conns'[s].status = "FREE" /\ conns'[s].client = conns[s].client
      BY <1>1, <3>1 DEF Connection
    <3> QED BY <2>1, <3>2 DEF Open
  <2>2. CASE conns[s].status # "CLOSED"
    <3>1. conns'[s] = conns[s]
      BY <2>2 DEF RemoveClosed
    <3> QED BY <2>2, <3>1 DEF Open
  <2> QED BY <2>1, <2>2
<1> QED
  BY <1>2 DEF EntriesStay

(* select gives a free entry to a client that waits.                        *)
LEMMA Accepts ==
  ASSUME Types, Select
  PROVE  \/ UNCHANGED <<backlog, conns>>
         \/ \E t \in FreeConn, c \in backlog :
              /\ backlog' = backlog \ {c} /\ c \in Clients /\ t \in ConnSlots
              /\ Open(t)' /\ ~Open(t) /\ conns'[t].client = c
              /\ \A s \in ConnSlots \ {t} : conns'[s] = conns[s]
<1>1. conns \in [ConnSlots -> Connection] /\ backlog \subseteq Clients
  BY DEF Types, PoolTypes, PlaceTypes
<1>2. ASSUME NEW c \in backlog, FreeConn # {}, backlog' = backlog \ {c},
             conns' = addConnection(NewEntry(FreeConn), c)
      PROVE  \E t \in FreeConn, d \in backlog :
              /\ backlog' = backlog \ {d} /\ d \in Clients /\ t \in ConnSlots
              /\ Open(t)' /\ ~Open(t) /\ conns'[t].client = d
              /\ \A s \in ConnSlots \ {t} : conns'[s] = conns[s]
  <2>1. PICK t \in FreeConn : t = NewEntry(FreeConn)
    BY <1>2 DEF NewEntry
  <2>2. conns' = addConnection(t, c)
    BY <1>2, <2>1
  <2>3. t \in ConnSlots /\ conns[t].status = "FREE"
    BY <2>1 DEF FreeConn
  <2>4. conns'[t] = [status |-> "UNVALIDATED", client |-> c]
        /\ \A s \in ConnSlots \ {t} : conns'[s] = conns[s]
    BY <1>1, <2>2, <2>3 DEF addConnection
  <2>5. Open(t)' /\ ~Open(t) /\ conns'[t].client = c
    <3>1. conns'[t].status = "UNVALIDATED" /\ conns'[t].client = c
      BY <2>4
    <3> QED BY <2>3, <3>1 DEF Open
  <2>6. /\ backlog' = backlog \ {c} /\ c \in Clients /\ t \in ConnSlots
        /\ Open(t)' /\ ~Open(t) /\ conns'[t].client = c
        /\ \A s \in ConnSlots \ {t} : conns'[s] = conns[s]
    BY <1>1, <1>2, <2>3, <2>4, <2>5
  <2> QED BY <1>2, <2>1, <2>6
<1> QED
  BY <1>2 DEF Select

(* Each client keeps to its one entry.                                      *)
LEMMA EntriesAreKept ==
  ASSUME Types, SockTypes, LineTypes, LinesInOrder, OneEntryEach, ReadyAreOpen, [Next]_vars
  PROVE  SockTypes' /\ OneEntryEach'
<1>1. ASSUME EntriesStay, UNCHANGED <<sock, backlog, closed>>
      PROVE  SockTypes' /\ OneEntryEach'
  BY <1>1, StayingKeepsEntries DEF SockTypes
<1>2. conns' = conns => EntriesStay
  BY DEF EntriesStay, Open
<1>3. CASE \/ UNCHANGED vars \/ AllHandled \/ RemoveClosed \/ NothingToStart
           \/ \E c \in Clients : Send(c)
           \/ \E j \in jobs : (\E x : ChildExits(j, x)) \/ finishedJob(j)
           \/ \E m \in MatchSlots : StartBest(m)
  <2>1. UNCHANGED <<sock, backlog, closed>>
    BY <1>3 DEF vars, AllHandled, RemoveClosed, NothingToStart, Send, ChildExits, finishedJob,
                StartBest, clientVars
  <2>2. RemoveClosed \/ conns' = conns
    BY <1>3 DEF vars, AllHandled, NothingToStart, Send, ChildExits, finishedJob, StartBest, poolVars
  <2> QED BY <1>1, <1>2, <2>1, <2>2, RemovingKeepsEntries
<1>4. ASSUME NEW c \in Clients, Connect(c)
      PROVE  SockTypes' /\ OneEntryEach'
  <2>1. /\ sock[c] = "idle" /\ sock' = [sock EXCEPT ![c] = "open"]
        /\ backlog' = backlog \cup {c} /\ UNCHANGED <<closed, conns>>
    BY <1>4 DEF Connect, poolVars
  <2>2. SockTypes'
    BY <2>1 DEF SockTypes
  <2>3. sock'[c] = "open" /\ \A d \in Clients \ {c} : sock'[d] = sock[d]
    BY <2>1 DEF SockTypes
  <2>4. \A s \in ConnSlots : Open(s) => conns[s].client # c /\ conns[s].client \in Clients
    <3>1. \A s \in ConnSlots : conns[s].client \in Clients
      BY DEF Types, PoolTypes, Connection
    <3> QED BY <2>1, <3>1 DEF OneEntryEach
  <2>5. \A d \in Clients : sock'[d] = "idle" => d \notin backlog' /\ d \notin closed'
    BY <2>1, <2>3 DEF OneEntryEach
  <2>6. \A d \in backlog' : d \notin closed'
    BY <2>1 DEF OneEntryEach
  <2>7. \A s \in ConnSlots : Open(s)' <=> Open(s)
    BY <2>1 DEF Open
  <2>8. \A s \in ConnSlots : Open(s)' => /\ conns'[s].client \notin closed'
                                        /\ conns'[s].client \notin backlog'
                                        /\ sock'[conns'[s].client] # "idle"
    BY <2>1, <2>3, <2>4, <2>7 DEF OneEntryEach
  <2>9. \A s, t \in ConnSlots :
          Open(s)' /\ Open(t)' /\ conns'[s].client = conns'[t].client => s = t
    BY <2>1, <2>7 DEF OneEntryEach
  <2> QED BY <2>2, <2>5, <2>6, <2>8, <2>9 DEF OneEntryEach
<1>5. ASSUME NEW c \in Clients, HangUp(c)
      PROVE  SockTypes' /\ OneEntryEach'
  <2>1. sock' = [sock EXCEPT ![c] = "shut"] /\ sock[c] = "open" /\ UNCHANGED <<backlog, closed, conns>>
    BY <1>5 DEF HangUp, poolVars
  <2>2. SockTypes'
    BY <2>1 DEF SockTypes
  <2>3. \A d \in Clients : sock'[d] = "idle" <=> sock[d] = "idle"
    BY <2>1 DEF SockTypes
  <2>4. \A s \in ConnSlots : conns[s].client \in Clients
    BY DEF Types, PoolTypes, Connection
  <2> QED BY <2>1, <2>2, <2>3, <2>4 DEF OneEntryEach, Open
<1>6. CASE Select
  <2>1. UNCHANGED <<sock, closed>>
    BY <1>6 DEF Select, clientVars
  <2>2. ASSUME NEW t \in FreeConn, NEW c \in backlog,
               backlog' = backlog \ {c}, c \in Clients, t \in ConnSlots,
               Open(t)', ~Open(t), conns'[t].client = c,
               \A s \in ConnSlots \ {t} : conns'[s] = conns[s]
        PROVE  OneEntryEach'
    <3>1. \A s \in ConnSlots \ {t} : Open(s)' <=> Open(s)
      BY <2>2 DEF Open
    <3>2. c \notin closed /\ sock[c] # "idle"
      BY <2>2 DEF OneEntryEach
    <3>3. \A s \in ConnSlots : Open(s) => conns[s].client # c
      BY <2>2 DEF OneEntryEach
    <3>4. \A s \in ConnSlots : Open(s)' => /\ conns'[s].client \notin closed'
                                        /\ conns'[s].client \notin backlog'
                                        /\ sock'[conns'[s].client] # "idle"
      BY <2>1, <2>2, <3>1, <3>2 DEF OneEntryEach
    <3>5. \A s, d \in ConnSlots :
          Open(s)' /\ Open(d)' /\ conns'[s].client = conns'[d].client => s = d
      BY <2>2, <3>1, <3>3 DEF OneEntryEach
    <3>6. /\ \A d \in Clients : sock'[d] = "idle" => d \notin backlog' /\ d \notin closed'
          /\ \A d \in backlog' : d \notin closed'
      BY <2>1, <2>2 DEF OneEntryEach
    <3> QED BY <3>4, <3>5, <3>6 DEF OneEntryEach
  <2>3. CASE UNCHANGED <<backlog, conns>>
    BY <1>1, <1>2, <2>1, <2>3
  <2> QED BY <1>6, <2>1, <2>2, <2>3, Accepts DEF SockTypes
<1>7. ASSUME NEW s \in ConnSlots, ReadsFrom(s)
      PROVE  SockTypes' /\ OneEntryEach'
  <2>1. Outcome(s) /\ Open(s) /\ conns[s].client \in Clients /\ UNCHANGED <<sock, backlog>>
    BY <1>7, ReadsAreNew, ReadsAreOpen, ReadsStayInPlace
  <2>2. CASE EntriesStay /\ closed' = closed
    BY <1>1, <2>1, <2>2
  <2>3. ASSUME closed' = closed \cup {conns[s].client}, ~Open(s)',
               \A t \in ConnSlots : /\ conns'[t].client = conns[t].client
                                    /\ t # s => (Open(t)' <=> Open(t))
        PROVE  SockTypes' /\ OneEntryEach'
    <3>1. SockTypes'
      BY <2>1, <2>3 DEF SockTypes
    <3>2. \A t \in ConnSlots : Open(t)' => Open(t) /\ t # s
      BY <2>3
    <3>3. /\ \A d \in Clients : sock'[d] = "idle" => d \notin backlog' /\ d \notin closed'
          /\ \A d \in backlog' : d \notin closed'
      BY <2>1, <2>3 DEF OneEntryEach
    <3>4. \A t \in ConnSlots : Open(t)' => /\ conns'[t].client \notin closed'
                                        /\ conns'[t].client \notin backlog'
                                        /\ sock'[conns'[t].client] # "idle"
      BY <2>1, <2>3, <3>2 DEF OneEntryEach
    <3>5. \A t, d \in ConnSlots :
          Open(t)' /\ Open(d)' /\ conns'[t].client = conns'[d].client => t = d
      BY <2>3, <3>2 DEF OneEntryEach
    <3> QED BY <3>1, <3>3, <3>4, <3>5 DEF OneEntryEach
  <2> QED BY <2>1, <2>2, <2>3, LinesAndEntries
<1> QED
  BY <1>3, <1>4, <1>5, <1>6, <1>7, StepKinds

(* The connections the server goes through stay open until it is there.     *)
LEMMA ReadyStayOpen ==
  ASSUME Types, LineTypes, LinesInOrder, ReadyAreOpen, [Next]_vars
  PROVE  ReadyAreOpen'
<1>1. None \notin ConnSlots
  BY ServerAssumption DEF ServerAssumption
<1>2. conns \in [ConnSlots -> Connection] /\ todo \subseteq ConnSlots /\ cur \in ConnSlots \cup {None}
  BY DEF Types, PoolTypes, PlaceTypes
<1>3. CASE UNCHANGED <<conns, todo, cur, phase>>
  BY <1>3 DEF ReadyAreOpen, Open
<1>4. CASE \/ UNCHANGED vars \/ \E c \in Clients : Connect(c) \/ Send(c) \/ HangUp(c)
           \/ \E j \in jobs : (\E x : ChildExits(j, x)) \/ finishedJob(j)
           \/ \E m \in MatchSlots : StartBest(m)
  BY <1>3, <1>4 DEF vars, Connect, Send, HangUp, ChildExits, finishedJob, StartBest, poolVars
<1>5. CASE AllHandled
  <2>1. conns' = conns /\ todo' = {} /\ cur' = None /\ phase' = "reap"
    BY <1>5 DEF AllHandled, poolVars
  <2> QED BY <2>1 DEF ReadyAreOpen
<1>6. CASE NothingToStart
  <2>1. UNCHANGED <<conns, todo, cur>> /\ phase = "start" /\ phase' = "wait"
    BY <1>6 DEF NothingToStart
  <2> QED BY <2>1 DEF ReadyAreOpen, Open
<1>7. CASE RemoveClosed
  <2>1. UNCHANGED <<todo, cur>> /\ phase = "reap" /\ phase' = "start"
    BY <1>7 DEF RemoveClosed
  <2>2. EntriesStay /\ \A s \in ConnSlots : conns'[s].status # "CLOSED"
    BY <1>7, RemovingKeepsEntries
  <2> QED BY <1>2, <2>1, <2>2 DEF ReadyAreOpen, EntriesStay
<1>8. CASE Select
  <2>1. /\ todo' = {s \in ConnSlots : conns[s].status # "FREE" /\ Readable(conns[s].client)}
        /\ phase = "wait" /\ phase' = "serve" /\ cur' = cur
    BY <1>8 DEF Select
  <2>2. \A s \in todo' : s \in ConnSlots /\ Open(s) /\ conns[s].status # "FREE"
    <3>1. \A s \in ConnSlots : conns[s].status \in {"FREE", "UNVALIDATED", "OKAY", "CLOSED"}
      BY <1>2 DEF Connection
    <3>2. \A s \in ConnSlots : conns[s].status # "CLOSED"
      BY <2>1 DEF ReadyAreOpen
    <3> QED BY <2>1, <3>1, <3>2 DEF Open
  <2>3. cur = None
    BY <2>1 DEF ReadyAreOpen
  <2>4. \A s \in todo' : Open(s)'
    <3>1. CASE UNCHANGED <<backlog, conns>>
      BY <2>2, <3>1 DEF Open
    <3>2. CASE UNCHANGED <<backlog, conns>> \/ \E t \in ConnSlots :
                  Open(t)' /\ \A s \in ConnSlots \ {t} : conns'[s] = conns[s]
      BY <2>2, <3>1, <3>2 DEF Open
    <3> QED BY <1>8, <3>1, <3>2, Accepts
  <2> QED BY <2>1, <2>3, <2>4 DEF ReadyAreOpen
<1>9. ASSUME NEW s \in ConnSlots, ReadsFrom(s)
      PROVE  ReadyAreOpen'
  <2>1. Outcome(s) /\ Open(s)
    BY <1>9, ReadsAreNew, ReadsAreOpen
  <2>2. /\ phase' \in {"serve", "reading"}
        /\ \/ cur = s /\ todo' = todo
           \/ cur = None /\ s \in todo /\ todo' = todo \ {s}
        /\ cur' \in {s, None}
        /\ closeConnection(s) => cur' = None
    BY <1>9, ReadsStayInPlace
  <2>3. \A t \in todo' : Open(t) /\ t # s /\ t \in ConnSlots
    BY <1>1, <1>2, <2>2 DEF ReadyAreOpen
  <2>4. CASE EntriesStay
    <3>1. \A t \in todo' : Open(t)'
      BY <2>3, <2>4 DEF EntriesStay
    <3>2. Open(s)'
      BY <2>1, <2>4 DEF EntriesStay
    <3> QED BY <2>2, <2>3, <3>1, <3>2 DEF ReadyAreOpen
  <2>5. CASE /\ closeConnection(s)
             /\ \A t \in ConnSlots : t # s => (Open(t)' <=> Open(t))
    <3>1. \A t \in todo' : Open(t)'
      BY <2>3, <2>5
    <3> QED BY <2>2, <2>5, <3>1 DEF ReadyAreOpen
  <2> QED BY <2>1, <2>4, <2>5, LinesAndEntries
<1> QED
  BY <1>4, <1>5, <1>6, <1>7, <1>8, <1>9, StepKinds

(***************************************************************************)
(* Entries of the queue and the requests they are for                      *)
(***************************************************************************)
EntryAgrees(m) ==
    LET k == matches[m] IN
    /\ k.request \in asked /\ k.game = Asked[k.request].game
    /\ k.seats = PlayersOf(k.request) /\ k.numRuns >= 0

(* An entry is what its request asked for, one whose match is still to be   *)
(* played over a connection points to that of the client that asked, and a  *)
(* request has one entry at most.                                           *)
EntriesAgree ==
    /\ asked \subseteq Requests
    /\ \A m \in MatchSlots : matches[m] \in Match => EntryAgrees(m)
    /\ \A m \in MatchSlots : Ready(m) =>
         conns[matches[m].conn].client = Sender(matches[m].request)
    /\ \A m, n \in MatchSlots : /\ matches[m] \in Match /\ matches[n] \in Match
                               /\ matches[m].request = matches[n].request => m = n

(* The entry m goes on for the same request, with no more runs to start.    *)
GoesOn(m) ==
    /\ matches[m] \in Match /\ matches'[m].request = matches[m].request
    /\ matches'[m].game = matches[m].game /\ matches'[m].seats = matches[m].seats
    /\ matches'[m].conn = matches[m].conn
    /\ matches'[m].numRuns >= 0 /\ (matches'[m].numRuns > 0 => matches[m].numRuns > 0)
EntriesGoOn == \A m \in MatchSlots : matches'[m] \in Match => GoesOn(m)

(* Entries that only go on keep agreeing with their requests.               *)
LEMMA GoingOnKeepsAgreeing ==
  ASSUME EntriesAgree, EntriesGoOn, asked' = asked,
         \A m \in MatchSlots : Ready(m) =>
            conns'[matches[m].conn].client = conns[matches[m].conn].client
  PROVE  EntriesAgree'
<1>1. \A m \in MatchSlots : matches'[m] \in Match => EntryAgrees(m)'
  BY DEF EntriesAgree, EntriesGoOn, GoesOn, EntryAgrees
<1>2. \A m \in MatchSlots : Ready(m)' => Ready(m)
  BY DEF EntriesGoOn, GoesOn, Ready, HasLocal
<1>3. \A m \in MatchSlots : Ready(m)' =>
         conns'[matches'[m].conn].client = Sender(matches'[m].request)
  <2> SUFFICES ASSUME NEW m \in MatchSlots, Ready(m)'
               PROVE  conns'[matches'[m].conn].client = Sender(matches'[m].request)
    OBVIOUS
  <2>1. matches'[m].conn = matches[m].conn /\ matches'[m].request = matches[m].request
    BY DEF EntriesGoOn, GoesOn, Ready
  <2> QED BY <1>2, <2>1 DEF EntriesAgree
<1>4. \A m, n \in MatchSlots : /\ matches'[m] \in Match /\ matches'[n] \in Match
                              /\ matches'[m].request = matches'[n].request => m = n
  BY DEF EntriesAgree, EntriesGoOn, GoesOn
<1> QED
  BY <1>1, <1>3, <1>4 DEF EntriesAgree

(* What is cleaned up has no runs left.                                     *)
LEMMA CleanedGoOn ==
  ASSUME Types, EntriesAgree, NEW m \in MatchSlots
  PROVE  \/ CleanedUp[m] = matches[m]
         \/ /\ CleanedUp[m] = NoMatch /\ CleanedUp[m] \notin Match /\ matches[m] \in Match
            /\ matches[m].numRuns = 0 /\ ~matches[m].isRunning
<1>1. NoMatch \notin Match
  BY ServerAssumption DEF ServerAssumption, Match
<1>2. CASE m \in Queued /\ Finished(m)
  <2>1. matches[m] \in Match
    BY <1>2, QueuedAreMatches DEF Types, PoolTypes
  <2>2. matches[m].numRuns >= 0 /\ matches[m].numRuns <= 0 /\ matches[m].numRuns \in Int
    BY <1>2, <2>1 DEF EntriesAgree, EntryAgrees, Finished, Match
  <2>3. matches[m].numRuns = 0
    BY <2>2
  <2> QED BY <1>1, <1>2, <2>1, <2>3 DEF CleanedUp, Finished
<1>3. CASE ~(m \in Queued /\ Finished(m))
  BY <1>3 DEF CleanedUp
<1> QED
  BY <1>2, <1>3

(* A match that stays as it is goes on.                                     *)
LEMMA SameGoesOn ==
  ASSUME EntriesAgree, NEW m \in MatchSlots, matches'[m] = matches[m], matches[m] \in Match
  PROVE  GoesOn(m)
BY DEF EntriesAgree, EntryAgrees, GoesOn

(* Starting a match lets the entries go on.                                 *)
LEMMA StartsGoOn ==
  ASSUME Types, EntriesAgree, NEW m \in MatchSlots, StartBest(m)
  PROVE  EntriesGoOn
<1>1. /\ matches[m] \in Match /\ matches[m].numRuns > 0
      /\ matches'[m] = [matches[m] EXCEPT !.isRunning = TRUE,
                                          !.numRuns = matches[m].numRuns - 1]
      /\ \A n \in MatchSlots \ {m} : matches'[n] = CleanedUp[n]
  BY StartedMatch
<1>2. GoesOn(m)
  <2>1. /\ matches'[m].request = matches[m].request /\ matches'[m].game = matches[m].game
        /\ matches'[m].seats = matches[m].seats /\ matches'[m].conn = matches[m].conn
        /\ matches'[m].numRuns = matches[m].numRuns - 1 /\ matches[m].numRuns \in Int
    BY <1>1 DEF Match
  <2> DEFINE n0 == matches[m].numRuns
  <2>2. n0 - 1 >= 0
    BY <1>1, <2>1
  <2> QED BY <1>1, <2>1, <2>2 DEF GoesOn
<1>3. ASSUME NEW n \in MatchSlots \ {m}, matches'[n] \in Match
      PROVE  GoesOn(n)
  <2>1. matches'[n] = CleanedUp[n] /\ CleanedUp[n] \in Match
    BY <1>1, <1>3
  <2>2. CleanedUp[n] = matches[n]
    BY <2>1, CleanedGoOn
  <2> QED BY <2>1, <2>2, SameGoesOn
<1> QED
  BY <1>2, <1>3 DEF EntriesGoOn

(* So does cleaning up.                                                     *)
LEMMA CleaningGoesOn ==
  ASSUME Types, EntriesAgree, NothingToStart
  PROVE  EntriesGoOn
<1> SUFFICES ASSUME NEW n \in MatchSlots, matches'[n] \in Match
             PROVE  GoesOn(n)
  BY DEF EntriesGoOn
<1>1. matches' = CleanedUp
  BY DEF NothingToStart
<1>2. CleanedUp[n] = matches[n]
  BY <1>1, CleanedGoOn
<1> QED
  BY <1>1, <1>2, SameGoesOn

(* And so does the end of a job.                                            *)
LEMMA FinishesGoOn ==
  ASSUME Types, JobsAgreeWithMatches, EntriesAgree, NEW j \in jobs, finishedJob(j)
  PROVE  EntriesGoOn
<1>1. PICK m \in MatchSlots : m = j.match
  BY FinishedJob
<1>2. /\ matches[m] \in Match /\ matches'[m] = [matches[m] EXCEPT !.isRunning = FALSE]
      /\ \A n \in MatchSlots \ {m} : matches'[n] = matches[n]
  BY <1>1, FinishedJob
<1>3. GoesOn(m)
  <2>1. /\ matches'[m].request = matches[m].request /\ matches'[m].game = matches[m].game
        /\ matches'[m].seats = matches[m].seats /\ matches'[m].conn = matches[m].conn
        /\ matches'[m].numRuns = matches[m].numRuns
    BY <1>2 DEF Match
  <2> QED BY <1>2, <2>1 DEF GoesOn, EntriesAgree, EntryAgrees
<1>4. ASSUME NEW n \in MatchSlots \ {m}, matches'[n] \in Match
      PROVE  GoesOn(n)
  BY <1>2, <1>4, SameGoesOn
<1> QED
  BY <1>3, <1>4 DEF EntriesGoOn

(* Closing takes the runs of the matches that are played over the           *)
(* connection away and leaves all else.                                     *)
LEMMA ClosesGoOn ==
  ASSUME Types, EntriesAgree, NEW s \in ConnSlots, closeConnection(s)
  PROVE  /\ EntriesGoOn
         /\ \A m \in MatchSlots : matches[m] \in Match =>
              /\ matches'[m] \in Match /\ matches'[m].isRunning = matches[m].isRunning
              /\ matches'[m].request = matches[m].request
              /\ matchUsesConnection(m, s) => matches'[m].numRuns = 0
              /\ ~matchUsesConnection(m, s) => matches'[m] = matches[m]
<1>1. matches \in [MatchSlots -> Match \cup {NoMatch}] /\ NoMatch \notin Match
      /\ Queued = {m \in MatchSlots : matches[m] \in Match}
  BY ServerAssumption, QueuedAreMatches DEF Types, PoolTypes, ServerAssumption, Match
<1>2. matches' = [m \in MatchSlots |->
                     IF m \in Queued /\ matchUsesConnection(m, s)
                     THEN [matches[m] EXCEPT !.numRuns = 0] ELSE matches[m]]
  BY DEF closeConnection
<1>3. ASSUME NEW m \in MatchSlots, matches[m] \in Match, matchUsesConnection(m, s)
      PROVE  /\ matches'[m] \in Match /\ matches'[m].isRunning = matches[m].isRunning
             /\ matches'[m].request = matches[m].request /\ matches'[m].numRuns = 0
             /\ GoesOn(m)
  <2>1. matches'[m] = [matches[m] EXCEPT !.numRuns = 0]
    BY <1>1, <1>2, <1>3
  <2>2. \A k \in Match : LET l == [k EXCEPT !.numRuns = 0] IN
          /\ l \in Match /\ l.isRunning = k.isRunning /\ l.request = k.request /\ l.numRuns = 0
          /\ l.game = k.game /\ l.seats = k.seats /\ l.conn = k.conn
    BY DEF Match
  <2>3. /\ matches'[m] \in Match /\ matches'[m].isRunning = matches[m].isRunning
        /\ matches'[m].request = matches[m].request /\ matches'[m].numRuns = 0
        /\ matches'[m].game = matches[m].game /\ matches'[m].seats = matches[m].seats
        /\ matches'[m].conn = matches[m].conn
    BY <1>3, <2>1, <2>2
  <2> QED BY <1>3, <2>3 DEF GoesOn
<1>4. ASSUME NEW m \in MatchSlots, matches[m] \in Match, ~matchUsesConnection(m, s)
      PROVE  matches'[m] = matches[m] /\ GoesOn(m)
  <2>1. matches'[m] = matches[m]
    BY <1>2, <1>4
  <2> QED BY <1>4, <2>1, SameGoesOn
<1>5. \A m \in MatchSlots : matches[m] \notin Match => matches'[m] \notin Match
  BY <1>1, <1>2
<1>6. EntriesGoOn
  BY <1>3, <1>4, <1>5 DEF EntriesGoOn
<1> QED
  BY <1>3, <1>4, <1>6

(* A new request takes a free entry.                                        *)
LEMMA SubmitsAnEntry ==
  ASSUME Types, NEW s \in ConnSlots, NEW r \in Requests, Submits(s, r)
  PROVE  \E m \in MatchSlots :
           /\ matches[m] \notin Match /\ matches'[m] = NewMatch(s, r) /\ matches'[m] \in Match
           /\ \A n \in MatchSlots \ {m} : matches'[n] = matches[n]
<1>1. matches \in [MatchSlots -> Match \cup {NoMatch}]
      /\ Queued = {m \in MatchSlots : matches[m] \in Match}
  BY QueuedAreMatches DEF Types, PoolTypes
<1>2. PICK m \in MatchSlots \ Queued : matches' = [matches EXCEPT ![m] = NewMatch(s, r)]
  BY DEF Submits
<1>3. NewMatch(s, r) \in Match
  <2>1. conns[s].client \in Clients
    BY DEF Types, PoolTypes, Connection
  <2>2. SpecIsGood(r)
    BY DEF Submits
  <2> QED BY <2>1, <2>2, RequestsAreMatches DEF NewMatch
<1>4. m \in MatchSlots /\ matches[m] \notin Match
  BY <1>1
<1>5. matches'[m] = NewMatch(s, r) /\ \A n \in MatchSlots \ {m} : matches'[n] = matches[n]
  BY <1>1, <1>2
<1> QED
  BY <1>3, <1>4, <1>5

(* The entry of a new request agrees with it.                               *)
LEMMA SubmittingAgrees ==
  ASSUME Types, EntriesAgree, NEW s \in ConnSlots, NEW r \in Requests, Submits(s, r),
         r \notin asked, Sender(r) = conns[s].client
  PROVE  EntriesAgree'
<1>1. PICK m \in MatchSlots :
           /\ matches[m] \notin Match /\ matches'[m] = NewMatch(s, r) /\ matches'[m] \in Match
           /\ \A n \in MatchSlots \ {m} : matches'[n] = matches[n]
  BY SubmitsAnEntry
<1>2. asked' = asked \cup {r} /\ conns' = conns /\ SpecIsGood(r)
  BY DEF Submits
<1>3. /\ matches'[m].request = r /\ matches'[m].game = Asked[r].game
      /\ matches'[m].seats = PlayersOf(r) /\ matches'[m].conn = s /\ matches'[m].numRuns = Asked[r].runs
  BY <1>1 DEF NewMatch
<1>4. Asked[r].runs >= 0
  <2>1. Asked[r].runs \in 0 .. MaxMatchRuns[Asked[r].game]
    BY <1>2 DEF SpecIsGood
  <2> QED BY <2>1
<1>5. asked' \subseteq Requests
  BY <1>2 DEF EntriesAgree
<1>6. \A n \in MatchSlots : matches'[n] \in Match => EntryAgrees(n)'
  <2>1. EntryAgrees(m)'
    BY <1>2, <1>3, <1>4 DEF EntryAgrees
  <2>2. \A n \in MatchSlots \ {m} : matches'[n] \in Match => EntryAgrees(n)'
    BY <1>1, <1>2 DEF EntriesAgree, EntryAgrees
  <2> QED BY <2>1, <2>2
<1>7. \A n \in MatchSlots : Ready(n)' => conns'[matches'[n].conn].client = Sender(matches'[n].request)
  <2>1. conns'[matches'[m].conn].client = Sender(matches'[m].request)
    BY <1>2, <1>3
  <2>2. \A n \in MatchSlots \ {m} : Ready(n)' => Ready(n)
    BY <1>1 DEF Ready, HasLocal
  <2> QED BY <1>1, <1>2, <2>1, <2>2 DEF EntriesAgree
<1>8. \A n \in MatchSlots \ {m} : matches'[n] \in Match => matches'[n].request # r
  BY <1>1 DEF EntriesAgree, EntryAgrees
<1>9. \A n, k \in MatchSlots : /\ matches'[n] \in Match /\ matches'[k] \in Match
                              /\ matches'[n].request = matches'[k].request => n = k
  BY <1>1, <1>3, <1>8 DEF EntriesAgree
<1> QED
  BY <1>5, <1>6, <1>7, <1>9 DEF EntriesAgree

(* The entries go on agreeing with their requests.                          *)
LEMMA EntriesKeepAgreeing ==
  ASSUME Types, JobsAgreeWithMatches, ReadyAreServed, LineTypes, LinesInOrder, ReadyAreOpen,
         EntriesAgree, [Next]_vars
  PROVE  EntriesAgree'
<1>1. ASSUME EntriesGoOn, asked' = asked,
             \A s \in ConnSlots : conns[s].status = "OKAY" => conns'[s].client = conns[s].client
      PROVE  EntriesAgree'
  <2>1. \A m \in MatchSlots : Ready(m) => matches[m].conn \in ConnSlots
    BY DEF Ready, Match
  <2>2. \A m \in MatchSlots : Ready(m) => conns[matches[m].conn].status = "OKAY"
    BY DEF ReadyAreServed, Served
  <2> QED BY <1>1, <2>1, <2>2, GoingOnKeepsAgreeing
<1>2. matches' = matches => EntriesGoOn
  BY SameGoesOn DEF EntriesGoOn
<1>3. CASE \/ UNCHANGED vars \/ AllHandled \/ \E c \in Clients : Connect(c) \/ Send(c) \/ HangUp(c)
           \/ \E j \in jobs : \E x : ChildExits(j, x)
  <2>1. UNCHANGED <<matches, asked, conns>>
    BY <1>3 DEF vars, AllHandled, Connect, Send, HangUp, ChildExits, poolVars
  <2> QED BY <1>1, <1>2, <2>1
<1>4. CASE \E j \in jobs : finishedJob(j)
  <2>1. UNCHANGED <<asked, conns>>
    BY <1>4 DEF finishedJob
  <2> QED BY <1>1, <1>4, <2>1, FinishesGoOn
<1>5. CASE RemoveClosed
  <2>1. matches' = matches /\ asked' = asked
    BY <1>5 DEF RemoveClosed
  <2> QED BY <1>1, <1>2, <1>5, <2>1, RemovingKeepsEntries DEF EntriesStay
<1>6. CASE (\E m \in MatchSlots : StartBest(m)) \/ NothingToStart
  <2>1. UNCHANGED <<asked, conns>>
    BY <1>6 DEF StartBest, NothingToStart
  <2> QED BY <1>1, <1>6, <2>1, StartsGoOn, CleaningGoesOn
<1>7. CASE Select
  <2>1. matches' = matches /\ asked' = asked
    BY <1>7 DEF Select
  <2>2. \A t \in FreeConn : conns[t].status # "OKAY"
    BY DEF FreeConn
  <2>3. \A s \in ConnSlots : conns[s].status = "OKAY" => conns'[s].client = conns[s].client
    BY <1>7, <2>2, Accepts
  <2> QED BY <1>1, <1>2, <2>1, <2>3
<1>8. ASSUME NEW s \in ConnSlots, ReadsFrom(s)
      PROVE  EntriesAgree'
  <2>1. Outcome(s) /\ Open(s)
    BY <1>8, ReadsAreNew, ReadsAreOpen
  <2>2. \A t \in ConnSlots : conns'[t].client = conns[t].client
    BY <2>1, LinesAndEntries DEF EntriesStay
  <2>3. CASE Quiet(s)
    BY <1>1, <1>2, <2>2, <2>3 DEF Quiet
  <2>4. CASE closeConnection(s)
    <3>1. asked' = asked
      BY <2>4 DEF closeConnection
    <3> QED BY <1>1, <2>2, <2>4, <3>1, ClosesGoOn
  <2>5. CASE \E r \in Requests : Submits(s, r) /\ r \notin asked /\ Sender(r) = conns[s].client
    BY <2>5, SubmittingAgrees
  <2> QED BY <2>1, <2>3, <2>4, <2>5 DEF Outcome
<1> QED
  BY <1>3, <1>4, <1>5, <1>6, <1>7, <1>8, StepKinds

(***************************************************************************)
(* The queue of matches is implemented                                     *)
(***************************************************************************)
Left      == [r \in Requests |-> LeftOf(r)]
RunningOf == {matches[j.match].request : j \in jobs}

(* The runs left of a request are those of its entry.                       *)
LeftIsKnown ==
    /\ \A m \in MatchSlots : matches[m] \in Match =>
         LeftOf(matches[m].request) = matches[m].numRuns
    /\ \A r \in Requests :
         (\A m \in MatchSlots : matches[m] \in Match => matches[m].request # r) =>
            LeftOf(r) = IF r \in asked THEN 0 ELSE -1

(* The requests that run are those of the entries that run.                 *)
RunningIsKnown ==
    \A r : r \in RunningOf <=> \E m \in MatchSlots : Running(m) /\ matches[m].request = r

(* Both hold of every state with agreeing entries.                          *)
LEMMA AbstractStateIsKnown ==
  ASSUME Types, JobsAgreeWithMatches, EntriesAgree
  PROVE  LeftIsKnown /\ RunningIsKnown
<1>1. Queued = {m \in MatchSlots : matches[m] \in Match}
  BY QueuedAreMatches DEF Types, PoolTypes
<1>2. ASSUME NEW m \in MatchSlots, matches[m] \in Match
      PROVE  LeftOf(matches[m].request) = matches[m].numRuns
  <2>1. EntryOf(matches[m].request) = {m}
    BY <1>1, <1>2 DEF EntryOf, EntriesAgree
  <2>2. (CHOOSE n \in {m} : TRUE) = m
    OBVIOUS
  <2> QED BY <2>1, <2>2 DEF LeftOf
<1>3. ASSUME NEW r \in Requests,
             \A m \in MatchSlots : matches[m] \in Match => matches[m].request # r
      PROVE  LeftOf(r) = IF r \in asked THEN 0 ELSE -1
  <2>1. EntryOf(r) = {}
    BY <1>1, <1>3 DEF EntryOf
  <2> QED BY <2>1 DEF LeftOf
<1>4. LeftIsKnown
  BY <1>2, <1>3 DEF LeftIsKnown
<1>5. RunningIsKnown
  <2>1. \A j \in jobs : j.match \in MatchSlots
    BY DEF Types, PoolTypes, Job
  <2>2. JobsAreRunning
    BY JobsInTwoParts
  <2> QED BY <2>1, <2>2 DEF RunningIsKnown, RunningOf, JobsAreRunning
<1> QED
  BY <1>4, <1>5

(* An entry that keeps its runs, or is freed with none left, leaves its     *)
(* request as many as before.                                               *)
EntryKeeps(m) ==
    \/ /\ matches'[m] \in Match /\ matches'[m].request = matches[m].request
       /\ matches'[m].numRuns = matches[m].numRuns
    \/ matches'[m] \notin Match /\ matches[m].numRuns = 0

(* Then a request has as many runs left as before.                          *)
LEMMA LeftStays ==
  ASSUME EntriesAgree, LeftIsKnown, LeftIsKnown', NEW r \in Requests,
         r \in asked' <=> r \in asked,
         \A m \in MatchSlots : matches[m] \in Match /\ matches[m].request = r => EntryKeeps(m),
         \A m \in MatchSlots : matches'[m] \in Match /\ matches'[m].request = r =>
            matches[m] \in Match /\ matches[m].request = r
  PROVE  LeftOf(r)' = LeftOf(r)
<1>1. CASE \A m \in MatchSlots : matches[m] \in Match => matches[m].request # r
  <2>1. \A m \in MatchSlots : matches'[m] \in Match => matches'[m].request # r
    BY <1>1
  <2>2. LeftOf(r) = IF r \in asked THEN 0 ELSE -1
    BY <1>1 DEF LeftIsKnown
  <2>3. LeftOf(r)' = IF r \in asked' THEN 0 ELSE -1
    BY <2>1 DEF LeftIsKnown
  <2> QED BY <2>2, <2>3
<1>2. ASSUME NEW m \in MatchSlots, matches[m] \in Match, matches[m].request = r
      PROVE  LeftOf(r)' = LeftOf(r)
  <2>1. LeftOf(r) = matches[m].numRuns
    BY <1>2 DEF LeftIsKnown
  <2>2. CASE /\ matches'[m] \in Match /\ matches'[m].request = matches[m].request
             /\ matches'[m].numRuns = matches[m].numRuns
    <3>1. LeftOf(r)' = matches'[m].numRuns
      BY <1>2, <2>2 DEF LeftIsKnown
    <3> QED BY <2>1, <2>2, <3>1
  <2>3. CASE matches'[m] \notin Match /\ matches[m].numRuns = 0
    <3>1. \A n \in MatchSlots : matches'[n] \in Match => matches'[n].request # r
      BY <1>2, <2>3 DEF EntriesAgree
    <3>2. LeftOf(r)' = IF r \in asked' THEN 0 ELSE -1
      BY <3>1 DEF LeftIsKnown
    <3>3. r \in asked
      BY <1>2 DEF EntriesAgree, EntryAgrees
    <3> QED BY <2>1, <2>3, <3>2, <3>3
  <2> QED BY <1>2, <2>2, <2>3 DEF EntryKeeps
<1> QED
  BY <1>1, <1>2

(* So do all of them.                                                       *)
LEMMA AllLeftStay ==
  ASSUME EntriesAgree, LeftIsKnown, LeftIsKnown', EntriesGoOn, asked' = asked,
         \A m \in MatchSlots : matches[m] \in Match => EntryKeeps(m)
  PROVE  Left' = Left
<1>1. \A r \in Requests : LeftOf(r)' = LeftOf(r)
  BY LeftStays DEF EntriesGoOn, GoesOn
<1> QED
  BY <1>1 DEF Left

(* The running requests stay, when running entries do.                      *)
LEMMA RunningStaysKnown ==
  ASSUME RunningIsKnown, RunningIsKnown',
         \A m \in MatchSlots : Running(m)' <=> Running(m),
         \A m \in MatchSlots : Running(m) => matches'[m].request = matches[m].request
  PROVE  RunningOf' = RunningOf
<1>1. \A r : r \in RunningOf' <=> r \in RunningOf
  BY DEF RunningIsKnown
<1> QED
  BY <1>1

(* MatchQueue counts as the server does.                                    *)
LEMMA QueueCounts ==
  ASSUME NEW S
  PROVE  Queue!Cardinality(S) = Cardinality(S)
BY DEF Queue!Cardinality, Cardinality

(* A match that is started is one the queue may start.                      *)
LEMMA StartsAreStarts ==
  ASSUME Types, JobsAgreeWithMatches, ReadyAreServed, OneEntryEach, EntriesAgree,
         LeftIsKnown, LeftIsKnown', RunningIsKnown, RunningIsKnown',
         NEW m \in MatchSlots, StartBest(m)
  PROVE  \E r \in Requests : Queue!Start(r)
<1>1. PICK r : r = matches[m].request
  OBVIOUS
<1>2. /\ matches[m] \in Match /\ ~matches[m].isRunning /\ ~GameIsBusy(matches[m].game)
      /\ matches[m].numRuns > 0
      /\ matches'[m] = [matches[m] EXCEPT !.isRunning = TRUE,
                                          !.numRuns = matches[m].numRuns - 1]
      /\ \A n \in MatchSlots \ {m} : matches'[n] = CleanedUp[n]
  BY StartedMatch
<1>3. /\ matches'[m] \in Match /\ matches'[m].request = r /\ matches'[m].isRunning
      /\ matches'[m].numRuns = matches[m].numRuns - 1 /\ r \in Requests
      /\ matches[m].game \in Games
  <2>2. matches[m].numRuns \in Int /\ matches[m].request \in Requests /\ matches[m].game \in Games
    BY <1>2 DEF Match
  <2>3. matches[m].numRuns - 1 \in Int
    BY <2>2
  <2>4. /\ matches'[m] \in Match /\ matches'[m].request = matches[m].request
        /\ matches'[m].isRunning /\ matches'[m].numRuns = matches[m].numRuns - 1
    <3> DEFINE k == matches[m]
               n == matches[m].numRuns - 1
               l == [k EXCEPT !.isRunning = TRUE, !.numRuns = n]
    <3>1. k \in Match /\ n \in Int
      BY <1>2, <2>3
    <3>2. matches'[m] = l
      BY <1>2
    <3> HIDE DEF k, n
    <3>3. l \in Match /\ l.request = k.request /\ l.isRunning /\ l.numRuns = n
      BY <3>1 DEF Match
    <3> HIDE DEF l
    <3> QED BY <3>2, <3>3 DEF k, n
  <2> QED BY <1>1, <2>2, <2>4
<1>4. asked' = asked /\ closed' = closed
  BY DEF StartBest
<1>5. ASSUME NEW n \in MatchSlots \ {m}
      PROVE  /\ matches[n] \in Match => EntryKeeps(n)
             /\ matches'[n] \in Match => matches[n] \in Match /\ matches'[n] = matches[n]
             /\ Running(n)' <=> Running(n)
             /\ Running(n) => matches'[n] = matches[n]
  <2>1. matches'[n] = CleanedUp[n]
    BY <1>2, <1>5
  <2>2. CASE CleanedUp[n] = matches[n]
    BY <2>1, <2>2 DEF EntryKeeps, Running
  <2>3. CASE /\ CleanedUp[n] = NoMatch /\ CleanedUp[n] \notin Match /\ matches[n] \in Match
            /\ matches[n].numRuns = 0 /\ ~matches[n].isRunning
    BY <2>1, <2>3 DEF EntryKeeps, Running
  <2> QED BY <2>2, <2>3, CleanedGoOn
<1>6. LeftOf(r) = matches[m].numRuns /\ LeftOf(r)' = matches[m].numRuns - 1
  BY <1>1, <1>2, <1>3 DEF LeftIsKnown
<1>7. \A q \in Requests \ {r} : LeftOf(q)' = LeftOf(q)
  <2> SUFFICES ASSUME NEW q \in Requests \ {r} PROVE LeftOf(q)' = LeftOf(q)
    OBVIOUS
  <2>1. \A n \in MatchSlots : matches[n] \in Match /\ matches[n].request = q => EntryKeeps(n)
    BY <1>1, <1>5
  <2>2. \A n \in MatchSlots : matches'[n] \in Match /\ matches'[n].request = q =>
            matches[n] \in Match /\ matches[n].request = q
    BY <1>3, <1>5
  <2> QED BY <1>4, <2>1, <2>2, LeftStays
<1>8. Left' = [Left EXCEPT ![r] = Left[r] - 1]
  BY <1>3, <1>6, <1>7 DEF Left
<1>9. RunningOf' = RunningOf \cup {r}
  <2>1. \A q : q \in RunningOf' <=> q \in RunningOf \/ q = r
    <3>1. Running(m)' /\ ~Running(m)
      BY <1>2, <1>3 DEF Running
    <3>2. \A q : q \in RunningOf => q \in RunningOf'
      BY <1>5, <3>1 DEF RunningIsKnown
    <3>3. r \in RunningOf'
      BY <1>3, <3>1 DEF RunningIsKnown
    <3>4. \A q : q \in RunningOf' /\ q # r => q \in RunningOf
      BY <1>3, <1>5 DEF RunningIsKnown
    <3> QED BY <3>2, <3>3, <3>4
  <2> QED BY <2>1
<1>10. r \notin RunningOf
  <2>1. \A n \in MatchSlots : Running(n) /\ matches[n].request = r => n = m
    BY <1>1, <1>2 DEF EntriesAgree, Running
  <2> QED BY <1>2, <2>1 DEF RunningIsKnown, Running
<1>11. LocalSeats(r) => Sender(r) \notin closed
  <2> SUFFICES ASSUME LocalSeats(r) PROVE Sender(r) \notin closed
    OBVIOUS
  <2>1. matches[m].seats = PlayersOf(r)
    BY <1>1, <1>2 DEF EntriesAgree, EntryAgrees
  <2>2. \E p \in DOMAIN matches[m].seats : matches[m].seats[p] = TRUE
    BY <2>1 DEF LocalSeats, Range
  <2>3. Ready(m)
    BY <1>2, <2>2 DEF Ready, HasLocal
  <2>4. conns[matches[m].conn].status = "OKAY" /\ matches[m].conn \in ConnSlots
    BY <1>2, <2>3 DEF ReadyAreServed, Served, Match
  <2>5. conns[matches[m].conn].client \notin closed
    BY <2>4 DEF OneEntryEach, Open
  <2> QED BY <1>1, <2>3, <2>5 DEF EntriesAgree
<1>12. ~Queue!Busy(Game(r))
  <2> DEFINE g == matches[m].game
             J == JobsOf(g)
             R == {q \in RunningOf : Game(q) = g}
  <2>1. Game(r) = g
    BY <1>1, <1>2 DEF EntriesAgree, EntryAgrees, Game
  <2>2. IsFiniteSet(J) /\ Cardinality(J) \in Nat /\ curRunningJobs[g] = Cardinality(J)
    BY <1>3, JobsSetsAreFinite DEF JobsAgreeWithMatches
  <2>3. R \subseteq {matches[j.match].request : j \in J}
    <3>1. ASSUME NEW j \in jobs PROVE Game(matches[j.match].request) = matches[j.match].game
      <4>1. j.match \in MatchSlots /\ matches[j.match] \in Match
        BY JobsInTwoParts DEF Types, PoolTypes, Job, JobsAreRunning, Running
      <4> QED BY <4>1 DEF EntriesAgree, EntryAgrees, Game
    <3> QED BY <3>1 DEF RunningOf, JobsOf
  <2> DEFINE f == [j \in J |-> matches[j.match].request]
             I == {f[j] : j \in J}
  <2>4. I = {matches[j.match].request : j \in J}
    OBVIOUS
  <2>5. R \subseteq I
    BY <2>3, <2>4
  <2>6. IsFiniteSet(I) /\ Cardinality(I) <= Cardinality(J)
    <3> HIDE DEF J
    <3>1. f \in [J -> I]
      OBVIOUS
    <3>2. f \in Surjection(J, I)
      <4>1. \A i \in I : \E j \in J : f[j] = i
        OBVIOUS
      <4> HIDE DEF f, I
      <4> QED BY <3>1, <4>1 DEF Surjection
    <3> HIDE DEF f, I
    <3> QED BY <2>2, <3>2, FS_Surjection
  <2> HIDE DEF J, R, I, f
  <2>7. IsFiniteSet(R) /\ Cardinality(R) <= Cardinality(I)
    BY <2>5, <2>6, FS_Subset
  <2>8. Cardinality(R) \in Nat /\ Cardinality(I) \in Nat
    BY <2>6, <2>7, FS_CardinalityType
  <2>9. Cardinality(R) <= curRunningJobs[g] /\ curRunningJobs[g] \in Nat
    BY <2>2, <2>6, <2>7, <2>8
  <2>10. MaxRunningJobs[g] # 0 => curRunningJobs[g] < MaxRunningJobs[g]
    <3>1. MaxRunningJobs[g] \in Nat
      BY <1>3, ServerAssumption DEF ServerAssumption
    <3> QED BY <1>2, <2>9, <3>1 DEF GameIsBusy
  <2>11. MaxRunningJobs[g] \in Nat
    BY <1>3, ServerAssumption DEF ServerAssumption
  <2>12. ~(MaxRunningJobs[g] # 0 /\ Cardinality(R) >= MaxRunningJobs[g])
    BY <2>8, <2>9, <2>10, <2>11
  <2>13. R = {q \in RunningOf : Game(q) = Game(r)}
    BY <2>1 DEF R
  <2>14. ~(Limit(Game(r)) # 0 /\ Cardinality({q \in RunningOf : Game(q) = Game(r)}) >= Limit(Game(r)))
    BY <2>1, <2>12, <2>13 DEF Limit
  <2>15. ~(Limit(Game(r)) # 0 /\ Queue!Cardinality({q \in RunningOf : Game(q) = Game(r)}) >= Limit(Game(r)))
    BY <2>14, QueueCounts
  <2> QED BY <2>15 DEF Queue!Busy, RunningOf
<1>13. Left[r] > 0
  BY <1>2, <1>3, <1>6 DEF Left
<1>14. Queue!Start(r)
  BY <1>4, <1>8, <1>9, <1>10, <1>11, <1>12, <1>13 DEF Queue!Start, Left, RunningOf
<1> QED
  BY <1>3, <1>14

(* A job that ends is the end of its request's run.                         *)
LEMMA FinishesAreFinishes ==
  ASSUME Types, JobsAgreeWithMatches, EntriesAgree, LeftIsKnown, LeftIsKnown',
         RunningIsKnown, RunningIsKnown', NEW j \in jobs, finishedJob(j)
  PROVE  \E r \in Requests : Queue!Finish(r)
<1>1. PICK m \in MatchSlots : m = j.match
  BY FinishedJob
<1>2. PICK r : r = matches[m].request
  OBVIOUS
<1>3. /\ matches[m] \in Match /\ matches'[m] = [matches[m] EXCEPT !.isRunning = FALSE]
      /\ \A n \in MatchSlots \ {m} : matches'[n] = matches[n]
  BY <1>1, FinishedJob
<1>4. /\ matches'[m] \in Match /\ ~matches'[m].isRunning /\ matches'[m].request = r
      /\ matches'[m].numRuns = matches[m].numRuns /\ r \in Requests
  BY <1>2, <1>3 DEF Match
<1>5. asked' = asked /\ closed' = closed
  BY DEF finishedJob
<1>6. Running(m) /\ ~Running(m)'
  <2>1. Running(m)
    BY <1>1, JobsInTwoParts DEF JobsAreRunning
  <2> QED BY <1>4, <2>1 DEF Running
<1>7. \A n \in MatchSlots \ {m} : Running(n)' <=> Running(n)
  BY <1>3 DEF Running
<1>8. Left' = Left
  <2>1. \A n \in MatchSlots : matches[n] \in Match => EntryKeeps(n)
    BY <1>2, <1>3, <1>4 DEF EntryKeeps
  <2> QED BY <1>5, <2>1, FinishesGoOn, AllLeftStay
<1>9. r \in RunningOf
  BY <1>2, <1>6 DEF RunningIsKnown
<1>10. RunningOf' = RunningOf \ {r}
  <2>1. \A n \in MatchSlots \ {m} : Running(n) => matches[n].request # r
    BY <1>2, <1>3 DEF EntriesAgree, Running
  <2>2. \A q : q \in RunningOf' => q \in RunningOf /\ q # r
    BY <1>3, <1>6, <1>7, <2>1 DEF RunningIsKnown
  <2>3. \A q : q \in RunningOf /\ q # r => q \in RunningOf'
    BY <1>2, <1>3, <1>6, <1>7 DEF RunningIsKnown
  <2> QED BY <2>2, <2>3
<1>11. Queue!Finish(r)
  BY <1>5, <1>8, <1>9, <1>10 DEF Queue!Finish, Left, RunningOf
<1> QED
  BY <1>4, <1>11

(* The end of a connection withdraws what is played over it.                *)
LEMMA ClosesAreWithdrawals ==
  ASSUME Types, ReadyAreServed, OneEntryEach, EntriesAgree, LeftIsKnown, LeftIsKnown',
         RunningIsKnown, RunningIsKnown', NEW s \in ConnSlots, Open(s), closeConnection(s)
  PROVE  \E c \in Clients : Queue!Withdraw(c)
<1>1. PICK c \in Clients : c = conns[s].client
  BY DEF Types, PoolTypes, Connection
<1>2. asked' = asked /\ closed' = closed \cup {c} /\ c \notin closed
  BY <1>1 DEF closeConnection, OneEntryEach
<1>3. /\ EntriesGoOn
      /\ \A m \in MatchSlots : matches[m] \in Match =>
           /\ matches'[m] \in Match /\ matches'[m].isRunning = matches[m].isRunning
           /\ matches'[m].request = matches[m].request
           /\ matchUsesConnection(m, s) => matches'[m].numRuns = 0
           /\ ~matchUsesConnection(m, s) => matches'[m] = matches[m]
  BY ClosesGoOn
<1>4. RunningOf' = RunningOf
  <2>1. \A m \in MatchSlots : Running(m)' <=> Running(m)
    BY <1>3 DEF Running, EntriesGoOn, GoesOn
  <2>2. \A m \in MatchSlots : Running(m) => matches'[m].request = matches[m].request
    BY <1>3 DEF Running
  <2> QED BY <2>1, <2>2, RunningStaysKnown
<1>5. ASSUME NEW m \in MatchSlots, matches[m] \in Match
      PROVE  /\ HasLocal(m) <=> LocalSeats(matches[m].request)
             /\ matchUsesConnection(m, s) <=> HasLocal(m) /\ matches[m].conn = s
             /\ matches[m].numRuns \in Int /\ matches[m].numRuns >= 0
  <2>1. matches[m].seats = PlayersOf(matches[m].request)
    BY <1>5 DEF EntriesAgree, EntryAgrees
  <2>2. \A p \in DOMAIN matches[m].seats : matches[m].seats[p] \in BOOLEAN
    BY <1>5 DEF Match
  <2>3. HasLocal(m) <=> LocalSeats(matches[m].request)
    BY <2>1, <2>2 DEF HasLocal, LocalSeats, Range
  <2>4. matches[m].numRuns \in Int /\ matches[m].numRuns >= 0
    BY <1>5 DEF Match, EntriesAgree, EntryAgrees
  <2> QED BY <2>3, <2>4 DEF matchUsesConnection, HasLocal
<1>6. ASSUME NEW r \in Requests
      PROVE  LeftOf(r)' = IF Sender(r) = c /\ LocalSeats(r) /\ LeftOf(r) > 0 THEN 0 ELSE LeftOf(r)
  <2>1. CASE \A m \in MatchSlots : matches[m] \in Match => matches[m].request # r
    <3>1. LeftOf(r) = IF r \in asked THEN 0 ELSE -1
      BY <2>1 DEF LeftIsKnown
    <3>2. LeftOf(r)' = LeftOf(r)
      BY <1>2, <1>3, <2>1, LeftStays DEF EntriesGoOn, GoesOn
    <3>3. ~(LeftOf(r) > 0)
      BY <3>1
    <3> QED BY <3>2, <3>3
  <2>2. ASSUME NEW m \in MatchSlots, matches[m] \in Match, matches[m].request = r
        PROVE  LeftOf(r)' = IF Sender(r) = c /\ LocalSeats(r) /\ LeftOf(r) > 0 THEN 0 ELSE LeftOf(r)
    <3>1. LeftOf(r) = matches[m].numRuns /\ LeftOf(r)' = matches'[m].numRuns
      BY <1>3, <2>2 DEF LeftIsKnown
    <3>2. CASE matchUsesConnection(m, s)
      <4>1. LeftOf(r)' = 0 /\ HasLocal(m) /\ matches[m].conn = s /\ LocalSeats(r)
        BY <1>3, <1>5, <2>2, <3>1, <3>2
      <4>2. CASE LeftOf(r) > 0
        <5>1. Ready(m)
          BY <2>2, <3>1, <4>1, <4>2 DEF Ready
        <5>2. Sender(r) = c
          BY <1>1, <2>2, <4>1, <5>1 DEF EntriesAgree
        <5> QED BY <4>1, <4>2, <5>2
      <4>3. CASE ~(LeftOf(r) > 0)
        <5>1. LeftOf(r) = 0
          BY <1>5, <2>2, <3>1, <4>3
        <5> QED BY <4>1, <4>3, <5>1
      <4> QED BY <4>2, <4>3
    <3>3. CASE ~matchUsesConnection(m, s)
      <4>1. LeftOf(r)' = LeftOf(r)
        BY <1>3, <2>2, <3>1, <3>3
      <4>2. ASSUME Sender(r) = c, LocalSeats(r), LeftOf(r) > 0
            PROVE  FALSE
        <5>1. HasLocal(m)
          BY <1>5, <2>2, <4>2
        <5>2. Ready(m)
          BY <2>2, <3>1, <4>2, <5>1 DEF Ready
        <5>3. PICK t \in ConnSlots : t = matches[m].conn
          BY <2>2 DEF Match
        <5>4. conns[t].status = "OKAY" /\ conns[t].client = c
          BY <2>2, <4>2, <5>2, <5>3 DEF ReadyAreServed, Served, EntriesAgree
        <5>5. t = s
          BY <1>1, <5>4 DEF OneEntryEach, Open
        <5> QED BY <1>5, <2>2, <3>3, <5>1, <5>3, <5>5
      <4> QED BY <4>1, <4>2
    <3> QED BY <3>2, <3>3
  <2> QED BY <2>1, <2>2
<1>7. Left' = [r \in Requests |->
                 IF Sender(r) = c /\ LocalSeats(r) /\ Left[r] > 0 THEN 0 ELSE Left[r]]
  BY <1>6 DEF Left
<1>8. Queue!Withdraw(c)
  BY <1>2, <1>4, <1>7 DEF Queue!Withdraw, Left, RunningOf
<1> QED
  BY <1>8

(* A request that is put into the queue is submitted.                       *)
LEMMA SubmitsAreSubmissions ==
  ASSUME Types, OneEntryEach, EntriesAgree, LeftIsKnown, LeftIsKnown',
         RunningIsKnown, RunningIsKnown', NEW s \in ConnSlots, Open(s), NEW r \in Requests,
         Submits(s, r), r \notin asked, Sender(r) = conns[s].client
  PROVE  Queue!Submit(r)
<1>1. PICK m \in MatchSlots :
           /\ matches[m] \notin Match /\ matches'[m] = NewMatch(s, r) /\ matches'[m] \in Match
           /\ \A n \in MatchSlots \ {m} : matches'[n] = matches[n]
  BY SubmitsAnEntry
<1>2. asked' = asked \cup {r} /\ closed' = closed
  BY DEF Submits
<1>3. /\ matches'[m].request = r /\ matches'[m].numRuns = Asked[r].runs /\ ~matches'[m].isRunning
  BY <1>1 DEF NewMatch
<1>4. \A n \in MatchSlots : matches[n] \in Match => matches[n].request # r
  BY DEF EntriesAgree, EntryAgrees
<1>5. LeftOf(r) = -1 /\ LeftOf(r)' = Runs(r)
  <2>1. LeftOf(r) = IF r \in asked THEN 0 ELSE -1
    BY <1>4 DEF LeftIsKnown
  <2>2. LeftOf(r)' = Asked[r].runs
    BY <1>1, <1>3 DEF LeftIsKnown
  <2> QED BY <2>1, <2>2 DEF Runs
<1>6. ASSUME NEW q \in Requests \ {r}
      PROVE  LeftOf(q)' = LeftOf(q)
  <2>1. \A n \in MatchSlots : matches[n] \in Match /\ matches[n].request = q => EntryKeeps(n)
    BY <1>1 DEF EntryKeeps
  <2>2. \A n \in MatchSlots : matches'[n] \in Match /\ matches'[n].request = q =>
            matches[n] \in Match /\ matches[n].request = q
    BY <1>1, <1>3
  <2>3. q \in asked' <=> q \in asked
    BY <1>2
  <2> QED BY <2>1, <2>2, <2>3, LeftStays
<1>7. Left' = [Left EXCEPT ![r] = Runs(r)] /\ Left[r] = -1
  BY <1>5, <1>6 DEF Left
<1>8. RunningOf' = RunningOf
  <2>1. ~Running(m) /\ ~Running(m)'
    BY <1>1, <1>3 DEF Running
  <2>2. \A n \in MatchSlots \ {m} : Running(n)' <=> Running(n)
    BY <1>1 DEF Running
  <2>3. \A n \in MatchSlots : Running(n)' <=> Running(n)
    BY <2>1, <2>2
  <2>4. \A n \in MatchSlots : Running(n) => matches'[n].request = matches[n].request
    BY <1>1, <2>1
  <2> QED BY <2>3, <2>4, RunningStaysKnown
<1>9. Sender(r) \notin closed
  BY DEF OneEntryEach
<1> QED
  BY <1>2, <1>7, <1>8, <1>9 DEF Queue!Submit, Left, RunningOf

(* No other step is one of the queue.                                       *)
LEMMA OthersAreNone ==
  ASSUME Types, JobsAgreeWithMatches, EntriesAgree, LeftIsKnown, LeftIsKnown',
         RunningIsKnown, RunningIsKnown', UNCHANGED <<asked, closed>>,
         matches' = matches \/ NothingToStart
  PROVE  UNCHANGED Queue!queueVars
<1>1. ASSUME NEW n \in MatchSlots
      PROVE  /\ matches[n] \in Match => EntryKeeps(n)
             /\ matches'[n] \in Match => matches'[n] = matches[n]
             /\ Running(n)' <=> Running(n)
             /\ Running(n) => matches'[n].request = matches[n].request
  <2>1. CASE matches' = matches
    BY <2>1 DEF EntryKeeps, Running
  <2>2. CASE matches' = CleanedUp /\ CleanedUp[n] = matches[n]
    BY <2>2 DEF EntryKeeps, Running
  <2>3. CASE /\ matches' = CleanedUp /\ CleanedUp[n] \notin Match
            /\ matches[n].numRuns = 0 /\ ~matches[n].isRunning
    BY <2>3 DEF EntryKeeps, Running
  <2> QED BY <2>1, <2>2, <2>3, CleanedGoOn DEF NothingToStart
<1>2. EntriesGoOn
  BY <1>1, SameGoesOn DEF EntriesGoOn
<1>3. Left' = Left
  BY <1>1, <1>2, AllLeftStay
<1>4. RunningOf' = RunningOf
  BY <1>1, RunningStaysKnown
<1> QED
  BY <1>3, <1>4 DEF Queue!queueVars, Left, RunningOf

QueueInv ==
    /\ Types /\ JobsAgreeWithMatches /\ ReadyAreServed
    /\ SockTypes /\ LineTypes /\ LinesInOrder
    /\ OneEntryEach /\ ReadyAreOpen /\ EntriesAgree
AbstractIsKnown == LeftIsKnown /\ RunningIsKnown

(* QueueInv is inductive.                                                   *)
LEMMA QueueInvIsKept == QueueInv /\ [Next]_vars => QueueInv'
<1> SUFFICES ASSUME QueueInv, [Next]_vars PROVE QueueInv'
  OBVIOUS
<1>1. Types' /\ JobsAgreeWithMatches'
  BY TypesAreKept, JobsKeepAgreeing DEF QueueInv
<1>2. ReadyAreServed'
  BY ServedIsKept DEF QueueInv
<1>3. LineTypes' /\ LinesInOrder'
  BY LinesKeepTheirOrder DEF QueueInv
<1>4. SockTypes' /\ OneEntryEach'
  BY EntriesAreKept DEF QueueInv
<1>5. ReadyAreOpen'
  BY ReadyStayOpen DEF QueueInv
<1>6. EntriesAgree'
  BY EntriesKeepAgreeing DEF QueueInv
<1> QED
  BY <1>1, <1>2, <1>3, <1>4, <1>5, <1>6 DEF QueueInv

(* It holds at first, when the queue is empty.                              *)
LEMMA QueueInvAtFirst == Init => QueueInv /\ Queue!QueueInit
<1> SUFFICES ASSUME Init PROVE QueueInv /\ Queue!QueueInit
  OBVIOUS
<1>1. Types /\ JobsAgreeWithMatches /\ Queued = {}
  BY InitialPools
<1>2. \A m \in MatchSlots : matches[m] \notin Match
  BY <1>1, QueuedAreMatches DEF Types, PoolTypes
<1>3. ReadyAreServed /\ EntriesAgree
  BY <1>2 DEF ReadyAreServed, EntriesAgree, Ready, Init
<1>4. SockTypes
  BY DEF Init, SockTypes
<1>5. \A s \in ConnSlots : ~Open(s)
  BY DEF Init, Open
<1>6. OneEntryEach
  BY <1>5 DEF OneEntryEach, Init
<1>7. ReadyAreOpen
  BY DEF ReadyAreOpen, Init
<1>8. LineTypes
  BY ScriptAssumption DEF LineTypes, Init, ScriptAssumption
<1>9. ASSUME NEW c \in Clients
      PROVE  OnTheWay(Script[c], asked, 0, buf[c], wire[c], unsent[c])
  <2>1. buf[c] = << >> /\ wire[c] = << >> /\ unsent[c] = Script[c] /\ asked = {}
    BY DEF Init
  <2> DEFINE sc == Script[c]
  <2>2. sc \in Seq(Symbols)
    BY ScriptAssumption DEF ScriptAssumption
  <2> HIDE DEF sc
  <2>3. 0 <= Len(sc) /\ Len(sc) \in Nat
    BY <2>2
  <2>4. << >> \in Seq(Symbols) /\ Len(<< >>) = 0 /\ Piece(sc, 0, << >>)
    BY <2>2, <2>3, NothingIsAPiece
  <2>5. 0 + 0 = 0 /\ 0 + 0 + 0 = 0
    OBVIOUS
  <2>6. Piece(sc, 0, sc)
    <3>1. \A i \in 1 .. Len(sc) : 0 + i = i
      BY <2>3
    <3> QED BY <2>3, <3>1 DEF Piece
  <2>7. OnTheWay(sc, {}, 0, << >>, << >>, sc)
    BY <2>4, <2>5, <2>6 DEF OnTheWay, Behind
  <2> QED BY <2>1, <2>7 DEF sc
<1>10. LinesInOrder
  BY <1>9 DEF LinesInOrder
<1>11. Queue!QueueInit
  <2>1. asked = {} /\ closed = {} /\ jobs = {}
    BY DEF Init
  <2>2. \A r \in Requests : LeftOf(r) = -1
    BY <1>1, <2>1 DEF LeftOf, EntryOf
  <2> QED BY <2>1, <2>2 DEF Queue!QueueInit
<1> QED
  BY <1>1, <1>3, <1>4, <1>6, <1>7, <1>8, <1>10, <1>11 DEF QueueInv

(* Each step of the server is one of the queue, or none of its.             *)
LEMMA StepsAreSteps ==
  QueueInv /\ AbstractIsKnown /\ AbstractIsKnown' /\ [Next]_vars
     => [Queue!QueueNext]_(Queue!queueVars)
<1> SUFFICES ASSUME QueueInv, AbstractIsKnown, AbstractIsKnown', [Next]_vars
             PROVE  Queue!QueueNext \/ UNCHANGED Queue!queueVars
  OBVIOUS
<1>1. /\ Types /\ JobsAgreeWithMatches /\ ReadyAreServed /\ LineTypes /\ LinesInOrder
      /\ OneEntryEach /\ ReadyAreOpen /\ EntriesAgree
      /\ LeftIsKnown /\ LeftIsKnown' /\ RunningIsKnown /\ RunningIsKnown'
  BY DEF QueueInv, AbstractIsKnown
<1> HIDE DEF QueueInv, AbstractIsKnown
<1>2. CASE \/ UNCHANGED vars \/ AllHandled \/ RemoveClosed \/ NothingToStart \/ Select
           \/ \E c \in Clients : Connect(c) \/ Send(c) \/ HangUp(c)
           \/ \E j \in jobs : \E x : ChildExits(j, x)
  <2>1. UNCHANGED <<asked, closed>>
    BY <1>2 DEF vars, AllHandled, RemoveClosed, NothingToStart, Select, Connect, Send, HangUp, ChildExits
  <2>2. matches' = matches \/ NothingToStart
    BY <1>2 DEF vars, AllHandled, RemoveClosed, Select, Connect, Send, HangUp, ChildExits, poolVars
  <2> QED BY <1>1, <2>1, <2>2, OthersAreNone
<1>3. CASE \E j \in jobs : finishedJob(j)
  BY <1>1, <1>3, FinishesAreFinishes DEF Queue!QueueNext
<1>4. CASE \E m \in MatchSlots : StartBest(m)
  BY <1>1, <1>4, StartsAreStarts DEF Queue!QueueNext
<1>5. ASSUME NEW s \in ConnSlots, ReadsFrom(s)
      PROVE  Queue!QueueNext \/ UNCHANGED Queue!queueVars
  <2>1. Outcome(s) /\ Open(s)
    BY <1>1, <1>5, ReadsAreNew, ReadsAreOpen
  <2>2. CASE Quiet(s)
    BY <1>1, <2>2, OthersAreNone DEF Quiet
  <2>3. CASE closeConnection(s)
    BY <1>1, <2>1, <2>3, ClosesAreWithdrawals DEF Queue!QueueNext
  <2>4. CASE \E r \in Requests : Submits(s, r) /\ r \notin asked /\ Sender(r) = conns[s].client
    BY <1>1, <2>1, <2>4, SubmitsAreSubmissions DEF Queue!QueueNext
  <2> QED BY <2>1, <2>2, <2>3, <2>4 DEF Outcome
<1> QED
  BY <1>1, <1>2, <1>3, <1>4, <1>5, StepKinds

(* However lines come in pieces, connections close and entries are used     *)
(* again, the server runs each request as often as asked and no more, never *)
(* twice at a time, within the limit of its game, and not once the          *)
(* connection it is played over is closed.                                  *)
THEOREM QueueIsImplemented == Spec => ImplementsQueue
<1>1. QueueInv => AbstractIsKnown
  BY AbstractStateIsKnown DEF QueueInv, AbstractIsKnown
<1> QED
  BY <1>1, QueueInvAtFirst, QueueInvIsKept, StepsAreSteps, PTL
  DEF Spec, ImplementsQueue, Queue!QueueSpec
===============================================================================
