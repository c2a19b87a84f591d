--------------------------- MODULE SessionsProofs ---------------------------
(***************************************************************************)
(* Proofs about Sessions, for any clients, session ids and capacity.       *)
(***************************************************************************)
EXTENDS Sessions, FiniteSetTheorems, TLAPS

(* What a call knows of its session, by the place it has come to.           *)
CallsAreShaped ==
    \A c \in Clients :
        /\ call[c].at = "solving" => call[c].op = "getaction" /\ call[c].ms \in MatchState
        /\ call[c].at \in {"engine", "solving", "stamp", "erase"} => call[c].s \in SessionIds
        /\ call[c].op = "delete" /\ call[c].at = "lock" => call[c].s \in SessionIds

TypeInv == TypeOK /\ CallsAreShaped

USE SessionsAssumption, EngineAssumption DEF SessionsAssumption, EngineAssumption

(* A new session has an engine of the type.                                 *)
LEMMA NewEngineIsTyped == NewEngine \in EngineType
  BY DEF NewEngine, EngineType

(* The call of a client that makes none is of the type.                     *)
LEMMA NoCallIsTyped == NoCall \in Call_
  BY DEF NoCall, Call_

(* The controller starts well typed.                                        *)
LEMMA InitIsTyped == Init => TypeInv
<1> SUFFICES ASSUME Init PROVE TypeInv
  OBVIOUS
<1>1. TypeOK
  BY NewEngineIsTyped, NoCallIsTyped DEF Init, TypeOK, NewClient
<1>2. CallsAreShaped
  BY DEF Init, CallsAreShaped, NoCall
<1> QED
  BY <1>1, <1>2 DEF TypeInv

(* The state the model stops in, where the code is undefined, is typed.     *)
LEMMA BreakIsTyped ==
  ASSUME Break
  PROVE  TypeInv'
<1>1. TypeOK'
  BY NewEngineIsTyped, NoCallIsTyped DEF Break, TypeOK, NewClient
<1>2. CallsAreShaped'
  BY DEF Break, CallsAreShaped, NoCall
<1> QED
  BY <1>1, <1>2 DEF TypeInv

(* The steps of the clients keep the types.                                 *)
LEMMA ClientStepsAreTyped ==
  ASSUME TypeInv, NEW c \in Clients, ClientStep(c)
  PROVE  TypeInv'
<1> USE DEF TypeInv, TypeOK, CallsAreShaped, Call_, Free, Call, NewClient, serverVars
<1>1. CASE CallCreate(c)
  BY <1>1 DEF CallCreate
<1>2. CASE CallDelete(c)
  BY <1>2 DEF CallDelete
<1>3. CASE CallNewHand(c)
  BY <1>3 DEF CallNewHand
<1>4. CASE CallEndHand(c)
  BY <1>4 DEF CallEndHand
<1>5. CASE CallGetAction(c)
  BY <1>5 DEF CallGetAction
<1>6. CASE CallEdit(c)
  BY <1>6 DEF CallEdit
<1>7. CASE CallEval(c)
  BY <1>7 DEF CallEval
<1>8. CASE Restart(c)
  BY <1>8 DEF Restart
<1>9. CASE SendHeartbeat(c)
  BY <1>9 DEF SendHeartbeat
<1> QED
  BY <1>1, <1>2, <1>3, <1>4, <1>5, <1>6, <1>7, <1>8, <1>9 DEF ClientStep

(* Refreshing, preparing and searching leave engines.                       *)
LEMMA EngineStepsAreTyped ==
  ASSUME NEW e \in EngineType, NEW ms \in MatchState
  PROVE  /\ Refreshed(e) \in EngineType
         /\ Prepared(e, ms) \in EngineType
         /\ \A f \in WithAction(e, ms) \cup WithException(e, ms) : f \in EngineType
<1>1. Book(ms, TRUE) \in PlayBook /\ Book(ms, FALSE) \in PlayBook
  BY DEF Book, PlayBook
<1>2. Refreshed(e) \in EngineType
  BY DEF Refreshed, EngineType
<1>3. Prepared(e, ms) \in EngineType
  BY <1>1, <1>2 DEF Prepared, EngineType
<1>4. \A f \in AfterSubgame(e, ms) : f \in EngineType
  <2>1. [e EXCEPT !.books = @ \cup {Book(ms, TRUE)}] \in EngineType
    BY <1>1 DEF EngineType
  <2> QED BY <2>1 DEF AfterSubgame
<1>5. \A f \in WithAction(e, ms) : f \in EngineType
  <2>1. \A f \in EngineType : [f EXCEPT !.busy = FALSE] \in EngineType
    BY DEF EngineType
  <2> QED BY <1>4, <2>1 DEF WithAction
<1> QED
  BY <1>2, <1>3, <1>4, <1>5 DEF WithException

(* So do the replies of the server.                                         *)
LEMMA RepliesAreTyped ==
  ASSUME TypeInv, NEW c \in Clients, Reply(c)
  PROVE  call' \in [Clients -> Call_] /\ CallsAreShaped'
<1>1. call' \in [Clients -> Call_]
  BY NoCallIsTyped DEF Reply, TypeInv, TypeOK
<1>2. CallsAreShaped'
  BY DEF Reply, TypeInv, TypeOK, CallsAreShaped, NoCall
<1> QED
  BY <1>1, <1>2

(* A handler goes on to another place, for which it has what it needs.      *)
LEMMA MovesAreTyped ==
  ASSUME TypeInv, NEW c \in Clients,
         NEW at \in {"find", "erase", "lock", "stamp", "engine"}, GoTo(c, at),
         at \in {"engine", "stamp", "erase"} \/ (call[c].op = "delete" /\ at = "lock")
           => call[c].s \in SessionIds
  PROVE  call' \in [Clients -> Call_] /\ CallsAreShaped'
<1>1. call' \in [Clients -> Call_]
  <2>1. call \in [Clients -> Call_]
    BY DEF TypeInv, TypeOK
  <2>2. call[c] \in Call_
    BY <2>1
  <2>3. [call[c] EXCEPT !.at = at] \in Call_
    BY <2>2 DEF Call_
  <2>4. call' = [call EXCEPT ![c] = [call[c] EXCEPT !.at = at]]
    BY <2>1 DEF GoTo
  <2> QED BY <2>1, <2>3, <2>4
<1>2. ASSUME NEW d \in Clients, d # c
      PROVE  call'[d] = call[d]
  BY <1>2 DEF GoTo, TypeInv, TypeOK
<1>3. call'[c].at = at /\ call'[c].op = call[c].op /\ call'[c].s = call[c].s
  BY DEF GoTo, TypeInv, TypeOK, Call_
<1>4. CallsAreShaped'
  BY <1>2, <1>3 DEF TypeInv, CallsAreShaped
<1> QED
  BY <1>1, <1>4

(* So do its handlers.                                                      *)
LEMMA HandlersAreTyped ==
  ASSUME TypeInv, NEW c \in Clients, Serve(c) \/ Lock(c)
  PROVE  TypeInv'
<1> USE RepliesAreTyped DEF TypeInv, TypeOK, At, Sid, Using, serverVars
<1> HIDE DEF CallsAreShaped
<1>1. CASE NotFound(c)
  BY <1>1 DEF NotFound
<1>2. CASE UseDeleted(c)
  BY <1>2, BreakIsTyped DEF UseDeleted
<1>3. CASE SweepDelete(c)
  <2>1. PICK s \in call[c].todo :
          \/ /\ call' = [call EXCEPT ![c].todo = @ \ {s}]
             /\ UNCHANGED <<client, serverVars>>
          \/ Break
          \/ /\ deleted' = deleted \cup {s}
             /\ engine' = [engine EXCEPT ![s] = NewEngine]
             /\ call' = [call EXCEPT ![c].at = "erase", ![c].s = s, ![c].todo = @ \ {s}]
             /\ UNCHANGED <<client, sessions, idle, mutex, broken>>
    BY <1>3 DEF SweepDelete
  <2>2. s \in SessionIds /\ call[c].op = "create" /\ call[c].at = "find"
    BY <1>3, <2>1 DEF SweepDelete, Call_
  <2>3. CASE call' = [call EXCEPT ![c].todo = @ \ {s}] /\ UNCHANGED <<client, serverVars>>
    BY <2>2, <2>3 DEF CallsAreShaped, Call_
  <2>4. CASE /\ deleted' = deleted \cup {s}
             /\ engine' = [engine EXCEPT ![s] = NewEngine]
             /\ call' = [call EXCEPT ![c].at = "erase", ![c].s = s, ![c].todo = @ \ {s}]
             /\ UNCHANGED <<client, sessions, idle, mutex, broken>>
    <3>1. engine' \in [SessionIds -> EngineType]
      BY <2>2, <2>4, NewEngineIsTyped
    <3>2. call' \in [Clients -> Call_] /\ CallsAreShaped'
      BY <2>2, <2>4 DEF CallsAreShaped, Call_
    <3> QED BY <2>2, <2>4, <3>1, <3>2
  <2> QED BY <2>1, <2>3, <2>4, BreakIsTyped
<1>4. CASE SweepErase(c)
  BY <1>4 DEF SweepErase, CallsAreShaped, Call_
<1>5. CASE CheckCapacity(c)
  <2>1. CASE Reply(c)
    BY <1>5, <2>1 DEF CheckCapacity
  <2>2. CASE GoTo(c, "lock")
    BY <1>5, <2>2, MovesAreTyped DEF CheckCapacity
  <2> QED BY <1>5, <2>1, <2>2 DEF CheckCapacity
<1>6. CASE Stamp(c)
  BY <1>6, BreakIsTyped DEF Stamp
<1>7. CASE FindToDelete(c)
  BY <1>7, MovesAreTyped DEF FindToDelete
<1>8. CASE DeleteErase(c)
  BY <1>8 DEF DeleteErase
<1>9. CASE FindEngine(c)
  BY <1>9, MovesAreTyped DEF FindEngine
<1>10. CASE NewHand(c)
  <2>1. engine' \in [SessionIds -> EngineType]
    <3>1. \A e \in EngineType : Refreshed(e) \in EngineType
      BY DEF Refreshed, EngineType
    <3> QED BY <1>10, <3>1 DEF NewHand
  <2>2. client' \in [Clients -> [id : SessionIds \cup {None}, inHand : BOOLEAN]]
    BY <1>10 DEF NewHand
  <2> QED BY <1>10, <2>1, <2>2 DEF NewHand
<1>11. CASE EndHand(c)
  BY <1>11 DEF EndHand
<1>12. CASE EditSession(c)
  BY <1>12 DEF EditSession
<1>13. CASE EvalShowdown(c) \/ RefuseAction(c)
  BY <1>13 DEF EvalShowdown, RefuseAction
<1>14. CASE StartAction(c)
  <2>1. PICK ms \in MatchState :
          /\ engine' = [engine EXCEPT ![Sid(c)] = Prepared(@, ms)]
          /\ call' = [call EXCEPT ![c].at = "solving", ![c].ms = ms]
    BY <1>14 DEF StartAction
  <2>2. Sid(c) \in SessionIds
    BY <1>14 DEF StartAction, CallsAreShaped
  <2>3. engine' \in [SessionIds -> EngineType]
    BY <2>1, <2>2, EngineStepsAreTyped
  <2>4. call' \in [Clients -> Call_]
    <3>1. \A k \in Call_ : [k EXCEPT !.at = "solving", !.ms = ms] \in Call_
      BY DEF Call_
    <3> QED BY <2>1, <3>1
  <2>5. \A d \in Clients \ {c} : call'[d] = call[d]
    BY <2>1
  <2>6. /\ call'[c].at = "solving" /\ call'[c].op = "getaction"
        /\ call'[c].s \in SessionIds /\ call'[c].ms \in MatchState
    BY <1>14, <2>1, <2>2 DEF StartAction, Call_
  <2>7. CallsAreShaped'
    BY <2>5, <2>6 DEF CallsAreShaped
  <2> QED BY <1>14, <2>3, <2>4, <2>7 DEF StartAction
<1>15. CASE FinishAction(c)
  <2>1. Sid(c) \in SessionIds /\ call[c].ms \in MatchState
    BY <1>15 DEF FinishAction, CallsAreShaped
  <2>2. engine' \in [SessionIds -> EngineType]
    <3> DEFINE outcomes == WithAction(engine[Sid(c)], call[c].ms)
                             \cup WithException(engine[Sid(c)], call[c].ms)
    <3>1. \A f \in outcomes : f \in EngineType
      BY <2>1, EngineStepsAreTyped
    <3>2. PICK f \in outcomes : engine' = [engine EXCEPT ![Sid(c)] = f]
      BY <1>15 DEF FinishAction
    <3> HIDE DEF outcomes
    <3> QED BY <3>1, <3>2
  <2> QED BY <1>15, <2>2 DEF FinishAction
<1>16. CASE Insert(c)
  <2>1. newUUID \in SessionIds
    BY <1>16 DEF Insert, newUUID, used
  <2>2. PICK meets \in SUBSET Clients :
          call' = [d \in Clients |->
                     IF d = c THEN [call[d] EXCEPT !.at = "stamp", !.s = newUUID]
                     ELSE IF d \in meets THEN [call[d] EXCEPT !.todo = @ \cup {newUUID}]
                     ELSE call[d]]
    BY <1>16 DEF Insert
  <2> HIDE DEF newUUID
  <2>3. call' \in [Clients -> Call_]
    <3>1. \A k \in Call_ : /\ [k EXCEPT !.at = "stamp", !.s = newUUID] \in Call_
                          /\ [k EXCEPT !.todo = @ \cup {newUUID}] \in Call_
      BY <2>1 DEF Call_
    <3> QED BY <2>2, <3>1
  <2>4. CallsAreShaped'
    <3>1. \A d \in Clients \ {c} : /\ call'[d].at = call[d].at /\ call'[d].op = call[d].op
                                   /\ call'[d].s = call[d].s /\ call'[d].ms = call[d].ms
      <4> SUFFICES ASSUME NEW d \in Clients, d # c
                   PROVE  /\ call'[d].at = call[d].at /\ call'[d].op = call[d].op
                          /\ call'[d].s = call[d].s /\ call'[d].ms = call[d].ms
        OBVIOUS
      <4>1. call'[d] = call[d] \/ call'[d] = [call[d] EXCEPT !.todo = @ \cup {newUUID}]
        BY <2>2
      <4> QED BY <4>1 DEF Call_
    <3>2. call'[c].at = "stamp" /\ call'[c].op = "create" /\ call'[c].s = newUUID
      <4>1. call'[c] = [call[c] EXCEPT !.at = "stamp", !.s = newUUID]
        BY <2>2
      <4>2. call[c] \in Call_ /\ call[c].op = "create"
        BY <1>16 DEF Insert
      <4> QED BY <4>1, <4>2 DEF Call_
    <3> QED BY <2>1, <3>1, <3>2 DEF CallsAreShaped
  <2> QED BY <1>16, <2>1, <2>3, <2>4 DEF Insert
<1>17. CASE DeleteEngine(c)
  <2>1. Sid(c) \in SessionIds
    BY <1>17 DEF DeleteEngine, CallsAreShaped
  <2>2. CASE Break
    BY <2>2, BreakIsTyped
  <2>3. CASE ~Break
    <3>1. engine' \in [SessionIds -> EngineType]
      BY <1>17, <2>1, <2>3, NewEngineIsTyped DEF DeleteEngine
    <3>2. call' \in [Clients -> Call_] /\ CallsAreShaped'
      BY <1>17, <2>1, <2>3, MovesAreTyped DEF DeleteEngine
    <3> QED BY <1>17, <2>1, <2>3, <3>1, <3>2 DEF DeleteEngine
  <2> QED BY <2>2, <2>3
<1>18. CASE InsertFails(c)
  BY <1>18 DEF InsertFails
<1> QED
  BY <1>1, <1>2, <1>3, <1>4, <1>5, <1>6, <1>7, <1>8, <1>9, <1>10, <1>11, <1>12, <1>13,
     <1>14, <1>15, <1>16, <1>17, <1>18 DEF Serve, Lock

(* So does every step.                                                      *)
LEMMA StepsAreTyped ==
  ASSUME TypeInv, [Next]_vars
  PROVE  TypeInv'
<1>1. CASE UNCHANGED vars
  BY <1>1 DEF vars, serverVars, TypeInv, TypeOK, CallsAreShaped
<1>2. ASSUME NEW s \in SessionIds, TenSecondsPass(s)
      PROVE  TypeInv'
  BY <1>2 DEF TenSecondsPass, TypeInv, TypeOK, CallsAreShaped
<1> QED
  BY <1>1, <1>2, ClientStepsAreTyped, HandlersAreTyped DEF Next, Rest

(* The controller's maps, its engines and the calls in flight keep their    *)
(* types, for any number of clients and sessions.                           *)
THEOREM SessionTypesHold == Spec => []TypeOK
<1>1. Spec => []TypeInv
  BY InitIsTyped, StepsAreTyped, PTL DEF Spec
<1> QED
  BY <1>1, PTL DEF TypeInv

(***************************************************************************)
(* The mutex                                                               *)
(***************************************************************************)
Holds(c) == \/ call[c].op = "create" /\ call[c].at = "stamp"
            \/ call[c].op = "delete" /\ call[c].at = "erase"

(* A step of c leaves the others where they are.                            *)
LEMMA OthersStay ==
  ASSUME TypeInv, NEW c \in Clients, Serve(c) \/ Lock(c) \/ ClientStep(c), ~broken'
  PROVE  \A d \in Clients \ {c} :
           /\ client'[d] = client[d]
           /\ call'[d].op = call[d].op /\ call'[d].at = call[d].at
           /\ call'[d].s = call[d].s /\ call'[d].ms = call[d].ms
<1> SUFFICES ASSUME NEW d \in Clients, d # c
             PROVE  /\ client'[d] = client[d]
                    /\ call'[d].op = call[d].op /\ call'[d].at = call[d].at
                    /\ call'[d].s = call[d].s /\ call'[d].ms = call[d].ms
  OBVIOUS
<1> USE DEF TypeInv, TypeOK, GoTo, Reply, Call, serverVars, Break
<1>1. CASE ClientStep(c)
  BY <1>1 DEF ClientStep, CallCreate, CallDelete, CallNewHand, CallEndHand, CallGetAction,
     CallEdit, CallEval, Restart, SendHeartbeat
<1>2. CASE Serve(c)
  BY <1>2 DEF Serve, NotFound, UseDeleted, SweepDelete, SweepErase, CheckCapacity, Stamp,
     FindToDelete, DeleteErase, FindEngine, NewHand, EndHand, EditSession, EvalShowdown,
     RefuseAction, StartAction, FinishAction
<1>3. CASE DeleteEngine(c) \/ InsertFails(c)
  BY <1>3 DEF DeleteEngine, InsertFails
<1>4. CASE Insert(c)
  <2>1. call'[d] = call[d] \/ call'[d] = [call[d] EXCEPT !.todo = @ \cup {newUUID}]
    BY <1>4 DEF Insert
  <2>2. client' = client /\ call[d] \in Call_
    BY <1>4 DEF Insert
  <2> HIDE DEF newUUID, TypeInv, TypeOK
  <2> QED BY <2>1, <2>2 DEF Call_
<1> QED
  BY <1>1, <1>2, <1>3, <1>4 DEF Lock

(* The places of c's call change with the mutex.                            *)
LEMMA MutexSteps ==
  ASSUME TypeInv, NEW c \in Clients, Serve(c) \/ Lock(c) \/ ClientStep(c), ~broken'
  PROVE  \/ mutex' = mutex /\ (Holds(c)' <=> Holds(c))
         \/ mutex = None /\ mutex' = c /\ Holds(c)'
         \/ Holds(c) /\ mutex' = None /\ ~Holds(c)'
         \/ mutex = None /\ mutex' = Gone /\ ~Holds(c)'
<1> USE DEF TypeInv, TypeOK, GoTo, Reply, Call, serverVars, Holds, At, Using, Free, NoCall
<1>1. CASE ClientStep(c)
  BY <1>1 DEF ClientStep, CallCreate, CallDelete, CallNewHand, CallEndHand, CallGetAction,
     CallEdit, CallEval, Restart, SendHeartbeat
<1>2. CASE NotFound(c) \/ UseDeleted(c) \/ FindToDelete(c) \/ FindEngine(c)
  BY <1>2 DEF NotFound, UseDeleted, FindToDelete, FindEngine, Break, Call_
<1>3. CASE SweepDelete(c)
  <2>1. call[c] \in Call_ /\ call[c].op = "create" /\ call[c].at = "find"
    BY <1>3 DEF SweepDelete
  <2>2. PICK s \in call[c].todo :
          \/ call' = [call EXCEPT ![c].todo = @ \ {s}]
          \/ call' = [call EXCEPT ![c].at = "erase", ![c].s = s, ![c].todo = @ \ {s}]
    BY <1>3 DEF SweepDelete, Break
  <2>3. call'[c].op = "create" /\ call'[c].at \in {"find", "erase"}
    BY <2>1, <2>2 DEF Call_
  <2>4. mutex' = mutex
    BY <1>3 DEF SweepDelete, Break
  <2> QED BY <2>1, <2>3, <2>4
<1>9. CASE SweepErase(c) \/ CheckCapacity(c)
  BY <1>9 DEF SweepErase, CheckCapacity, Call_
<1>4. CASE Stamp(c) \/ DeleteErase(c)
  BY <1>4 DEF Stamp, DeleteErase, Break
<1>5. CASE NewHand(c) \/ EndHand(c) \/ EditSession(c) \/ EvalShowdown(c) \/ RefuseAction(c)
  BY <1>5 DEF NewHand, EndHand, EditSession, EvalShowdown, RefuseAction
<1>6. CASE StartAction(c) \/ FinishAction(c)
  BY <1>6 DEF StartAction, FinishAction, Call_
<1>7. CASE DeleteEngine(c)
  BY <1>7 DEF DeleteEngine, Break, Call_
<1>8. CASE Insert(c)
  <2>1. call'[c] = [call[c] EXCEPT !.at = "stamp", !.s = newUUID]
    BY <1>8 DEF Insert
  <2>2. call[c] \in Call_ /\ call[c].op = "create" /\ mutex = None /\ mutex' = c
    BY <1>8 DEF Insert
  <2>3. call'[c].op = "create" /\ call'[c].at = "stamp"
    BY <2>1, <2>2 DEF Call_
  <2> QED BY <2>2, <2>3
<1>10. CASE InsertFails(c)
  BY <1>10 DEF InsertFails
<1> QED
  BY <1>1, <1>2, <1>3, <1>4, <1>5, <1>6, <1>7, <1>8, <1>9, <1>10 DEF Lock, Serve

(* What is undefined starts from nothing.                                   *)
LEMMA OnlyBreaksBreak ==
  ASSUME NEW c \in Clients, Serve(c) \/ Lock(c) \/ ClientStep(c), broken'
  PROVE  Break
<1> USE DEF At, Using, Free, Call, serverVars
<1>1. CASE ClientStep(c)
  BY <1>1 DEF ClientStep, CallCreate, CallDelete, CallNewHand, CallEndHand, CallGetAction,
     CallEdit, CallEval, Restart, SendHeartbeat
<1>2. CASE Serve(c)
  BY <1>2 DEF Serve, NotFound, UseDeleted, SweepDelete, SweepErase, CheckCapacity, Stamp,
     FindToDelete, DeleteErase, FindEngine, NewHand, EndHand, EditSession, EvalShowdown,
     RefuseAction, StartAction, FinishAction
<1>3. CASE Lock(c)
  BY <1>3 DEF Lock, Insert, InsertFails, DeleteEngine
<1> QED
  BY <1>1, <1>2, <1>3

(* A step of the system is a client's, time passing, a reset or nothing.    *)
LEMMA Steps ==
  ASSUME [Next]_vars
  PROVE  \/ \E c \in Clients : (Serve(c) \/ Lock(c) \/ ClientStep(c)) /\ ~broken'
         \/ Break
         \/ UNCHANGED <<client, call, sessions, engine, deleted, mutex, broken>>
<1>1. ASSUME NEW s \in SessionIds, TenSecondsPass(s)
      PROVE  UNCHANGED <<client, call, sessions, engine, deleted, mutex, broken>>
  BY <1>1 DEF TenSecondsPass
<1>2. CASE UNCHANGED vars
  BY <1>2 DEF vars, serverVars
<1> QED
  BY <1>1, <1>2, OnlyBreaksBreak DEF Next, Rest

(* A mutex that is held is held by the client that is between lock and      *)
(* unlock.                                                                  *)
MutexInv == \A c \in Clients : mutex = c <=> Holds(c)

(* At the start nobody is.                                                  *)
LEMMA InitIsUnlocked == Init => MutexInv
  BY DEF Init, MutexInv, Holds, NoCall

(* Every step keeps that.                                                   *)
LEMMA MutexInvIsKept ==
  ASSUME TypeInv, MutexInv, [Next]_vars
  PROVE  MutexInv'
<1>1. ASSUME NEW c \in Clients, Serve(c) \/ Lock(c) \/ ClientStep(c), ~broken'
      PROVE  MutexInv'
  <2>1. \A d \in Clients \ {c} : Holds(d)' <=> Holds(d)
    BY <1>1, OthersStay DEF Holds
  <2>2. \A d \in Clients : mutex = d <=> Holds(d)
    BY DEF MutexInv
  <2>3. \A d \in Clients : mutex' = d <=> Holds(d)'
    BY <1>1, <2>1, <2>2, MutexSteps
  <2> QED BY <2>3 DEF MutexInv
<1>2. CASE Break
  BY <1>2 DEF Break, MutexInv, Holds, NoCall
<1>3. CASE UNCHANGED <<client, call, sessions, engine, deleted, mutex, broken>>
  BY <1>3 DEF MutexInv, Holds
<1> QED
  BY <1>1, <1>2, <1>3, Steps

(***************************************************************************)
(* Capacity                                                                *)
(***************************************************************************)
(* Handlers that have passed the test and not inserted their session.       *)
Passed == {c \in Clients : call[c].op = "create" /\ call[c].at = "lock"}

CapacityInv == Cardinality(sessions) + Cardinality(Passed) < MaxCapacity + Cardinality(Clients)

(* How a step of c changes the map and the handlers that passed.            *)
LEMMA CapacitySteps ==
  ASSUME TypeInv, NEW c \in Clients, Serve(c) \/ Lock(c) \/ ClientStep(c), ~broken'
  PROVE  \/ sessions' \subseteq sessions /\ Passed' \subseteq Passed
         \/ Cardinality(sessions) < MaxCapacity /\ sessions' = sessions
         \/ /\ \E s \in SessionIds : sessions' = sessions \cup {s}
            /\ c \in Passed /\ Passed' = Passed \ {c}
<1>1. \A d \in Clients \ {c} : d \in Passed' <=> d \in Passed
  BY OthersStay DEF Passed
<1> USE DEF TypeInv, TypeOK, GoTo, Reply, Call, serverVars, At, Using, Free, NoCall
<1> DEFINE Same == sessions' \subseteq sessions /\ Passed' \subseteq Passed
<1>2. ASSUME sessions' \subseteq sessions, c \in Passed' => c \in Passed
      PROVE  Same
  BY <1>1, <1>2 DEF Passed
<1>3. CASE ClientStep(c)
  <2>1. sessions' = sessions /\ (c \in Passed' => c \in Passed)
    BY <1>3 DEF ClientStep, CallCreate, CallDelete, CallNewHand, CallEndHand, CallGetAction,
       CallEdit, CallEval, Restart, SendHeartbeat, Passed
  <2> QED BY <1>2, <2>1
<1>4. CASE \/ NotFound(c) \/ UseDeleted(c) \/ FindToDelete(c) \/ FindEngine(c)
           \/ SweepErase(c) \/ Stamp(c) \/ DeleteErase(c)
  <2>1. sessions' \subseteq sessions /\ (c \in Passed' => c \in Passed)
    BY <1>4 DEF NotFound, UseDeleted, FindToDelete, FindEngine, SweepErase, Stamp, DeleteErase,
       Break, Call_, Passed
  <2> QED BY <1>2, <2>1
<1>5. CASE SweepDelete(c)
  <2>1. call[c] \in Call_ /\ call[c].op = "create" /\ call[c].at = "find"
    BY <1>5 DEF SweepDelete
  <2>2. PICK s \in call[c].todo :
          \/ call' = [call EXCEPT ![c].todo = @ \ {s}]
          \/ call' = [call EXCEPT ![c].at = "erase", ![c].s = s, ![c].todo = @ \ {s}]
    BY <1>5 DEF SweepDelete, Break
  <2>3. call'[c].at \in {"find", "erase"}
    BY <2>1, <2>2 DEF Call_
  <2>4. sessions' = sessions
    BY <1>5 DEF SweepDelete, Break
  <2> QED BY <1>2, <2>3, <2>4 DEF Passed
<1>6. CASE CheckCapacity(c)
  <2>1. CASE Space
    BY <1>6, <2>1 DEF CheckCapacity, Space
  <2>2. CASE ~Space
    <3>1. sessions' = sessions /\ c \notin Passed'
      BY <1>6, <2>2 DEF CheckCapacity, Passed
    <3> QED BY <1>2, <3>1
  <2> QED BY <2>1, <2>2
<1>7. CASE NewHand(c) \/ EndHand(c) \/ EditSession(c) \/ EvalShowdown(c) \/ RefuseAction(c)
           \/ StartAction(c) \/ FinishAction(c)
  <2>1. sessions' = sessions /\ c \notin Passed'
    BY <1>7 DEF NewHand, EndHand, EditSession, EvalShowdown, RefuseAction, StartAction,
       FinishAction, Passed, Call_
  <2> QED BY <1>2, <2>1
<1>8. CASE DeleteEngine(c) \/ InsertFails(c)
  <2>1. sessions' = sessions /\ c \notin Passed'
    BY <1>8 DEF DeleteEngine, InsertFails, Break, Passed, Call_
  <2> QED BY <1>2, <2>1
<1>9. CASE Insert(c)
  <2>1. newUUID \in SessionIds
    BY <1>9 DEF Insert, newUUID, used
  <2>2. sessions' = sessions \cup {newUUID} /\ c \in Passed
    BY <1>9 DEF Insert, Passed
  <2>3. c \notin Passed'
    <3>1. call'[c] = [call[c] EXCEPT !.at = "stamp", !.s = newUUID] /\ call[c] \in Call_
      BY <1>9 DEF Insert
    <3> QED BY <3>1 DEF Call_, Passed
  <2>4. Passed' = Passed \ {c}
    BY <1>1, <2>2, <2>3 DEF Passed
  <2> QED BY <2>1, <2>2, <2>4
<1> QED
  BY <1>3, <1>4, <1>5, <1>6, <1>7, <1>8, <1>9 DEF Lock, Serve

(* However many handlers pass the test of the capacity together, the map    *)
(* has room for them: with n clients it never holds max_capacity_ + n.      *)
THEOREM CapacityHolds == Spec => []CapacityNearlyHolds
<1>1. ASSUME TypeInv
      PROVE  /\ IsFiniteSet(sessions) /\ Cardinality(sessions) \in Nat
             /\ IsFiniteSet(Passed) /\ Cardinality(Passed) \in Nat
             /\ Cardinality(Passed) <= Cardinality(Clients) /\ Cardinality(Clients) \in Nat
  <2>1. sessions \in SUBSET SessionIds /\ Passed \in SUBSET Clients
    BY <1>1 DEF TypeInv, TypeOK, Passed
  <2> QED BY <2>1, FS_Subset, FS_CardinalityType
<1>2. Init => CapacityInv
  <2> SUFFICES ASSUME Init PROVE CapacityInv
    OBVIOUS
  <2>1. sessions = {} /\ Passed = {}
    BY DEF Init, Passed, NoCall
  <2> QED BY <2>1, FS_EmptySet, FS_CardinalityType DEF CapacityInv
<1>3. TypeInv /\ CapacityInv /\ [Next]_vars => CapacityInv'
  <2> SUFFICES ASSUME TypeInv, CapacityInv, [Next]_vars
               PROVE  CapacityInv'
    OBVIOUS
  <2>1. TypeInv'
    BY StepsAreTyped
  <2>2. ASSUME NEW c \in Clients, Serve(c) \/ Lock(c) \/ ClientStep(c), ~broken'
        PROVE  CapacityInv'
    <3>1. CASE sessions' \subseteq sessions /\ Passed' \subseteq Passed
      <4>1. Cardinality(sessions') <= Cardinality(sessions)
            /\ Cardinality(Passed') <= Cardinality(Passed)
        BY <1>1, <3>1, FS_Subset
      <4>2. Cardinality(sessions') \in Nat /\ Cardinality(Passed') \in Nat
        BY <1>1, <3>1, FS_Subset, FS_CardinalityType
      <4> QED BY <1>1, <4>1, <4>2 DEF CapacityInv
    <3>2. CASE Cardinality(sessions) < MaxCapacity /\ sessions' = sessions
      <4>1. Passed' \in SUBSET Clients
        BY DEF Passed
      <4>2. Cardinality(Passed') <= Cardinality(Clients) /\ Cardinality(Passed') \in Nat
        BY <4>1, FS_Subset, FS_CardinalityType
      <4> QED BY <1>1, <3>2, <4>2 DEF CapacityInv
    <3>3. CASE /\ \E s \in SessionIds : sessions' = sessions \cup {s}
               /\ c \in Passed /\ Passed' = Passed \ {c}
      <4>1. Cardinality(sessions') <= Cardinality(sessions) + 1
            /\ Cardinality(sessions') \in Nat
        <5>1. PICK s \in SessionIds : sessions' = sessions \cup {s}
          BY <3>3
        <5>2. IsFiniteSet(sessions')
              /\ Cardinality(sessions') \in {Cardinality(sessions), Cardinality(sessions) + 1}
          BY <1>1, <5>1, FS_AddElement
        <5> QED BY <1>1, <5>2
      <4>2. Cardinality(Passed') = Cardinality(Passed) - 1
        BY <1>1, <3>3, FS_RemoveElement
      <4> QED BY <1>1, <4>1, <4>2 DEF CapacityInv
    <3> QED BY <2>2, <3>1, <3>2, <3>3, CapacitySteps
  <2>3. CASE Break
    <3>1. sessions' = {} /\ Passed' = {}
      BY <2>3 DEF Break, Passed, NoCall
    <3> QED BY <3>1, FS_EmptySet, FS_CardinalityType DEF CapacityInv
  <2>4. CASE UNCHANGED <<client, call, sessions, engine, deleted, mutex, broken>>
    <3>1. sessions' = sessions /\ Passed' = Passed
      BY <2>4 DEF Passed
    <3> QED BY <3>1 DEF CapacityInv
  <2> QED BY <2>2, <2>3, <2>4, Steps
<1>4. TypeInv /\ CapacityInv => CapacityNearlyHolds
  BY <1>1 DEF CapacityInv, CapacityNearlyHolds
<1> QED
  BY <1>2, <1>3, <1>4, InitIsTyped, StepsAreTyped, PTL DEF Spec

(***************************************************************************)
(* Sessions and their clients                                              *)
(***************************************************************************)
(* A call carries its client's session; what is being erased was deleted.   *)
CallOwnsSession(c) ==
    /\ client[c].id \in used \cup {None}
    /\ call[c].op \notin {"none", "create"} => call[c].s = client[c].id
    /\ call[c].at \in {"erase", "stamp"} => call[c].s \in used
    /\ call[c].at = "erase" => call[c].s \in deleted
    /\ call[c].at = "stamp" => call[c].op = "create"
    /\ call[c].at = "erase" => call[c].op \in {"create", "delete"}
    /\ call[c].at = "engine" => call[c].op \notin {"none", "create"}

(* A session id is one client's and is given out once.                      *)
IdsAreDistinct ==
    \A c, d \in Clients :
        /\ client[c].id = client[d].id /\ client[c].id # None => c = d
        /\ call[c].at = "stamp" => client[d].id # call[c].s

OwnInv == (\A c \in Clients : CallOwnsSession(c)) /\ IdsAreDistinct

SameCall(c) == /\ call'[c].op = call[c].op /\ call'[c].at = call[c].at
               /\ call'[c].s = call[c].s /\ client'[c].id = client[c].id

(* While the code is defined, a used identifier stays used and a deleted one*)
(* stays deleted.                                                           *)
LEMMA UsedStaysUsed ==
  ASSUME TypeInv, OwnInv, NEW c \in Clients, Serve(c) \/ Lock(c) \/ ClientStep(c), ~broken'
  PROVE  used \subseteq used' /\ deleted \subseteq deleted'
<1> USE DEF Break, used, At, Sid, serverVars
<1>1. CASE ClientStep(c)
  BY <1>1 DEF ClientStep, CallCreate, CallDelete, CallNewHand, CallEndHand, CallGetAction,
     CallEdit, CallEval, Restart, SendHeartbeat, Call
<1>2. CASE SweepErase(c) \/ DeleteErase(c)
  <2>1. Sid(c) \in deleted
    BY <1>2 DEF OwnInv, CallOwnsSession, SweepErase, DeleteErase
  <2> QED BY <1>2, <2>1 DEF SweepErase, DeleteErase
<1>3. CASE \/ NotFound(c) \/ UseDeleted(c) \/ SweepDelete(c) \/ CheckCapacity(c) \/ Stamp(c)
           \/ FindToDelete(c) \/ FindEngine(c) \/ NewHand(c) \/ EndHand(c)
           \/ EditSession(c) \/ EvalShowdown(c) \/ RefuseAction(c) \/ StartAction(c)
           \/ FinishAction(c)
  BY <1>3 DEF NotFound, UseDeleted, SweepDelete, CheckCapacity, Stamp, FindToDelete,
     FindEngine, NewHand, EndHand, EditSession, EvalShowdown, RefuseAction, StartAction,
     FinishAction
<1>4. CASE Lock(c)
  BY <1>4 DEF Lock, Insert, InsertFails, DeleteEngine
<1> QED
  BY <1>1, <1>2, <1>3, <1>4 DEF Serve

(* What a step of c does to its call and its client.                        *)
LEMMA OwnSteps ==
  ASSUME TypeInv, OwnInv, NEW c \in Clients, Serve(c) \/ Lock(c) \/ ClientStep(c), ~broken'
  PROVE  \/ SameCall(c)
         \/ /\ call'[c].op = "none" /\ call'[c].at = "none"
            /\ \/ client'[c].id \in {client[c].id, None}
               \/ call[c].at = "stamp" /\ client'[c].id = call[c].s
         \/ /\ client'[c].id = client[c].id /\ call'[c].at # "stamp"
            /\ CallOwnsSession(c)'
         \/ /\ client'[c].id = client[c].id /\ call'[c].op = "create"
            /\ call'[c].at = "stamp" /\ call'[c].s \in used' \ used
<1> USE DEF TypeInv, TypeOK, GoTo, Reply, Call, serverVars, At, Using, Free, NoCall, SameCall, Sid
<1>0. CallOwnsSession(c) /\ used \subseteq used' /\ deleted \subseteq deleted'
  BY UsedStaysUsed DEF OwnInv
<1> HIDE DEF CallsAreShaped
<1>1. CASE Restart(c) \/ SendHeartbeat(c)
  BY <1>1 DEF Restart, SendHeartbeat, NewClient
<1>2. CASE \/ CallCreate(c) \/ CallDelete(c) \/ CallNewHand(c) \/ CallEndHand(c)
           \/ CallGetAction(c) \/ CallEdit(c) \/ CallEval(c)
  BY <1>0, <1>2 DEF CallCreate, CallDelete, CallNewHand, CallEndHand, CallGetAction, CallEdit,
     CallEval, CallOwnsSession, used
<1>3. CASE \/ NotFound(c) \/ DeleteErase(c) \/ EndHand(c) \/ EditSession(c)
           \/ EvalShowdown(c) \/ RefuseAction(c) \/ FinishAction(c) \/ InsertFails(c)
  BY <1>3 DEF NotFound, DeleteErase, EndHand, EditSession, EvalShowdown, RefuseAction,
     FinishAction, InsertFails
<1>4. CASE NewHand(c)
  BY <1>4 DEF NewHand
<1>5. CASE Stamp(c)
  BY <1>5 DEF Stamp, Break
<1>6. CASE UseDeleted(c)
  BY <1>6 DEF UseDeleted, Break
<1>7. CASE CheckCapacity(c)
  BY <1>0, <1>7 DEF CheckCapacity, Call_, CallOwnsSession
<1>8. CASE FindToDelete(c) \/ FindEngine(c)
  BY <1>0, <1>8 DEF FindToDelete, FindEngine, Call_, CallOwnsSession
<1>9. CASE DeleteEngine(c)
  <2>1. ~Break
    BY DEF Break
  <2>2. /\ call[c] \in Call_ /\ call[c].op = "delete"
        /\ call' = [call EXCEPT ![c].at = "erase"] /\ client' = client
        /\ deleted' = deleted \cup {call[c].s}
    BY <1>9, <2>1 DEF DeleteEngine
  <2>3. call'[c] = [call[c] EXCEPT !.at = "erase"]
    BY <2>2
  <2>4. call'[c].at = "erase" /\ call'[c].op = "delete" /\ call'[c].s = call[c].s
    BY <2>2, <2>3 DEF Call_
  <2>5. call[c].s = client[c].id /\ client[c].id \in used \cup {None}
    BY <1>0, <2>2 DEF CallOwnsSession
  <2>6. call'[c].s \in deleted' /\ deleted' \subseteq used' /\ client'[c].id = client[c].id
    BY <2>2, <2>4 DEF used
  <2>7. CallOwnsSession(c)'
    BY <1>0, <2>4, <2>5, <2>6 DEF CallOwnsSession
  <2> QED BY <2>4, <2>6, <2>7
<1>10. CASE SweepErase(c)
  BY <1>0, <1>10 DEF SweepErase, Call_, CallOwnsSession
<1>11. CASE StartAction(c)
  BY <1>0, <1>11 DEF StartAction, Call_, CallOwnsSession
<1>12. CASE SweepDelete(c)
  BY <1>0, <1>12 DEF SweepDelete, Call_, CallOwnsSession, Break, used
<1>13. CASE Insert(c)
  <2>1. newUUID \in SessionIds \ used
    BY <1>13 DEF Insert, newUUID, used
  <2>2. call[c] \in Call_ /\ call[c].op = "create" /\ client' = client
        /\ sessions' = sessions \cup {newUUID} /\ deleted' = deleted
    BY <1>13 DEF Insert
  <2>3. call'[c] = [call[c] EXCEPT !.at = "stamp", !.s = newUUID]
    BY <1>13 DEF Insert
  <2> HIDE DEF newUUID
  <2>4. call'[c].at = "stamp" /\ call'[c].op = "create" /\ call'[c].s = newUUID
    BY <2>2, <2>3 DEF Call_
  <2>5. newUUID \in used'
    BY <2>2 DEF used
  <2> QED BY <2>1, <2>2, <2>4, <2>5
<1> QED
  BY <1>1, <1>2, <1>3, <1>4, <1>5, <1>6, <1>7, <1>8, <1>9, <1>10, <1>11, <1>12, <1>13
  DEF ClientStep, Serve, Lock

(* Only handlers that hold the mutex create, one at a time.                 *)
LEMMA OwnInvIsKept ==
  ASSUME TypeInv, OwnInv, MutexInv, [Next]_vars
  PROVE  OwnInv'
<1>1. ASSUME NEW c \in Clients, Serve(c) \/ Lock(c) \/ ClientStep(c), ~broken'
      PROVE  OwnInv'
  <2>1. used \subseteq used' /\ deleted \subseteq deleted'
    BY <1>1, UsedStaysUsed
  <2>2. \A d \in Clients : CallOwnsSession(d)
    BY DEF OwnInv
  <2>3. ASSUME NEW d \in Clients, d # c
        PROVE  CallOwnsSession(d)'
    <3>1. /\ client'[d] = client[d] /\ call'[d].op = call[d].op
          /\ call'[d].at = call[d].at /\ call'[d].s = call[d].s
      BY <1>1, <2>3, OthersStay
    <3> QED BY <2>1, <2>2, <3>1 DEF CallOwnsSession
  <2>4. \/ SameCall(c)
        \/ /\ call'[c].op = "none" /\ call'[c].at = "none"
           /\ \/ client'[c].id \in {client[c].id, None}
              \/ call[c].at = "stamp" /\ client'[c].id = call[c].s
        \/ /\ client'[c].id = client[c].id /\ call'[c].at # "stamp"
           /\ CallOwnsSession(c)'
        \/ /\ client'[c].id = client[c].id /\ call'[c].op = "create"
           /\ call'[c].at = "stamp" /\ call'[c].s \in used' \ used
    BY <1>1, OwnSteps
  <2>5. CallOwnsSession(c)'
    BY <2>1, <2>2, <2>4 DEF CallOwnsSession, SameCall
  <2>6. \A d \in Clients : CallOwnsSession(d)'
    BY <2>3, <2>5
  <2>7. \A d \in Clients \ {c} : /\ client'[d].id = client[d].id
                                 /\ call'[d].at = call[d].at /\ call'[d].s = call[d].s
    BY <1>1, OthersStay
  <2>8. \A d \in Clients : call[d].at = "stamp" => mutex = d
    BY <2>2 DEF MutexInv, Holds, CallOwnsSession
  <2>9. \A d \in Clients : client[d].id \in used \cup {None}
    BY <2>2 DEF CallOwnsSession
  <2>10. \A d, e \in Clients :
            /\ client[d].id = client[e].id /\ client[d].id # None => d = e
            /\ call[d].at = "stamp" => client[e].id # call[d].s
    BY DEF OwnInv, IdsAreDistinct
  <2>11. None \notin used /\ None \notin used'
    <3>1. TypeInv'
      BY StepsAreTyped
    <3> QED BY <3>1 DEF TypeInv, TypeOK, used
  <2>12. \A d \in Clients : call[d].at = "stamp" => call[d].s \in used
    BY <2>2 DEF CallOwnsSession
  <2>13. IdsAreDistinct'
    <3>1. CASE SameCall(c)
      <4>1. \A d \in Clients : /\ client'[d].id = client[d].id
                               /\ call'[d].at = call[d].at /\ call'[d].s = call[d].s
        BY <2>7, <3>1 DEF SameCall
      <4> QED BY <2>10, <4>1 DEF IdsAreDistinct
    <3>2. CASE call'[c].at = "none" /\ client'[c].id \in {client[c].id, None}
      BY <2>7, <2>10, <2>11, <2>12, <3>2 DEF IdsAreDistinct
    <3>3. CASE call'[c].at = "none" /\ call[c].at = "stamp" /\ client'[c].id = call[c].s
      BY <2>7, <2>8, <2>10, <2>11, <2>12, <3>3 DEF IdsAreDistinct
    <3>4. CASE client'[c].id = client[c].id /\ call'[c].at # "stamp"
      BY <2>7, <2>10, <3>4 DEF IdsAreDistinct
    <3>5. CASE /\ client'[c].id = client[c].id /\ call'[c].at = "stamp"
               /\ call'[c].s \in used' \ used
      BY <2>7, <2>9, <2>10, <2>11, <3>5 DEF IdsAreDistinct
    <3> QED BY <2>4, <3>1, <3>2, <3>3, <3>4, <3>5
  <2> QED BY <2>6, <2>13 DEF OwnInv
<1>2. CASE Break
  <2>1. \A d \in Clients : call'[d] = NoCall /\ client'[d].id = None
    BY <1>2 DEF Break, NewClient
  <2> QED BY <2>1 DEF OwnInv, CallOwnsSession, IdsAreDistinct, NoCall
<1>3. CASE UNCHANGED <<client, call, sessions, engine, deleted, mutex, broken>>
  <2>1. \A d \in Clients : CallOwnsSession(d) => CallOwnsSession(d)'
    BY <1>3 DEF CallOwnsSession, used
  <2>2. IdsAreDistinct => IdsAreDistinct'
    BY <1>3 DEF IdsAreDistinct
  <2> QED BY <2>1, <2>2 DEF OwnInv
<1> QED
  BY <1>1, <1>2, <1>3, Steps

(***************************************************************************)
(* Playbooks                                                               *)
(***************************************************************************)
BooksAreOfLastHand(e) ==
    e.books # {} => /\ e.last \in MatchState
                    /\ \A b \in e.books : b.hand = e.last.hand

EngineInv ==
    /\ \A s \in SessionIds : BooksAreOfLastHand(engine[s])
    /\ \A s \in deleted : engine[s].books = {}
    /\ \A c \in Clients : call[c].at = "solving" /\ call[c].s \notin deleted =>
           engine[call[c].s].last = call[c].ms

(* Refreshing an engine drops its playbooks and keeps the hand it was last  *)
(* asked about.                                                             *)
LEMMA RefreshedEngines ==
  ASSUME NEW e \in EngineType
  PROVE  /\ BooksAreOfLastHand(Refreshed(e))
         /\ Refreshed(e).last = e.last /\ Refreshed(e).books = {}
BY DEF Refreshed, EngineType, BooksAreOfLastHand

(* EngineStateStaleCheck sees to it that the playbooks which are kept are of*)
(* the hand that is asked about; a search leaves last_matchstate_ alone.    *)
LEMMA EnginesKeepToTheHand ==
  ASSUME NEW e \in EngineType, BooksAreOfLastHand(e), NEW ms \in MatchState
  PROVE  /\ BooksAreOfLastHand(Prepared(e, ms)) /\ Prepared(e, ms).last = ms
         /\ \A f \in WithAction(e, ms) \cup WithException(e, ms) :
              f.last = e.last /\ (e.last = ms => BooksAreOfLastHand(f))
<1> USE DEF EngineType, BooksAreOfLastHand
<1>1. Refreshed(e).books = {}
  BY RefreshedEngines
<1>2. Prepared(e, ms).last = ms
  BY DEF Prepared
<1>3. \A b \in Prepared(e, ms).books : b.hand = ms.hand
  <2>1. Book(ms, FALSE).hand = ms.hand
    BY DEF Book
  <2>2. CASE Stale(e, ms) \/ e.books = {}
    <3>1. Prepared(e, ms).books = {Book(ms, FALSE)}
      BY <1>1, <2>2 DEF Prepared
    <3> QED BY <2>1, <3>1
  <2>3. CASE ~Stale(e, ms) /\ e.books # {}
    <3>1. Prepared(e, ms).books = e.books
      BY <2>3 DEF Prepared
    <3>2. e.last.hand = ms.hand
      BY <2>3 DEF Stale, InSameMatch
    <3> QED BY <2>3, <3>1, <3>2
  <2> QED BY <2>2, <2>3
<1>4. \A f \in AfterSubgame(e, ms) :
        f \in EngineType /\ f.last = e.last /\ (e.last = ms => BooksAreOfLastHand(f))
  <2>1. Book(ms, TRUE) \in PlayBook /\ Book(ms, TRUE).hand = ms.hand
    BY DEF Book, PlayBook
  <2> DEFINE g == [e EXCEPT !.books = @ \cup {Book(ms, TRUE)}]
  <2>2. g \in EngineType /\ g.last = e.last /\ g.books = e.books \cup {Book(ms, TRUE)}
    BY <2>1
  <2>3. e.last = ms => BooksAreOfLastHand(g)
    BY <2>1, <2>2
  <2> HIDE DEF g
  <2>4. AfterSubgame(e, ms) = {e, g}
    BY DEF AfterSubgame, g
  <2> QED BY <2>2, <2>3, <2>4
<1>5. \A f \in WithAction(e, ms) : f.last = e.last /\ (e.last = ms => BooksAreOfLastHand(f))
  <2>1. \A f \in EngineType : /\ [f EXCEPT !.busy = FALSE].last = f.last
                              /\ [f EXCEPT !.busy = FALSE].books = f.books
    OBVIOUS
  <2> QED BY <1>4, <2>1 DEF WithAction
<1> QED
  BY <1>1, <1>2, <1>3, <1>4, <1>5 DEF WithException

(* What a step of c does to the engines.                                    *)
LEMMA EngineSteps ==
  ASSUME TypeInv, NEW c \in Clients, Serve(c) \/ Lock(c) \/ ClientStep(c), ~broken'
  PROVE  \/ /\ UNCHANGED engine /\ deleted' = deleted
            /\ call'[c].at # "solving" \/ UNCHANGED <<call, client>>
         \/ /\ call'[c].at # "solving"
            /\ \E s \in SessionIds : /\ deleted' = deleted \cup {s}
                                     /\ engine' = [engine EXCEPT ![s] = NewEngine]
         \/ /\ call'[c].at # "solving" /\ deleted' = deleted
            /\ call[c].s \in SessionIds \ deleted
            /\ engine' = [engine EXCEPT ![call[c].s] = Refreshed(engine[call[c].s])]
         \/ /\ deleted' = deleted /\ call[c].s \in SessionIds \ deleted
            /\ call[c].at = "engine" /\ call[c].op = "getaction"
            /\ call'[c].at = "solving" /\ call'[c].s = call[c].s
            /\ call'[c].ms \in MatchState
            /\ engine' = [engine EXCEPT ![call[c].s]
                                          = Prepared(engine[call[c].s], call'[c].ms)]
         \/ /\ deleted' = deleted /\ call[c].s \in SessionIds \ deleted
            /\ call[c].at = "solving" /\ call[c].ms \in MatchState
            /\ call'[c].at # "solving"
            /\ \E f \in WithAction(engine[call[c].s], call[c].ms)
                          \cup WithException(engine[call[c].s], call[c].ms) :
                 engine' = [engine EXCEPT ![call[c].s] = f]
<1> USE DEF TypeInv, TypeOK, GoTo, Reply, Call, serverVars, At, Using, Free, NoCall, Sid
<1> HIDE DEF CallsAreShaped
<1>1. CASE ClientStep(c)
  <2>1. CASE Restart(c) \/ SendHeartbeat(c)
    BY <1>1, <2>1 DEF Restart, SendHeartbeat
  <2>2. CASE \/ CallCreate(c) \/ CallDelete(c) \/ CallNewHand(c) \/ CallEndHand(c)
             \/ CallGetAction(c) \/ CallEdit(c) \/ CallEval(c)
    BY <2>2 DEF CallCreate, CallDelete, CallNewHand, CallEndHand, CallGetAction, CallEdit,
       CallEval
  <2> QED BY <1>1, <2>1, <2>2 DEF ClientStep
<1>2. CASE \/ NotFound(c) \/ DeleteErase(c) \/ EndHand(c) \/ EditSession(c)
           \/ EvalShowdown(c) \/ RefuseAction(c) \/ InsertFails(c)
  BY <1>2 DEF NotFound, DeleteErase, EndHand, EditSession, EvalShowdown, RefuseAction,
     InsertFails
<1>3. CASE UseDeleted(c)
  BY <1>3 DEF UseDeleted, Break
<1>4. CASE Stamp(c)
  BY <1>4 DEF Stamp, Break
<1>5. CASE CheckCapacity(c) \/ FindToDelete(c) \/ FindEngine(c) \/ SweepErase(c)
  BY <1>5 DEF CheckCapacity, FindToDelete, FindEngine, SweepErase, Call_
<1>6. CASE SweepDelete(c)
  <2>1. PICK s \in call[c].todo :
          \/ /\ call' = [call EXCEPT ![c].todo = @ \ {s}]
             /\ engine' = engine /\ deleted' = deleted
          \/ /\ deleted' = deleted \cup {s}
             /\ engine' = [engine EXCEPT ![s] = NewEngine]
             /\ call' = [call EXCEPT ![c].at = "erase", ![c].s = s, ![c].todo = @ \ {s}]
    BY <1>6 DEF SweepDelete, Break
  <2>2. call[c] \in Call_ /\ call[c].at = "find" /\ s \in SessionIds
    BY <1>6, <2>1 DEF SweepDelete, Call_
  <2>3. call'[c].at \in {"find", "erase"}
    BY <2>1, <2>2 DEF Call_
  <2> QED BY <2>1, <2>2, <2>3
<1>7. CASE NewHand(c)
  <2>1. call[c].s \in SessionIds
    BY <1>7 DEF NewHand, CallsAreShaped
  <2> QED BY <1>7, <2>1 DEF NewHand
<1>8. CASE StartAction(c)
  <2>1. PICK ms \in MatchState :
          /\ engine' = [engine EXCEPT ![call[c].s] = Prepared(@, ms)]
          /\ call' = [call EXCEPT ![c].at = "solving", ![c].ms = ms]
    BY <1>8 DEF StartAction
  <2>2. call[c].s \in SessionIds \ deleted /\ call[c] \in Call_ /\ deleted' = deleted
        /\ call[c].at = "engine" /\ call[c].op = "getaction"
    BY <1>8 DEF StartAction, CallsAreShaped
  <2>3. call'[c] = [call[c] EXCEPT !.at = "solving", !.ms = ms]
    BY <2>1
  <2>4. call'[c].at = "solving" /\ call'[c].ms = ms /\ call'[c].s = call[c].s
    BY <2>2, <2>3 DEF Call_
  <2>5. engine' = [engine EXCEPT ![call[c].s] = Prepared(engine[call[c].s], call'[c].ms)]
    BY <2>1, <2>2, <2>4
  <2> QED BY <2>2, <2>4, <2>5
<1>9. CASE FinishAction(c)
  <2>1. call[c].s \in SessionIds \ deleted /\ call[c].ms \in MatchState
        /\ call[c].at = "solving" /\ deleted' = deleted
    BY <1>9 DEF FinishAction, CallsAreShaped
  <2>2. call'[c].at # "solving"
    BY <1>9 DEF FinishAction
  <2>3. \E f \in WithAction(engine[call[c].s], call[c].ms)
                   \cup WithException(engine[call[c].s], call[c].ms) :
          engine' = [engine EXCEPT ![call[c].s] = f]
    BY <1>9 DEF FinishAction
  <2> QED BY <2>1, <2>2, <2>3
<1>10. CASE Insert(c)
  <2>1. call[c] \in Call_ /\ engine' = engine /\ deleted' = deleted
    BY <1>10 DEF Insert
  <2>2. call'[c] = [call[c] EXCEPT !.at = "stamp", !.s = newUUID]
    BY <1>10 DEF Insert
  <2> HIDE DEF newUUID
  <2>3. call'[c].at = "stamp"
    BY <2>1, <2>2 DEF Call_
  <2> QED BY <2>1, <2>3
<1>11. CASE DeleteEngine(c)
  <2>1. ~Break
    BY DEF Break
  <2>2. /\ call[c] \in Call_ /\ call[c].s \in SessionIds
        /\ call' = [call EXCEPT ![c].at = "erase"]
        /\ deleted' = deleted \cup {call[c].s}
        /\ engine' = [engine EXCEPT ![call[c].s] = NewEngine]
    BY <1>11, <2>1 DEF DeleteEngine, CallsAreShaped
  <2>3. call'[c].at = "erase"
    BY <2>2 DEF Call_
  <2> QED BY <2>2, <2>3
<1> QED
  BY <1>1, <1>2, <1>3, <1>4, <1>5, <1>6, <1>7, <1>8, <1>9, <1>10, <1>11 DEF Serve, Lock

(* A session serves one request at a time: it is its client's alone.        *)
LEMMA OneRequestASession ==
  ASSUME OwnInv, TypeInv, NEW c \in Clients, NEW d \in Clients,
         call[c].at = "engine", call[c].op = "getaction", call[c].s \in SessionIds,
         call[d].at = "solving", call[d].s = call[c].s
  PROVE  c = d
<1>1. call[d].op = "getaction"
  BY DEF TypeInv, CallsAreShaped
<1>2. call[c].s = client[c].id /\ call[d].s = client[d].id
  BY <1>1 DEF OwnInv, CallOwnsSession
<1> QED
  BY <1>2 DEF OwnInv, IdsAreDistinct

(* The invariant of the engines is inductive.                               *)
LEMMA EngineInvIsKept ==
  ASSUME TypeInv, OwnInv, EngineInv, [Next]_vars
  PROVE  EngineInv'
<1>1. ASSUME NEW c \in Clients, Serve(c) \/ Lock(c) \/ ClientStep(c), ~broken'
      PROVE  EngineInv'
  <2>1. \A d \in Clients \ {c} : /\ call'[d].at = call[d].at
                                 /\ call'[d].s = call[d].s /\ call'[d].ms = call[d].ms
    BY <1>1, OthersStay
  <2>2. \A d \in Clients : call[d].at = "solving" => call[d].s \in SessionIds
    BY DEF TypeInv, CallsAreShaped
  <2>3. engine \in [SessionIds -> EngineType] /\ deleted \subseteq SessionIds
    BY DEF TypeInv, TypeOK
  <2> USE DEF EngineInv
  <2>4. CASE /\ UNCHANGED engine /\ deleted' = deleted
             /\ call'[c].at # "solving" \/ UNCHANGED <<call, client>>
    <3>1. ASSUME NEW d \in Clients, call'[d].at = "solving"
          PROVE  /\ call[d].at = "solving"
                 /\ call'[d].s = call[d].s /\ call'[d].ms = call[d].ms
      BY <2>1, <2>4, <3>1
    <3> QED BY <2>4, <3>1 DEF BooksAreOfLastHand
  <2>5. CASE /\ call'[c].at # "solving"
             /\ \E s \in SessionIds : /\ deleted' = deleted \cup {s}
                                      /\ engine' = [engine EXCEPT ![s] = NewEngine]
    <3>1. PICK s \in SessionIds : /\ deleted' = deleted \cup {s}
                                  /\ engine' = [engine EXCEPT ![s] = NewEngine]
      BY <2>5
    <3>2. engine'[s].books = {} /\ \A t \in SessionIds \ {s} : engine'[t] = engine[t]
      BY <2>3, <3>1 DEF NewEngine
    <3>3. \A t \in SessionIds : BooksAreOfLastHand(engine'[t])
      BY <3>2 DEF BooksAreOfLastHand
    <3> QED BY <2>1, <2>2, <2>3, <2>5, <3>1, <3>2, <3>3
  <2> DEFINE t == call[c].s
  <2>6. CASE /\ call'[c].at # "solving" /\ deleted' = deleted
             /\ t \in SessionIds \ deleted
             /\ engine' = [engine EXCEPT ![t] = Refreshed(engine[t])]
    <3>1. BooksAreOfLastHand(Refreshed(engine[t])) /\ Refreshed(engine[t]).last = engine[t].last
      BY <2>3, <2>6, RefreshedEngines
    <3> QED BY <2>1, <2>2, <2>3, <2>6, <3>1
  <2>7. CASE /\ deleted' = deleted /\ t \in SessionIds \ deleted
             /\ call[c].at = "engine" /\ call[c].op = "getaction"
             /\ call'[c].at = "solving" /\ call'[c].s = t
             /\ call'[c].ms \in MatchState
             /\ engine' = [engine EXCEPT ![t] = Prepared(engine[t], call'[c].ms)]
    <3>1. /\ BooksAreOfLastHand(Prepared(engine[t], call'[c].ms))
          /\ Prepared(engine[t], call'[c].ms).last = call'[c].ms
      BY <2>3, <2>7, EnginesKeepToTheHand
    <3>2. /\ engine'[t] = Prepared(engine[t], call'[c].ms)
          /\ \A s \in SessionIds \ {t} : engine'[s] = engine[s]
      BY <2>3, <2>7
    <3>3. \A d \in Clients \ {c} : call'[d].at = "solving" => call'[d].s # t
      BY <2>1, <2>7, OneRequestASession
    <3>4. \A s \in SessionIds : BooksAreOfLastHand(engine'[s])
      BY <3>1, <3>2
    <3>5. \A s \in deleted' : engine'[s].books = {}
      BY <2>3, <2>7, <3>2
    <3>6. ASSUME NEW d \in Clients, call'[d].at = "solving", call'[d].s \notin deleted'
          PROVE  engine'[call'[d].s].last = call'[d].ms
      <4>1. CASE d = c
        BY <2>7, <3>1, <3>2, <4>1
      <4>2. CASE d # c
        BY <2>1, <2>2, <2>7, <3>2, <3>3, <3>6, <4>2
      <4> QED BY <4>1, <4>2
    <3> QED BY <3>4, <3>5, <3>6
  <2>8. CASE /\ deleted' = deleted /\ t \in SessionIds \ deleted
             /\ call[c].at = "solving" /\ call[c].ms \in MatchState
             /\ call'[c].at # "solving"
             /\ \E f \in WithAction(engine[t], call[c].ms)
                           \cup WithException(engine[t], call[c].ms) :
                  engine' = [engine EXCEPT ![t] = f]
    <3>1. PICK f \in WithAction(engine[t], call[c].ms)
                       \cup WithException(engine[t], call[c].ms) :
                 engine' = [engine EXCEPT ![t] = f]
      BY <2>8
    <3>2. engine[t].last = call[c].ms
      BY <2>8
    <3>3. BooksAreOfLastHand(f) /\ f.last = engine[t].last
      BY <2>3, <2>8, <3>2, EnginesKeepToTheHand
    <3>4. engine'[t] = f /\ \A s \in SessionIds \ {t} : engine'[s] = engine[s]
      BY <2>3, <2>8, <3>1
    <3> QED BY <2>1, <2>2, <2>3, <2>8, <3>3, <3>4
  <2> QED BY <1>1, <2>4, <2>5, <2>6, <2>7, <2>8, EngineSteps
<1>2. CASE Break
  <2>1. /\ \A s \in SessionIds : engine'[s] = NewEngine
        /\ deleted' = {} /\ \A c \in Clients : call'[c] = NoCall
    BY <1>2 DEF Break
  <2> QED BY <2>1 DEF EngineInv, NewEngine, NoCall, BooksAreOfLastHand
<1>3. CASE UNCHANGED <<client, call, sessions, engine, deleted, mutex, broken>>
  BY <1>3 DEF EngineInv, BooksAreOfLastHand
<1> QED
  BY <1>1, <1>2, <1>3, Steps

(* Whatever clients ask in whatever order, and however searches end, an     *)
(* action is looked for in playbooks of the hand that is asked about.       *)
THEOREM PlaybooksAreKeptToTheHand == Spec => []PlaybooksAreOfThisHand
<1>1. Init => OwnInv /\ EngineInv
  <2> SUFFICES ASSUME Init PROVE OwnInv /\ EngineInv
    OBVIOUS
  <2>1. \A c \in Clients : call[c] = NoCall /\ client[c].id = None
    BY DEF Init, NewClient
  <2>2. OwnInv
    BY <2>1 DEF OwnInv, CallOwnsSession, IdsAreDistinct, NoCall
  <2>3. EngineInv
    BY <2>1 DEF Init, EngineInv, BooksAreOfLastHand, NewEngine, NoCall
  <2> QED BY <2>2, <2>3
<1>2. TypeInv /\ EngineInv => PlaybooksAreOfThisHand
  <2> SUFFICES ASSUME TypeInv, EngineInv, NEW c \in Clients, At(c, "getaction", "solving"),
                      NEW b \in engine[Sid(c)].books
               PROVE  b.hand = call[c].ms.hand
    BY DEF PlaybooksAreOfThisHand
  <2>1. Sid(c) \in SessionIds
    BY DEF TypeInv, CallsAreShaped, At, Sid
  <2>2. Sid(c) \notin deleted
    BY <2>1 DEF EngineInv
  <2>3. engine[Sid(c)].last = call[c].ms
    BY <2>2 DEF EngineInv, At, Sid
  <2>4. b.hand = engine[Sid(c)].last.hand
    BY <2>1 DEF EngineInv, BooksAreOfLastHand
  <2> QED BY <2>3, <2>4
<1> QED
  BY <1>1, <1>2, InitIsTyped, StepsAreTyped, InitIsUnlocked, MutexInvIsKept, OwnInvIsKept,
     EngineInvIsKept, PTL DEF Spec
=============================================================================
