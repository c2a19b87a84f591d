------------------------------ MODULE Sessions ------------------------------
(***************************************************************************)
(* The web controller (bulldog_controller.cpp), its sessions with their    *)
(* engines, and clients that use it through the SDK (bulldog_sdk.cpp).     *)
(*                                                                         *)
(* A client makes one call at a time and waits for the answer; the handler *)
(* runs on a thread of its own, its steps between those of the others.  A  *)
(* step is what happens between two places where a handler takes long:     *)
(* waiting for the mutex, building or deleting an engine, solving.  A      *)
(* look-up in the map is one step.  "broken" is true once a deleted engine *)
(* has been used or deleted again; what the program does then is open, and *)
(* the model stops.                                                        *)
(***************************************************************************)
EXTENDS Engine, Integers, FiniteSets

CONSTANTS
    Clients,
    SessionIds,         \* ids newUUID gives out
    MaxCapacity,        \* max_capacity_
    None, Gone

SessionsAssumption ==
    /\ IsFiniteSet(Clients) /\ IsFiniteSet(SessionIds)
    /\ MaxCapacity \in Nat \ {0}
    /\ None \notin SessionIds \cup Clients /\ Gone \notin Clients \cup {None}
ASSUME SessionsAssumption

VARIABLES
    client,             \* the SDK's session_id_ and in_hand_
    call,               \* call[c]: the request of c that is served, NoCall if none
    sessions,           \* keys of sessions_
    engine,             \* engine_ of a session, NewEngine when there is none
    deleted,            \* sessions whose engine is being or has been deleted
    idle,               \* sessions not accessed for more than ten seconds
    mutex,              \* its holder; Gone when a handler has ended without unlocking
    broken

serverVars == <<sessions, engine, deleted, idle, mutex, broken>>
vars == <<client, call, serverVars>>

NewClient == [id |-> None, inHand |-> FALSE]
NoCall    == [op |-> "none", at |-> "none", s |-> None, todo |-> {}, ms |-> NoState]

Init ==
    /\ client = [c \in Clients |-> NewClient]
    /\ call = [c \in Clients |-> NoCall]
    /\ sessions = {} /\ deleted = {} /\ idle = {}
    /\ engine = [s \in SessionIds |-> NewEngine]
    /\ mutex = None
    /\ broken = FALSE

(***************************************************************************)
(* The client                                                              *)
(***************************************************************************)
used    == sessions \cup deleted     \* ids given out
Free(c) == call[c] = NoCall /\ ~broken

Call(c, op, todo) ==
    /\ call' = [call EXCEPT ![c] = [op |-> op, at |-> "find", s |-> client[c].id,
                                    todo |-> todo, ms |-> NoState]]
    /\ UNCHANGED <<client, serverVars>>

CallCreate(c) ==
    /\ Free(c) /\ client[c].id = None
    /\ Cardinality(used) + Cardinality({d \in Clients : call[d].op = "create"})
         < Cardinality(SessionIds)
    /\ Call(c, "create", sessions)

CallDelete(c) ==
    /\ Free(c) /\ client[c].id # None
    /\ Call(c, "delete", {})

CallNewHand(c) ==
    /\ Free(c) /\ client[c].id # None /\ ~client[c].inHand
    /\ Call(c, "newhand", {})

CallEndHand(c) ==
    /\ Free(c) /\ client[c].id # None /\ client[c].inHand
    /\ Call(c, "endhand", {})

CallGetAction(c) ==
    /\ Free(c) /\ client[c].id # None
    /\ Call(c, "getaction", {})

(* ChangeBlinds and EvalState.                                              *)
CallEdit(c) ==
    /\ Free(c) /\ client[c].id # None
    /\ Call(c, "edit", {})

CallEval(c) ==
    /\ Free(c) /\ client[c].id # None
    /\ Call(c, "eval", {})

(* The client's process ends and another takes its place.                   *)
Restart(c) ==
    /\ Free(c) /\ client[c].id # None
    /\ client' = [client EXCEPT ![c] = NewClient]
    /\ UNCHANGED <<call, serverVars>>

(* HEARTBEAT, sent beside the other calls.                                  *)
SendHeartbeat(c) ==
    /\ ~broken /\ client[c].id \in sessions
    /\ idle' = idle \ {client[c].id}
    /\ UNCHANGED <<client, call, sessions, engine, deleted, mutex, broken>>

TenSecondsPass(s) ==
    /\ ~broken /\ s \in sessions
    /\ idle' = idle \cup {s}
    /\ UNCHANGED <<client, call, sessions, engine, deleted, mutex, broken>>

(***************************************************************************)
(* Handlers                                                                *)
(***************************************************************************)
At(c, op, at) == ~broken /\ call[c].op = op /\ call[c].at = at
Sid(c)        == call[c].s
GoTo(c, at)   == call' = [call EXCEPT ![c].at = at]
Reply(c)      == call' = [call EXCEPT ![c] = NoCall]

(* Undefined behaviour: the model forgets the rest and stops.               *)
Break ==
    /\ broken' = TRUE
    /\ client' = [c \in Clients |-> NewClient]
    /\ call' = [c \in Clients |-> NoCall]
    /\ sessions' = {} /\ deleted' = {} /\ idle' = {}
    /\ engine' = [s \in SessionIds |-> NewEngine]
    /\ mutex' = None

(* "invalid session id", for every request but create.                      *)
NotFound(c) ==
    /\ ~broken /\ call[c].at = "find" /\ call[c].op # "create"
    /\ Sid(c) \notin sessions
    /\ Reply(c)
    /\ UNCHANGED <<client, serverVars>>

(* TABLESESSION: idle sessions are deleted, an engine at a time.  An engine *)
(* takes three seconds to go and is in the map until then.                  *)
SweepDelete(c) ==
    /\ At(c, "create", "find")
    /\ \E s \in call[c].todo :
         IF s \notin sessions \cap idle
         THEN /\ call' = [call EXCEPT ![c].todo = @ \ {s}]
              /\ UNCHANGED <<client, serverVars>>
         ELSE IF s \in deleted THEN Break
         ELSE /\ deleted' = deleted \cup {s}
              /\ engine' = [engine EXCEPT ![s] = NewEngine]
              /\ call' = [call EXCEPT ![c].at = "erase", ![c].s = s, ![c].todo = @ \ {s}]
              /\ UNCHANGED <<client, sessions, idle, mutex, broken>>

SweepErase(c) ==
    /\ At(c, "create", "erase")
    /\ sessions' = sessions \ {Sid(c)} /\ idle' = idle \ {Sid(c)}
    /\ call' = [call EXCEPT ![c].at = "find", ![c].s = None]
    /\ UNCHANGED <<client, engine, deleted, mutex, broken>>

SpaceAboveCapacity == Cardinality(sessions) <= MaxCapacity     \* mutant: > for >=
Space == Cardinality(sessions) < MaxCapacity

CheckCapacity(c) ==
    /\ At(c, "create", "find") /\ call[c].todo = {}
    /\ IF Space THEN GoTo(c, "lock") ELSE Reply(c)
    /\ UNCHANGED <<client, serverVars>>

newUUID == CHOOSE s \in SessionIds : s \notin used

(* The new entry has no time of access yet, which is as good as idle.  A    *)
(* sweep that is going on meets it, or has passed its place in the map.     *)
Sweeping(d) == call[d].op = "create" /\ (call[d].at = "erase" \/ call[d].todo # {})

Insert(c) ==
    /\ At(c, "create", "lock") /\ mutex = None
    /\ used # SessionIds                \* CallCreate has kept an id for c
    /\ LET s == newUUID IN
         /\ sessions' = sessions \cup {s}
         /\ idle' = idle \cup {s}
         /\ \E meets \in SUBSET {d \in Clients : Sweeping(d)} :
              call' = [d \in Clients |->
                         IF d = c THEN [call[d] EXCEPT !.at = "stamp", !.s = s]
                         ELSE IF d \in meets THEN [call[d] EXCEPT !.todo = @ \cup {s}]
                         ELSE call[d]]
    /\ mutex' = c
    /\ UNCHANGED <<client, engine, deleted, broken>>

(* new Engine reads its files again.  When it throws, the handler ends      *)
(* between lock and unlock, and no entry has been made.                     *)
InsertFails(c) ==
    /\ At(c, "create", "lock") /\ mutex = None
    /\ mutex' = Gone
    /\ Reply(c)
    /\ UNCHANGED <<client, sessions, engine, deleted, idle, broken>>

Stamp(c) ==
    /\ At(c, "create", "stamp")
    /\ IF Sid(c) \in sessions \ deleted
       THEN /\ idle' = idle \ {Sid(c)}
            /\ mutex' = None
            /\ client' = [client EXCEPT ![c].id = Sid(c)]
            /\ Reply(c)
            /\ UNCHANGED <<sessions, engine, deleted, broken>>
       ELSE Break

(* DELETE TABLESESSION.  Looked up before, deleted under the mutex.         *)
FindToDelete(c) ==
    /\ At(c, "delete", "find") /\ Sid(c) \in sessions
    /\ GoTo(c, "lock")
    /\ UNCHANGED <<client, serverVars>>

DeleteEngine(c) ==
    /\ At(c, "delete", "lock") /\ mutex = None
    /\ IF Sid(c) \in sessions \cap deleted THEN Break
       ELSE /\ mutex' = c
            /\ deleted' = deleted \cup {Sid(c)}
            /\ engine' = [engine EXCEPT ![Sid(c)] = NewEngine]
            /\ GoTo(c, "erase")
            /\ UNCHANGED <<client, sessions, idle, broken>>

DeleteEraseLocked(c) ==                 \* mutant: mutex_.unlock left out
    /\ At(c, "delete", "erase")
    /\ sessions' = sessions \ {Sid(c)} /\ idle' = idle \ {Sid(c)}
    /\ Reply(c)
    /\ UNCHANGED <<client, engine, deleted, mutex, broken>>

DeleteErase(c) ==
    /\ At(c, "delete", "erase")
    /\ sessions' = sessions \ {Sid(c)} /\ idle' = idle \ {Sid(c)}
    /\ mutex' = None
    /\ Reply(c)
    /\ UNCHANGED <<client, engine, deleted, broken>>

(* NEW_HAND: the engine is found, then refreshed.                           *)
FindEngine(c) ==
    /\ \E op \in {"newhand", "getaction", "eval"} : At(c, op, "find")
    /\ Sid(c) \in sessions
    /\ GoTo(c, "engine")
    /\ UNCHANGED <<client, serverVars>>

Using(c, op, at) == At(c, op, at) /\ Sid(c) \notin deleted

UseDeleted(c) ==
    /\ ~broken /\ call[c].at \in {"engine", "solving"} /\ Sid(c) \in deleted
    /\ Break

NewHand(c) ==
    /\ Using(c, "newhand", "engine")
    /\ engine' = [engine EXCEPT ![Sid(c)] = Refreshed(@)]
    /\ client' = [client EXCEPT ![c].inHand = TRUE]
    /\ Reply(c)
    /\ UNCHANGED <<sessions, deleted, idle, mutex, broken>>

(* END_HAND tells the engine nothing.                                       *)
EndHand(c) ==
    /\ At(c, "endhand", "find") /\ Sid(c) \in sessions
    /\ client' = [client EXCEPT ![c].inHand = FALSE]
    /\ Reply(c)
    /\ UNCHANGED serverVars

EditSession(c) ==
    /\ At(c, "edit", "find") /\ Sid(c) \in sessions
    /\ idle' = idle \ {Sid(c)}
    /\ Reply(c)
    /\ UNCHANGED <<client, sessions, engine, deleted, mutex, broken>>

EvalShowdown(c) ==
    /\ Using(c, "eval", "engine")
    /\ Reply(c)
    /\ UNCHANGED <<client, serverVars>>

(* GET_ACTION.  Refused: an unreadable state, a busy engine, too short a    *)
(* time, cards that occur twice.                                            *)
RefuseAction(c) ==
    /\ Using(c, "getaction", "engine")
    /\ Reply(c)
    /\ UNCHANGED <<client, serverVars>>

(* The SDK passes on any state, with no look at in_hand_: a later or an     *)
(* earlier one of the hand, or one of another hand.                         *)
StartAction(c) ==
    /\ Using(c, "getaction", "engine")
    /\ ~engine[Sid(c)].busy
    /\ \E ms \in MatchState :
         /\ engine' = [engine EXCEPT ![Sid(c)] = Prepared(@, ms)]
         /\ call' = [call EXCEPT ![c].at = "solving", ![c].ms = ms]
    /\ UNCHANGED <<client, sessions, deleted, idle, mutex, broken>>

FinishAction(c) ==
    /\ Using(c, "getaction", "solving")
    /\ LET e == engine[Sid(c)] IN
       \E f \in WithAction(e, call[c].ms) \cup WithException(e, call[c].ms) :
           engine' = [engine EXCEPT ![Sid(c)] = f]
    /\ Reply(c)
    /\ UNCHANGED <<client, sessions, deleted, idle, mutex, broken>>

(***************************************************************************)
(* Next-state relation                                                     *)
(***************************************************************************)
Serve(c) ==
    \/ NotFound(c) \/ UseDeleted(c)
    \/ SweepDelete(c) \/ SweepErase(c) \/ CheckCapacity(c) \/ Stamp(c)
    \/ FindToDelete(c) \/ DeleteErase(c)
    \/ FindEngine(c) \/ NewHand(c) \/ EndHand(c) \/ EditSession(c) \/ EvalShowdown(c)
    \/ RefuseAction(c) \/ StartAction(c) \/ FinishAction(c)
Lock(c) == Insert(c) \/ InsertFails(c) \/ DeleteEngine(c)

ClientStep(c) ==
    \/ CallCreate(c) \/ CallDelete(c) \/ CallNewHand(c) \/ CallEndHand(c)
    \/ CallGetAction(c) \/ CallEdit(c) \/ CallEval(c) \/ Restart(c) \/ SendHeartbeat(c)

(* No client asks for anything more and those that have asked wait for the *)
(* mutex, or the program is undefined.                                     *)
Waits(c) == call[c].at = "lock" /\ mutex # None
Rest == (broken \/ \A c \in Clients : call[c] = NoCall \/ Waits(c)) /\ UNCHANGED vars

Next ==
    \/ \E c \in Clients : Serve(c) \/ Lock(c) \/ ClientStep(c)
    \/ \E s \in SessionIds : TenSecondsPass(s)
    \/ Rest

Spec == Init /\ [][Next]_vars

(* The handlers' threads run, searches end, and a mutex that is free is     *)
(* given to one who waits.                                                  *)
Fairness == \A c \in Clients : WF_vars(Serve(c) \/ Lock(c))
FairSpec == Spec /\ Fairness

(***************************************************************************)
(* Properties                                                              *)
(***************************************************************************)
Call_ == [op : {"none", "create", "delete", "newhand", "endhand", "getaction", "edit", "eval"},
          at : {"none", "find", "erase", "lock", "stamp", "engine", "solving"},
          s : SessionIds \cup {None}, todo : SUBSET SessionIds,
          ms : MatchState \cup {NoState}]
TypeOK ==
    /\ client \in [Clients -> [id : SessionIds \cup {None}, inHand : BOOLEAN]]
    /\ call \in [Clients -> Call_]
    /\ sessions \subseteq SessionIds /\ deleted \subseteq SessionIds
    /\ idle \subseteq SessionIds
    /\ engine \in [SessionIds -> EngineType]
    /\ mutex \in Clients \cup {None, Gone}
    /\ broken \in BOOLEAN

(* An action is looked for in playbooks of the hand that is asked about,    *)
(* whether or not the client announced the hand, and however the searches   *)
(* before it ended (EngineStateStaleCheck).                                 *)
PlaybooksAreOfThisHand ==
    \A c \in Clients : At(c, "getaction", "solving") =>
        \A b \in engine[Sid(c)].books : b.hand = call[c].ms.hand

(* max_capacity_ is tested before the mutex is taken: handlers that passed  *)
(* the test together all create their session.  Beyond that it holds.       *)
CapacityNearlyHolds == Cardinality(sessions) < MaxCapacity + Cardinality(Clients)

(* Every request is answered: sweeps end, and the mutex comes back whatever *)
(* its holder's engine, session or client came to.  The exception is the    *)
(* creation or deletion that waits for a mutex lost by InsertFails; the     *)
(* requests that need no mutex are answered even then.                      *)
RequestsAreAnswered ==
    \A c \in Clients : []<>(call[c] = NoCall \/ broken \/ (Waits(c) /\ mutex = Gone))

(* "DELETE IDLE SESSIONS" (bulldog_controller.cpp:216): a session that is   *)
(* serving a request is not idle, and its engine is not deleted.            *)
ServingSessionsAreKept ==
    \A c \in Clients : call[c].at = "solving" => Sid(c) \notin deleted
=============================================================================
