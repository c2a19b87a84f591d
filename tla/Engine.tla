------------------------------- MODULE Engine -------------------------------
(***************************************************************************)
(* The part of engine.cpp's Engine that lasts from one request to the next:*)
(* busy_flag_, last_matchstate_ and the playbook stack.  Its members are   *)
(* operators on a record; what a search finds is left open.  The stack is  *)
(* the set of its playbooks, by hand and by origin: how many strategies    *)
(* have been solved in a hand is left out.                                 *)
(*                                                                         *)
(* A match state is its hand and its position in the hand: a later state of*)
(* a hand has all actions of an earlier one.                               *)
(***************************************************************************)
EXTENDS Naturals

CONSTANTS
    MatchState,         \* the states a client asks about, with their hand and position
    NoState             \* last_matchstate_ of a new engine

PlayBook   == [hand : {ms.hand : ms \in MatchState}, sgs : BOOLEAN]
EngineType == [busy : BOOLEAN, last : MatchState \cup {NoState}, books : SUBSET PlayBook]

EngineAssumption == MatchState \subseteq [hand : Nat, pos : Nat]
ASSUME EngineAssumption

NewEngine == [busy |-> FALSE, last |-> NoState, books |-> {}]

(* RefreshEngineState: forget the hand, delete the strategies solved in it. *)
Refreshed(e) == [e EXCEPT !.busy = FALSE, !.books = {}]

InSameMatch(old, new) == old.hand = new.hand /\ old.pos <= new.pos

NeverStale(e, ms) == FALSE              \* mutant: EngineStateStaleCheck left out
Stale(e, ms) == e.books # {} /\ ~InSameMatch(e.last, ms)

Book(ms, sgs) == [hand |-> ms.hand, sgs |-> sgs]

(* GetAction up to the subgame: a state that does not continue the hand     *)
(* resets the engine; the blueprint is the first playbook.                  *)
Prepared(e, ms) ==
    LET f == IF Stale(e, ms) THEN Refreshed(e) ELSE e IN
    [busy  |-> TRUE,
     last  |-> ms,
     books |-> IF f.books = {} THEN {Book(ms, FALSE)} ELSE f.books]

(* The engines GetAction may leave.  A subgame may be solved for the state  *)
(* and its strategy found good enough to play; an action is then picked, or *)
(* at() throws: no node matches, no playbook gives the range or an action.  *)
(* (The loops over the playbooks count an unsigned number down to >= 0, so  *)
(* that they end in at(), never behind the loop.)                           *)
AfterSubgame(e, ms) == {e, [e EXCEPT !.books = @ \cup {Book(ms, TRUE)}]}
WithAction(e, ms)   == {[f EXCEPT !.busy = FALSE] : f \in AfterSubgame(e, ms)}
WithException(e, ms) == AfterSubgame(e, ms)
=============================================================================
