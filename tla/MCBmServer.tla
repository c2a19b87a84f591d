----------------------------- MODULE MCBmServer -----------------------------
(***************************************************************************)
(* Two clients.  The first asks for two runs of a match it plays in itself,*)
(* the second for a match of the same game, which allows one job at a time,*)
(* and for one between two bots.  Two bots may run at a time in all.       *)
(***************************************************************************)
EXTENDS BmServer

CONSTANTS alice, bob, limit, ring, r1, r2, r3, s1, s2, m1, m2, m3

TwoClients    == {alice, bob}
TwoGames      == {limit, ring}
UserNames     == [c \in TwoClients |-> c]
Scripts       == alice :> <<"logon", NL, r1, NL>>
                 @@ bob :> <<"logon", NL, "query", NL, r2, NL, r3, NL>>
Specs         == r1 :> [game |-> limit, runs |-> 2, seats |-> <<TRUE, FALSE>>]
                 @@ r2 :> [game |-> limit, runs |-> 1, seats |-> <<TRUE, FALSE>>]
                 @@ r3 :> [game |-> ring, runs |-> 1, seats |-> <<FALSE, FALSE>>]
Players2      == [g \in TwoGames |-> 2]
TwoRuns       == [g \in TwoGames |-> 2]
OneJobOrAny   == limit :> 1 @@ ring :> 0
=============================================================================
