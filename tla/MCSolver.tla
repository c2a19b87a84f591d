------------------------------ MODULE MCSolver ------------------------------
(***************************************************************************)
(* Configurations like those of config/engine, with numbers made small: a  *)
(* subgame solver without a schedule; one that discounts, switches the     *)
(* average on and profiles; one whose average is switched on too late, and *)
(* one that profiles although it never is; a solver of the whole game on a *)
(* big pool that saves and prunes; one limited in depth.  Pools above four *)
(* threads have clusters of two.                                           *)
(***************************************************************************)
EXTENDS Solver

Plain == [threads |-> 2, maxIter |-> 3, sizes |-> << >>, depthLimited |-> FALSE,
          discFirst |-> 0, discInterval |-> Absent, discCount |-> 0, avgOn |-> Absent,
          profInterval |-> Absent, profSteps |-> 0, profAverage |-> TRUE,
          saveInterval |-> Absent, saveFinal |-> FALSE, printRoot |-> FALSE, pruneAt |-> Absent]

Scheduled == [Plain EXCEPT !.threads = 3, !.maxIter = 11, !.discFirst = 2, !.discInterval = 2,
                           !.discCount = 9, !.avgOn = 4, !.profInterval = 3, !.profSteps = 4]

TooLate == [Plain EXCEPT !.avgOn = 5]

Never == [Plain EXCEPT !.avgOn = -1, !.profInterval = 2, !.profSteps = 1]

BigTree == [Plain EXCEPT !.threads = 6, !.maxIter = 8, !.sizes = <<4, 3, 2, 1>>, !.avgOn = 0,
                         !.profInterval = 4, !.profSteps = 1, !.profAverage = FALSE,
                         !.saveInterval = 4, !.saveFinal = TRUE, !.printRoot = TRUE, !.pruneAt = 1]

Limited == [Plain EXCEPT !.depthLimited = TRUE, !.avgOn = 0, !.profInterval = 3, !.profSteps = 3,
                         !.saveFinal = TRUE]

Dealing == {[Plain EXCEPT !.threads = n, !.maxIter = 1, !.sizes = sizes] :
              n \in {1, 2, 3, 4, 5, 6},
              sizes \in {s \in [1 .. 4 -> 0 .. 4] : s[1] >= s[2] /\ s[2] >= s[3] /\ s[3] >= s[4]}}

AllConfigs == {Plain, Scheduled, TooLate, Never, BigTree, Limited} \cup Dealing
SomeSpans  == {-1, 0, 2}
=============================================================================
