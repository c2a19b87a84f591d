------------------------------ MODULE Pipeline ------------------------------
(***************************************************************************)
(* The schedule of a CFR solver (cfr.cpp, BuildCMDPipeline): from a        *)
(* configuration, the commands in the order in which Solve executes them.  *)
(*                                                                         *)
(* A configuration is a record; a field that the file leaves out is Absent.*)
(* A command has the iteration that triggers it and, if it runs iterations,*)
(* their number.                                                           *)
(***************************************************************************)
EXTENDS Integers, FiniteSets, SequencesExt

CONSTANT Absent

AbsentAssumption == Absent \notin Int
ASSUME AbsentAssumption

(* CFR_COMMAND, by rank; the three ways of solving are one here.            *)
Types == <<"solve", "discount", "save", "profile", "avgOn", "pruneOn", "printRoot">>
Rank(type) == CHOOSE i \in DOMAIN Types : Types[i] = type

Command(iter, type, steps) == [iter |-> iter, type |-> type, steps |-> steps]

(* operator<: by trigger, then by type.                                     *)
Before(a, b) == a.iter < b.iter \/ (a.iter = b.iter /\ Rank(a.type) < Rank(b.type))

Every(first, interval, last) == {i \in first .. last : (i - first) % interval = 0}

Discounts(c) ==
    IF c.discInterval = Absent THEN {}
    ELSE {Command(i, "discount", 0) :
            i \in {j \in {c.discFirst + k * c.discInterval : k \in 0 .. c.discCount - 1} :
                    j < c.maxIter}}

(* -1 in the file: never.                                                   *)
AverageOn(c) == IF c.avgOn \in {Absent, -1} THEN {} ELSE {Command(c.avgOn, "avgOn", 0)}

(* A profiler that plays the average starts when there is one; without one, *)
(* a turn before the first iteration.                                       *)
Profiles(c) ==
    IF c.profInterval = Absent THEN {}
    ELSE LET offset == IF c.profAverage /\ c.avgOn # Absent THEN c.avgOn ELSE 0 IN
         {Command(i, "profile", c.profSteps) :
            i \in Every(offset + c.profInterval, c.profInterval, c.maxIter)}

Saves(c) ==
    (IF c.saveInterval = Absent THEN {}
     ELSE {Command(i, "save", 0) : i \in Every(c.saveInterval, c.saveInterval, c.maxIter - 1)})
    \cup (IF c.saveFinal THEN {Command(c.maxIter, "save", 0)} ELSE {})
    \cup (IF c.printRoot THEN {Command(c.maxIter, "printRoot", 0)} ELSE {})

Pruning(c) ==
    IF c.pruneAt # Absent /\ c.pruneAt < c.maxIter THEN {Command(c.pruneAt, "pruneOn", 0)} ELSE {}

Sorted(S) == [i \in 1 .. Cardinality(S) |->
                CHOOSE a \in S : Cardinality({b \in S : Before(b, a)}) = i - 1]

Initial(c) == Sorted(Discounts(c) \cup AverageOn(c) \cup Profiles(c) \cup Saves(c) \cup Pruning(c))

(* Solving goes between two commands that are triggered apart.              *)
WithSolves(s) ==
    FlattenSeq([i \in DOMAIN s |->
        LET from == IF i = 1 THEN 0 ELSE s[i - 1].iter IN
        (IF s[i].iter > from THEN <<Command(from, "solve", s[i].iter - from)>> ELSE <<>>)
        \o <<s[i]>>])

EndOfAny(cmd) == cmd.iter + cmd.steps           \* mutant: profiling counted
EndOf(cmd)    == cmd.iter + (IF cmd.type = "profile" THEN 0 ELSE cmd.steps)

BuildCMDPipeline(c) ==
    LET s == WithSolves(Initial(c))
        t == IF s = <<>> THEN <<Command(0, "solve", c.maxIter)>> ELSE s
        e == EndOf(Last(t))
    IN IF e = c.maxIter THEN t ELSE Append(t, Command(e, "solve", c.maxIter - e))
=============================================================================
