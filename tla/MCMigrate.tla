------------------------------ MODULE MCMigrate ------------------------------
(***************************************************************************)
(* Small instances of Migrate: which instances exist, which migration      *)
(* files their builds embed and which commands they are started with.      *)
(***************************************************************************)
EXTENDS MigrateOverlap

CONSTANTS p1, p2             \* two instances

TwoInstances == {p1, p2}

(* The same build everywhere. *)
SameBuild == [p \in Proc |-> Version]

(* A rolling deploy: p2's build adds version 2, which p1's does not have,  *)
(* below version 3, which both have: a file merged late.                   *)
LateMerge == [p \in Proc |-> IF p = p1 THEN {1, 3} ELSE {1, 2, 3}]

Line(k, t) == [kind |-> k, target |-> t]

(* Every subcommand, an unknown one, and baseline to no positive version,  *)
(* to one only one build has, to the last one, and to one no build has.    *)
AllCommands == {Line(k, 0) : k \in Kind}
                 \cup {Line("baseline", t) : t \in {2, 3, MaxVersion + 1}}

RaceCommands == {Line("up", 0), Line("baseline", 2)}
=============================================================================
