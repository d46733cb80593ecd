---------------------------- MODULE SchemaHistory ----------------------------
(***************************************************************************)
(* What the migrate package promises of a database, whoever calls it and   *)
(* however often (migrate/migrate.go, Run): migration bodies are executed  *)
(* one after the other in ascending version order, so none is executed     *)
(* twice, and a caller is told that its versions are in place only when    *)
(* they are on record.                                                     *)
(***************************************************************************)
EXTENDS Integers, Sequences

CONSTANT Version             \* the migration versions of the application

VARIABLES history,           \* the versions whose body was executed, in order
          recorded,          \* the versions the ledger holds
          confirmed          \* the versions successful runs were told about

hvars == <<history, recorded, confirmed>>

Init == /\ history = <<>>
        /\ recorded = {}
        /\ confirmed = {}

(* Execute one migration, later than all the executed ones, and record it. *)
Advance == \E v \in Version :
             /\ \A i \in DOMAIN history : history[i] < v
             /\ history' = Append(history, v)
             /\ recorded' = recorded \cup {v}
             /\ UNCHANGED confirmed

(* Record a version without executing it. *)
Stamp == \E v \in Version : /\ recorded' = recorded \cup {v}
                            /\ UNCHANGED <<history, confirmed>>

(* Runs report success, or the report of an earlier run is superseded. *)
Report == /\ confirmed' \in SUBSET recorded
          /\ UNCHANGED <<history, recorded>>

Next == Advance \/ Stamp \/ Report

Spec == Init /\ [][Next]_hvars
=============================================================================
