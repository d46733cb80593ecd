----------------------------- MODULE TestDbFixture -----------------------------
(***************************************************************************)
(* TestDb with a history variable: whether somebody else wrote between a   *)
(* binary's Truncate and the test it was for.                              *)
(***************************************************************************)
EXTENDS TestDb, FiniteSets

VARIABLE disturbed           \* disturbed[b]: somebody else wrote in b's schema since its Truncate

Wrote(b) == rows'[SchemaName(b)] # rows[SchemaName(b)]

(* A write while b seeds or tests that is not a step of b's test.          *)
Disturbs(b) == Wrote(b) /\ pc'[b] = pc[b] /\ seeded'[b] = seeded[b]

FixtureInit == Init /\ disturbed = [b \in Binary |-> FALSE]

FixtureNext ==
  /\ Next
  /\ disturbed' = [b \in Binary |-> /\ pc[b] \in {"seed", "run"}
                                    /\ disturbed[b] \/ Disturbs(b)]
FixtureSpec == FixtureInit /\ [][FixtureNext]_<<vars, disturbed>>

(* How many of the first k inserts of a fixture go into t.                 *)
Times(k, t) == Cardinality({j \in 1..k : Fixture[j] = t})

(* The row of the i-th insert of a fixture into emptied tables.            *)
FixtureRow(b, i) ==
  [table |-> Fixture[i], id |-> 1 + Times(i - 1, Fixture[i]), by |-> b]

(* A fixture seeded after Truncate is all that is in the listed tables and *)
(* has the first keys, in every test of every run, unless a goroutine of   *)
(* an earlier test or a second binary of that schema wrote in between: "a  *)
(* re-seeded fixture always lands on the same primary keys".               *)
FixtureOnFirstKeys ==
  \A b \in Binary : pc[b] = "run" /\ ~disturbed[b] =>
     {r \in rows[SchemaName(b)] : r.table \in listed[b]}
       = {FixtureRow(b, i) : i \in {j \in DOMAIN Fixture : Fixture[j] \in listed[b]}}
=============================================================================
