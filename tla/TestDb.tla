-------------------------------- MODULE TestDb --------------------------------
(***************************************************************************)
(* The testdb package (testdb/testdb.go): test binaries that share one     *)
(* Postgres database, each in a schema of its own.  Open creates and       *)
(* migrates the schema, Truncate empties it between two tests; schemas     *)
(* outlive the binaries, and a binary runs again, or is killed, at any     *)
(* time.                                                                   *)
(*                                                                         *)
(* The package under test is modelled from how the package comment and     *)
(* Truncate's describe it: it migrates with goose under an advisory lock,  *)
(* its tests run one after the other, and its services start goroutines    *)
(* that write on the same pool after the test that started them.           *)
(***************************************************************************)
EXTENDS Integers, Sequences

CONSTANTS Binary,            \* the test binaries
          Prefix,            \* Prefix[b]: Config.Prefix, by character
          Base,              \* Base[b]: the base of b's name without .test, by character
          Lower,             \* Lower[c]: the lower case of c, for letters and digits
          LockId,            \* LockId[b]: the advisory lock b's migrations take
          Conn,              \* the connections of a pool
          Table,             \* the application's tables
          LedgerTable,       \* goose_db_version
          References,        \* pairs: the first table has a foreign key to the second
          Version,           \* the application's migrations
          Creates,           \* Creates[v]: the tables migration v creates
          Knows,             \* Knows[b]: the migrations of the build b was made from
          Keep,              \* Config.Keep
          Fixture,           \* the tables a fixture seeds, in order, one row each
          Written,           \* the tables a test writes a row to
          Public,            \* the schema of a connection that is not scoped
          Free,              \* a lock nobody holds
          MaxStarts,         \* bound: starts of all binaries together
          MaxTests,          \* bound: tests of one start
          MaxFaults          \* bound: errors and kills

(* SchemaName: lower-case letters, digits and underscores as they are,     *)
(* upper-case ones lowered, everything else an underscore.                 *)
Safe(c) == IF c \in DOMAIN Lower THEN Lower[c] ELSE "_"

Anonymous == <<"a", "n", "o", "n", "y", "m", "o", "u", "s">>

SchemaName(b) ==
  Prefix[b] \o <<"_">> \o IF Base[b] = <<>> THEN Anonymous
                          ELSE [i \in DOMAIN Base[b] |-> Safe(Base[b][i])]

(* Postgres lowers the letters of a name that is not quoted, which the     *)
(* prefix may have and the base has not.                                   *)
Folded(name) == [i \in DOMAIN name |-> IF name[i] \in DOMAIN Lower THEN Lower[name[i]] ELSE name[i]]

Created == {SchemaName(b) : b \in Binary} \cup {Public}

Schema == Created \cup {Folded(SchemaName(b)) : b \in Binary}

(* No application's prefix is another one's in capitals. *)
ASSUME NameAssumption    == /\ \A b \in Binary : Public \notin {SchemaName(b), Folded(SchemaName(b))}
                            /\ \A a, b \in Binary : Folded(SchemaName(a)) = SchemaName(b) =>
                                                    SchemaName(a) = SchemaName(b)
ASSUME LockAssumption    == /\ Free \notin Binary
                            /\ \A a, b \in Binary : SchemaName(a) = SchemaName(b) => LockId[a] = LockId[b]
ASSUME LedgerAssumption  == LedgerTable \notin Table
ASSUME CreatesAssumption == /\ Version \subseteq Nat
                            /\ Creates \in [Version -> SUBSET Table]
                            /\ \A v, w \in Version : v # w => Creates[v] \cap Creates[w] = {}

(* Builds are older or newer states of one history of migrations, so that  *)
(* none is missing below a recorded one; Migrate has the other builds.     *)
ASSUME KnowsAssumption   == /\ Knows \in [Binary -> SUBSET Version]
                            /\ \A b \in Binary, u, v \in Version : v \in Knows[b] /\ u < v => u \in Knows[b]
ASSUME DataAssumption    == /\ Keep \subseteq Table
                            /\ Fixture \in Seq(Table)
                            /\ Written \subseteq Table
                            /\ References \subseteq Table \X Table
ASSUME BoundAssumption   == MaxStarts \in Nat /\ MaxTests \in Nat /\ MaxFaults \in Nat

Locks == {LockId[b] : b \in Binary}
Row == [table : Table, id : Nat, by : Binary]

VARIABLES
  schemas,     \* the schemas that exist
  tables,      \* tables[s]: the tables of schema s, the ledger among them
  recorded,    \* recorded[s]: the migrations in the ledger of s
  rows,        \* rows[s]: the rows of the tables of s
  nextId,      \* nextId[s][t]: the next key of t's identity sequence
  lock,        \* lock[l]: the binary whose session holds the advisory lock l
  pc,          \* pc[b]: where b is, "idle" when it is not running
  path,        \* path[b][c]: the search path of a connection of b's pool
  todo,        \* todo[b]: the migrations goose has planned
  listed,      \* listed[b]: the tables Truncate has listed
  seeded,      \* seeded[b]: how much of the fixture is in
  goroutine,   \* goroutine[b]: a goroutine of a finished test has yet to write
  tests,       \* tests[b]: tests begun since the start
  result,      \* result[b]: how b's last Open or run ended
  starts,      \* starts so far
  faults       \* errors and kills so far

data == <<tables, recorded, rows, nextId>>
memory == <<path, todo, listed, seeded, goroutine, tests>>
bounds == <<starts, faults>>
vars == <<schemas, data, lock, pc, memory, result, bounds>>

PC == {"idle", "create", "insert", "connect", "migrate", "apply", "test", "truncate",
       "seed", "run"}
Result == {"none", "ok", "refused", "error", "exists"}

Unscoped == [c \in Conn |-> Public]

Init == /\ schemas = {Public}
        /\ tables = [s \in Schema |-> {}]
        /\ recorded = [s \in Schema |-> {}]
        /\ rows = [s \in Schema |-> {}]
        /\ nextId = [s \in Schema |-> [t \in Table |-> 1]]
        /\ lock = [l \in Locks |-> Free]
        /\ pc = [b \in Binary |-> "idle"]
        /\ path = [b \in Binary |-> Unscoped]
        /\ todo = [b \in Binary |-> {}]
        /\ listed = [b \in Binary |-> {}]
        /\ seeded = [b \in Binary |-> 0]
        /\ goroutine = [b \in Binary |-> FALSE]
        /\ tests = [b \in Binary |-> 0]
        /\ result = [b \in Binary |-> "none"]
        /\ starts = 0
        /\ faults = 0

Goto(b, label) == pc' = [pc EXCEPT ![b] = label]

(* The process ends: its connections close, and with them its session's    *)
(* lock; its memory and its goroutines are gone, what is committed stays.  *)
End(b, r) == /\ Goto(b, "idle")
             /\ result' = [result EXCEPT ![b] = r]
             /\ lock' = [l \in Locks |-> IF lock[l] = b THEN Free ELSE lock[l]]
             /\ path' = [path EXCEPT ![b] = Unscoped]
             /\ todo' = [todo EXCEPT ![b] = {}]
             /\ listed' = [listed EXCEPT ![b] = {}]
             /\ seeded' = [seeded EXCEPT ![b] = 0]
             /\ goroutine' = [goroutine EXCEPT ![b] = FALSE]
             /\ tests' = [tests EXCEPT ![b] = 0]

-----------------------------------------------------------------------------
(* Open. *)

(* A configuration without a prefix or a Migrate is refused.               *)
Start(b, complete) ==
  /\ pc[b] = "idle"
  /\ starts < MaxStarts
  /\ starts' = starts + 1
  /\ result' = [result EXCEPT ![b] = IF complete THEN "none" ELSE "refused"]
  /\ Goto(b, IF complete THEN "create" ELSE "idle")
  /\ UNCHANGED <<schemas, data, lock, memory, faults>>

(* CREATE SCHEMA IF NOT EXISTS looks first ...                             *)
LookForSchema(b) ==
  /\ pc[b] = "create"
  /\ Goto(b, IF SchemaName(b) \in schemas THEN "connect" ELSE "insert")
  /\ UNCHANGED <<schemas, data, lock, memory, result, bounds>>

(* ... and then inserts, which fails on a schema created meanwhile.        *)
CreateSchema(b) ==
  /\ pc[b] = "insert"
  /\ IF SchemaName(b) \in schemas
       THEN End(b, "error") /\ UNCHANGED schemas
       ELSE /\ schemas' = schemas \cup {SchemaName(b)}
            /\ Goto(b, "connect")
            /\ UNCHANGED <<lock, memory, result>>
  /\ UNCHANGED <<data, bounds>>

(* (Wrong variant: a SET after connecting, which binds one connection.) *)
SetOnOne(b) == {[c \in Conn |-> IF c = d THEN SchemaName(b) ELSE Public] : d \in Conn}

(* (Wrong variant: the connection is scoped to the prefix.) *)
ScopedToPrefix(b) == {[c \in Conn |-> Prefix[b]]}

(* The search path travels in the connection string, to every connection,  *)
(* and without the quotes of CREATE SCHEMA.                                *)
SearchPaths(b) == {[c \in Conn |-> Folded(SchemaName(b))]}

Connect(b) ==
  /\ pc[b] = "connect"
  /\ \E scoped \in SearchPaths(b) : path' = [path EXCEPT ![b] = scoped]
  /\ Goto(b, "migrate")
  /\ UNCHANGED <<schemas, data, lock, todo, listed, seeded, goroutine, tests, result, bounds>>

(* Config.Migrate over migrate.Run: goose takes the lock and plans what is *)
(* above the recorded versions ...                                         *)
Pending(b, s) == {v \in Knows[b] : \A u \in recorded[s] : u < v}

LockFree(b) == lock[LockId[b]] = Free

Plan(b) ==
  /\ pc[b] = "migrate"
  /\ LockFree(b)
  /\ lock' = [lock EXCEPT ![LockId[b]] = b]
  /\ \E c \in Conn : /\ path[b][c] \in schemas
                    /\ todo' = [todo EXCEPT ![b] = Pending(b, path[b][c])]
  /\ Goto(b, "apply")
  /\ UNCHANGED <<schemas, data, path, listed, seeded, goroutine, tests, result, bounds>>

(* ... or finds no schema to make its ledger in ...                        *)
NoSchema(b) ==
  /\ pc[b] = "migrate"
  /\ \E c \in Conn : path[b][c] \notin schemas
  /\ End(b, "error")
  /\ UNCHANGED <<schemas, data, bounds>>

(* ... or gives up on a lock that stays taken.                             *)
LockTimeout(b) ==
  /\ pc[b] = "migrate"
  /\ ~LockFree(b)
  /\ End(b, "error")
  /\ UNCHANGED <<schemas, data, bounds>>

(* One migration and its ledger row, in one transaction.  CREATE TABLE     *)
(* fails on a relation that exists.                                        *)
Apply(b) ==
  /\ pc[b] = "apply"
  /\ \E v \in todo[b], c \in Conn :
       LET s == path[b][c] IN
       /\ \A u \in todo[b] : v <= u
       /\ IF Creates[v] \cap tables[s] # {}
            THEN End(b, "exists") /\ UNCHANGED <<tables, recorded>>
            ELSE /\ tables' = [tables EXCEPT ![s] = @ \cup Creates[v] \cup {LedgerTable}]
                 /\ recorded' = [recorded EXCEPT ![s] = @ \cup {v}]
                 /\ todo' = [todo EXCEPT ![b] = @ \ {v}]
                 /\ UNCHANGED <<lock, pc, path, listed, seeded, goroutine, tests, result>>
  /\ UNCHANGED <<schemas, rows, nextId, bounds>>

Migrated(b) ==
  /\ pc[b] = "apply"
  /\ todo[b] = {}
  /\ lock' = [lock EXCEPT ![LockId[b]] = Free]
  /\ Goto(b, "test")
  /\ UNCHANGED <<schemas, data, memory, result, bounds>>

-----------------------------------------------------------------------------
(* Truncate: the tables of the current schema, without the ledger and the  *)
(* kept ones, are listed by one statement and emptied by the next, on any  *)
(* connection of the pool.                                                 *)

(* (Wrong variant: the ledger is a table like the others.) *)
SkipKept == Keep

(* (Wrong variant: Config.Keep is not looked at.) *)
SkipLedger == {LedgerTable}

Skip == {LedgerTable} \cup Keep

List(b) ==
  /\ pc[b] = "test"
  /\ tests[b] < MaxTests
  /\ \E c \in Conn :
       /\ listed' = [listed EXCEPT ![b] = tables[path[b][c]] \ Skip]
       /\ Goto(b, IF tables[path[b][c]] \ Skip = {} THEN "seed" ELSE "truncate")
  /\ seeded' = [seeded EXCEPT ![b] = 0]
  /\ tests' = [tests EXCEPT ![b] = @ + 1]
  /\ UNCHANGED <<schemas, data, lock, path, todo, goroutine, result, bounds>>

(* CASCADE: also every table with a foreign key to an emptied one.         *)
Cascade(S) ==
  {t \in Table : \A U \in SUBSET Table :
     S \cap Table \subseteq U /\ (\A r \in References : r[2] \in U => r[1] \in U) => t \in U}

(* (Wrong variant: without RESTART IDENTITY.) *)
ContinueIdentity(ids, emptied) == ids

RestartIdentity(ids, emptied) == [t \in Table |-> IF t \in emptied THEN 1 ELSE ids[t]]

Empty(b) ==
  /\ pc[b] = "truncate"
  /\ \E c \in Conn :
       LET s == path[b][c]
           emptied == Cascade(listed[b])
       IN /\ rows' = [rows EXCEPT ![s] = {r \in @ : r.table \notin emptied}]
          /\ nextId' = [nextId EXCEPT ![s] = RestartIdentity(@, emptied)]
          /\ recorded' = [recorded EXCEPT ![s] = IF LedgerTable \in listed[b] THEN {} ELSE @]
  /\ Goto(b, "seed")
  /\ UNCHANGED <<schemas, tables, lock, memory, result, bounds>>

(* Either statement may fail: the error is returned, the test that asked   *)
(* for it is over, and the next one is run.  A list that fails leaves all  *)
(* as it was.                                                              *)
TruncateFails(b) ==
  /\ pc[b] = "truncate"
  /\ faults < MaxFaults
  /\ faults' = faults + 1
  /\ Goto(b, "test")
  /\ UNCHANGED <<schemas, data, lock, memory, result, starts>>

-----------------------------------------------------------------------------
(* The package under test. *)

(* A row in t, where its foreign keys find something to refer to.          *)
CanInsert(s, t) ==
  t \in tables[s] /\ \A r \in References : r[1] = t => \E x \in rows[s] : x.table = r[2]

Insert(b, s, t) ==
  /\ rows' = [rows EXCEPT ![s] = @ \cup {[table |-> t, id |-> nextId[s][t], by |-> b]}]
  /\ nextId' = [nextId EXCEPT ![s][t] = @ + 1]

Seed(b) ==
  /\ pc[b] = "seed"
  /\ seeded[b] < Len(Fixture)
  /\ \E c \in Conn :
       LET s == path[b][c]
           t == Fixture[seeded[b] + 1]
       IN IF CanInsert(s, t)
            THEN /\ Insert(b, s, t)
                 /\ seeded' = [seeded EXCEPT ![b] = @ + 1]
                 /\ UNCHANGED <<lock, pc, path, todo, listed, goroutine, tests, result>>
            ELSE End(b, "error") /\ UNCHANGED <<rows, nextId>>
  /\ UNCHANGED <<schemas, tables, recorded, bounds>>

Seeded(b) ==
  /\ pc[b] = "seed"
  /\ seeded[b] = Len(Fixture)
  /\ Goto(b, "run")
  /\ UNCHANGED <<schemas, data, lock, memory, result, bounds>>

(* The test writes a row and may leave a goroutine behind.                 *)
Run(b) ==
  /\ pc[b] = "run"
  /\ \E c \in Conn, t \in Written :
       IF CanInsert(path[b][c], t) THEN Insert(b, path[b][c], t) ELSE UNCHANGED <<rows, nextId>>
  /\ \E left \in BOOLEAN : goroutine' = [goroutine EXCEPT ![b] = @ \/ left]
  /\ Goto(b, "test")
  /\ UNCHANGED <<schemas, tables, recorded, lock, path, todo, listed, seeded, tests, result, bounds>>

(* The goroutine writes at any time, whatever the tests do meanwhile.      *)
Background(b) ==
  /\ goroutine[b]
  /\ \E c \in Conn, t \in Written :
       IF CanInsert(path[b][c], t) THEN Insert(b, path[b][c], t) ELSE UNCHANGED <<rows, nextId>>
  /\ goroutine' = [goroutine EXCEPT ![b] = FALSE]
  /\ UNCHANGED <<schemas, tables, recorded, lock, pc, path, todo, listed, seeded, tests, result, bounds>>

(* os.Exit(m.Run()): goroutines are not waited for.                        *)
Exit(b) ==
  /\ pc[b] = "test"
  /\ End(b, "ok")
  /\ UNCHANGED <<schemas, data, bounds>>

(* A statement of Open fails, or the binary is killed, anywhere.           *)
Fail(b) ==
  /\ pc[b] # "idle"
  /\ faults < MaxFaults
  /\ faults' = faults + 1
  /\ End(b, "error")
  /\ UNCHANGED <<schemas, data, starts>>

Step(b) == \/ LookForSchema(b) \/ CreateSchema(b) \/ Connect(b)
           \/ Plan(b) \/ NoSchema(b) \/ LockTimeout(b) \/ Apply(b) \/ Migrated(b)
           \/ List(b) \/ Empty(b) \/ TruncateFails(b)
           \/ Seed(b) \/ Seeded(b) \/ Run(b) \/ Background(b) \/ Exit(b)

Next == \E b \in Binary : \/ \E complete \in BOOLEAN : Start(b, complete)
                          \/ Step(b)
                          \/ Fail(b)

Spec == Init /\ [][Next]_vars

-----------------------------------------------------------------------------
(* The type invariant. *)
TypeOK ==
  /\ schemas \subseteq Created
  /\ tables \in [Schema -> SUBSET (Table \cup {LedgerTable})]
  /\ recorded \in [Schema -> SUBSET Version]
  /\ rows \in [Schema -> SUBSET Row]
  /\ nextId \in [Schema -> [Table -> Nat]]
  /\ lock \in [Locks -> Binary \cup {Free}]
  /\ pc \in [Binary -> PC]
  /\ path \in [Binary -> [Conn -> Schema]]
  /\ todo \in [Binary -> SUBSET Version]
  /\ listed \in [Binary -> SUBSET (Table \cup {LedgerTable})]
  /\ seeded \in [Binary -> 0..Len(Fixture)]
  /\ goroutine \in [Binary -> BOOLEAN]
  /\ tests \in [Binary -> 0..MaxTests]
  /\ result \in [Binary -> Result]
  /\ starts \in 0..MaxStarts
  /\ faults \in 0..MaxFaults

(* No Open ever replays a migration into "relation already exists",        *)
(* whatever was truncated, killed or run again before it and whichever     *)
(* binaries open one schema at the same time.                              *)
NeverReplays == \A b \in Binary : result[b] # "exists"

(* A binary leaves rows in no schema but its own, and nothing at all in    *)
(* public, whichever connection of its pool a statement went to.           *)
Isolated ==
  /\ tables[Public] = {} /\ rows[Public] = {}
  /\ \A s \in Schema : \A r \in rows[s] : s = SchemaName(r.by)

(* The kept tables that refer to no emptied table, directly or through     *)
(* others, never lose a row, in all the tests and runs of all binaries.    *)
Unreached == Keep \ Cascade(Table \ Keep)

KeptStay ==
  [][\A s \in Schema : \A r \in rows[s] : r.table \in Unreached => r \in rows'[s]]_vars

(* testdb/testdb.go:65: "Keep lists tables Truncate must not empty".       *)
KeepIsKept == [][\A s \in Schema : \A r \in rows[s] : r.table \in Keep => r \in rows'[s]]_vars
=============================================================================
