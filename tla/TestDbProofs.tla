----------------------------- MODULE TestDbProofs -----------------------------
(***************************************************************************)
(* Theorems about TestDb, for any binaries, names, migrations, tables and  *)
(* bounds: no Open replays a migration, no binary reaches into the schema  *)
(* of another name or into public, kept tables keep their rows, and a      *)
(* fixture lands on the first keys.                                        *)
(***************************************************************************)
EXTENDS TestDbFixture, FiniteSetTheorems, TLAPS

(* A connected binary's connections are all scoped to its schema's folded  *)
(* name; once it has found a schema of that name, it is its own.           *)
Connected == {"apply", "test", "truncate", "seed", "run"}

Scoped ==
  \A b \in Binary :
    /\ pc[b] = "migrate" => \A c \in Conn : path[b][c] = Folded(SchemaName(b))
    /\ pc[b] \in Connected => \A c \in Conn : path[b][c] = SchemaName(b)
    /\ goroutine[b] => pc[b] \in Connected

(* The ledger of a schema and its tables tell the same story.              *)
LedgerTellsTables ==
  \A s \in Schema : tables[s] \cap Table = UNION {Creates[v] : v \in recorded[s]}

(* Who applies migrations holds the lock of its schema, and what it has    *)
(* planned is not on record.                                               *)
Holds == \A b \in Binary : pc[b] = "apply" => lock[LockId[b]] = b

PlanUnrecorded ==
  \A b \in Binary : pc[b] = "apply" => todo[b] \cap recorded[SchemaName(b)] = {}

(* Truncate never has the ledger or a kept table on its list. *)
KeptUnlisted == \A b \in Binary : listed[b] \cap Skip = {}

IInv == /\ TypeOK /\ Scoped /\ LedgerTellsTables /\ Holds /\ PlanUnrecorded
        /\ KeptUnlisted /\ NeverReplays /\ Isolated

(* All the assumptions on the constants. *)
Assumptions == /\ \A b \in Binary : Public \notin {SchemaName(b), Folded(SchemaName(b))}
               /\ \A a, b \in Binary : Folded(SchemaName(a)) = SchemaName(b) =>
                                       SchemaName(a) = SchemaName(b)
               /\ Free \notin Binary
               /\ \A a, b \in Binary : SchemaName(a) = SchemaName(b) => LockId[a] = LockId[b]
               /\ LedgerTable \notin Table
               /\ Version \subseteq Nat
               /\ Creates \in [Version -> SUBSET Table]
               /\ \A v, w \in Version : v # w => Creates[v] \cap Creates[w] = {}
               /\ Knows \in [Binary -> SUBSET Version]
               /\ Keep \subseteq Table /\ Fixture \in Seq(Table) /\ Written \subseteq Table
               /\ MaxStarts \in Nat /\ MaxTests \in Nat /\ MaxFaults \in Nat

(* The assumptions hold, by name.                                          *)
LEMMA AllAssumptions == Assumptions
BY NameAssumption, LockAssumption, LedgerAssumption, CreatesAssumption, KnowsAssumption,
   DataAssumption, BoundAssumption DEF Assumptions

(* Every binary has a schema, which is not public, and a lock.             *)
LEMMA OwnSchema ==
  /\ Public \in Schema
  /\ \A b \in Binary : SchemaName(b) \in Schema /\ SchemaName(b) # Public /\ LockId[b] \in Locks
  /\ \A b \in Binary : SchemaName(b) \in Created /\ Folded(SchemaName(b)) \in Schema
BY AllAssumptions DEF Schema, Created, Locks, Assumptions

(* A schema of a binary's folded name is the binary's own.                 *)
LEMMA FoldedIsOwn ==
  ASSUME NEW b \in Binary, Folded(SchemaName(b)) \in Created
  PROVE  Folded(SchemaName(b)) = SchemaName(b)
BY AllAssumptions DEF Created, Assumptions

-----------------------------------------------------------------------------
(* A process that ends keeps the types, frees its lock and forgets what it *)
(* had planned.                                                            *)
LEMMA EndStep ==
  ASSUME TypeOK, NEW b \in Binary, NEW r \in Result, End(b, r)
  PROVE  /\ lock' \in [Locks -> Binary \cup {Free}]
         /\ pc' \in [Binary -> PC]
         /\ path' \in [Binary -> [Conn -> Schema]]
         /\ todo' \in [Binary -> SUBSET Version]
         /\ listed' \in [Binary -> SUBSET (Table \cup {LedgerTable})]
         /\ seeded' \in [Binary -> 0..Len(Fixture)]
         /\ goroutine' \in [Binary -> BOOLEAN]
         /\ tests' \in [Binary -> 0..MaxTests]
         /\ result' \in [Binary -> Result]
         /\ pc'[b] = "idle" /\ ~goroutine'[b] /\ listed'[b] = {} /\ result'[b] = r
         /\ \A a \in Binary : a # b =>
               /\ pc'[a] = pc[a] /\ path'[a] = path[a] /\ todo'[a] = todo[a]
               /\ listed'[a] = listed[a] /\ goroutine'[a] = goroutine[a]
               /\ result'[a] = result[a]
         /\ \A l \in Locks : lock[l] # b => lock'[l] = lock[l]
<1> USE DEF End, Goto
<1>1. Unscoped \in [Conn -> Schema]
  BY OwnSchema DEF Unscoped
<1>2. 0 \in 0..Len(Fixture) /\ 0 \in 0..MaxTests
  BY AllAssumptions DEF Assumptions
<1>3. /\ lock' \in [Locks -> Binary \cup {Free}]
      /\ \A l \in Locks : lock[l] # b => lock'[l] = lock[l]
  BY DEF TypeOK
<1>4. pc' \in [Binary -> PC] /\ result' \in [Binary -> Result]
  BY DEF TypeOK, PC
<1>5. path' \in [Binary -> [Conn -> Schema]]
  BY <1>1 DEF TypeOK
<1>6. todo' \in [Binary -> SUBSET Version] /\ goroutine' \in [Binary -> BOOLEAN]
  BY DEF TypeOK
<1>7. listed' \in [Binary -> SUBSET (Table \cup {LedgerTable})]
  BY DEF TypeOK
<1>8. seeded' \in [Binary -> 0..Len(Fixture)] /\ tests' \in [Binary -> 0..MaxTests]
  BY <1>2 DEF TypeOK
<1>9. /\ pc'[b] = "idle" /\ ~goroutine'[b] /\ listed'[b] = {} /\ result'[b] = r
      /\ \A a \in Binary : a # b =>
               /\ pc'[a] = pc[a] /\ path'[a] = path[a] /\ todo'[a] = todo[a]
               /\ listed'[a] = listed[a] /\ goroutine'[a] = goroutine[a]
               /\ result'[a] = result[a]
  BY DEF TypeOK
<1> QED BY <1>3, <1>4, <1>5, <1>6, <1>7, <1>8, <1>9

(* A row goes where the connection points, under the writer's name.        *)
LEMMA InsertStep ==
  ASSUME TypeOK, NEW b \in Binary, NEW s \in Schema, NEW t \in Table, Insert(b, s, t)
  PROVE  /\ rows' \in [Schema -> SUBSET Row]
         /\ nextId' \in [Schema -> [Table -> Nat]]
         /\ \A r \in rows'[s] : r \in rows[s] \/ r.by = b
         /\ \A z \in Schema : z # s => rows'[z] = rows[z]
<1>1. nextId[s][t] \in Nat
  BY DEF TypeOK
<1>2. [table |-> t, id |-> nextId[s][t], by |-> b] \in Row
  BY <1>1 DEF Row
<1>3. rows' = [rows EXCEPT ![s] = @ \cup {[table |-> t, id |-> nextId[s][t], by |-> b]}]
  BY DEF Insert
<1>4. rows' \in [Schema -> SUBSET Row]
  BY <1>2, <1>3 DEF TypeOK
<1>5. nextId' \in [Schema -> [Table -> Nat]]
  BY <1>1 DEF Insert, TypeOK
<1>6. \A r \in rows'[s] : r \in rows[s] \/ r.by = b
  BY <1>3 DEF TypeOK
<1>7. \A z \in Schema : z # s => rows'[z] = rows[z]
  BY <1>3 DEF TypeOK
<1> QED BY <1>4, <1>5, <1>6, <1>7

-----------------------------------------------------------------------------
(* A step that leaves the data alone keeps the ledgers true and the        *)
(* schemas apart.                                                          *)
LEMMA QuietStep ==
  ASSUME LedgerTellsTables, Isolated, UNCHANGED data
  PROVE  LedgerTellsTables' /\ Isolated'
BY DEF LedgerTellsTables, Isolated, data

(* A process that ends keeps the whole invariant, whatever it was doing.   *)
LEMMA EndKeeps ==
  ASSUME IInv, NEW b \in Binary, NEW r \in Result \ {"exists"}, End(b, r),
         UNCHANGED data, schemas' \subseteq Created, starts' \in 0..MaxStarts, faults' \in 0..MaxFaults
  PROVE  IInv'
<1>1. TypeOK /\ r \in Result
  BY DEF IInv
<1>2. TypeOK'
  BY <1>1, EndStep DEF TypeOK, data
<1>3. Scoped'
  <2>1. Scoped
    BY DEF IInv
  <2>2. pc'[b] = "idle" /\ ~goroutine'[b]
    BY <1>1, EndStep
  <2>3. \A a \in Binary : a # b =>
           pc'[a] = pc[a] /\ path'[a] = path[a] /\ goroutine'[a] = goroutine[a]
    BY <1>1, EndStep
  <2> QED BY <2>1, <2>2, <2>3 DEF Scoped, Connected
<1>4. LedgerTellsTables' /\ Isolated'
  BY QuietStep DEF IInv
<1>5. Holds'
  <2> SUFFICES ASSUME NEW a \in Binary, pc'[a] = "apply" PROVE lock'[LockId[a]] = a
    BY DEF Holds
  <2>1. a # b /\ pc[a] = "apply"
    BY <1>1, EndStep
  <2>2. lock[LockId[a]] = a /\ LockId[a] \in Locks
    BY <2>1, OwnSchema DEF IInv, Holds
  <2> QED BY <1>1, <2>1, <2>2, EndStep
<1>6. PlanUnrecorded'
  BY <1>1, EndStep DEF IInv, PlanUnrecorded, data
<1>7. KeptUnlisted'
  BY <1>1, EndStep DEF IInv, KeptUnlisted
<1>8. NeverReplays'
  BY <1>1, EndStep DEF IInv, NeverReplays
<1> QED BY <1>2, <1>3, <1>4, <1>5, <1>6, <1>7, <1>8 DEF IInv

(* A binary that starts, or is refused, has no connection yet.             *)
LEMMA StartKeeps ==
  ASSUME IInv, NEW b \in Binary, NEW complete \in BOOLEAN, Start(b, complete)
  PROVE  IInv'
<1> USE DEF Start, Goto
<1>1. TypeOK
  BY DEF IInv
<1>2. PICK l \in {"create", "idle"} : pc' = [pc EXCEPT ![b] = l]
  <2>1. CASE complete
    BY <2>1
  <2>2. CASE ~complete
    BY <2>2
  <2> QED BY <2>1, <2>2
<1>3. PICK r \in {"none", "refused"} : result' = [result EXCEPT ![b] = r]
  <2>1. CASE complete
    BY <2>1
  <2>2. CASE ~complete
    BY <2>2
  <2> QED BY <2>1, <2>2
<1>4. UNCHANGED <<schemas, data, lock, memory, faults>> /\ starts < MaxStarts /\ starts' = starts + 1
  OBVIOUS
<1> HIDE DEF Start
<1>5. TypeOK'
  <2>1. pc' \in [Binary -> PC] /\ result' \in [Binary -> Result]
    BY <1>1, <1>2, <1>3 DEF TypeOK, PC, Result
  <2>2. starts' \in 0..MaxStarts
    BY <1>1, <1>4, AllAssumptions DEF TypeOK, Assumptions
  <2> QED BY <1>1, <1>4, <2>1, <2>2 DEF TypeOK, data, memory
<1>6. Scoped'
  <2>1. pc[b] = "idle"
    BY DEF Start
  <2> QED BY <2>1, <1>1, <1>2, <1>4 DEF IInv, TypeOK, Scoped, Connected, memory
<1>7. LedgerTellsTables' /\ Isolated'
  BY <1>4, QuietStep DEF IInv
<1>8. Holds'
  BY <1>1, <1>2, <1>4 DEF IInv, TypeOK, Holds
<1>9. PlanUnrecorded'
  BY <1>1, <1>2, <1>4 DEF IInv, TypeOK, PlanUnrecorded, data, memory
<1>10. KeptUnlisted'
  BY <1>4 DEF IInv, KeptUnlisted, memory
<1>11. NeverReplays'
  BY <1>1, <1>3 DEF IInv, TypeOK, NeverReplays
<1> QED BY <1>5, <1>6, <1>7, <1>8, <1>9, <1>10, <1>11 DEF IInv

(* Opening, up to the migrations: the schema is made, the connections are  *)
(* scoped to it.                                                           *)
LEMMA OpenKeeps ==
  ASSUME IInv, NEW b \in Binary, LookForSchema(b) \/ CreateSchema(b) \/ Connect(b)
  PROVE  IInv'
<1> USE DEF Goto
<1>type. TypeOK
  BY DEF IInv
<1>1. CASE CreateSchema(b) /\ SchemaName(b) \in schemas
  <2>1. End(b, "error") /\ UNCHANGED <<schemas, data, bounds>>
    BY <1>1 DEF CreateSchema
  <2>2. "error" \in Result \ {"exists"}
    BY DEF Result
  <2> QED BY <2>1, <2>2, <1>type, EndKeeps DEF TypeOK, bounds
<1>2. CASE LookForSchema(b) \/ (CreateSchema(b) /\ SchemaName(b) \notin schemas)
  <2>1. PICK l \in {"insert", "connect"} : pc' = [pc EXCEPT ![b] = l]
    <3>1. CASE LookForSchema(b) /\ SchemaName(b) \in schemas
      BY <3>1 DEF LookForSchema
    <3>2. CASE LookForSchema(b) /\ SchemaName(b) \notin schemas
      BY <3>2 DEF LookForSchema
    <3>3. CASE CreateSchema(b) /\ SchemaName(b) \notin schemas
      BY <3>3 DEF CreateSchema
    <3> QED BY <1>2, <3>1, <3>2, <3>3
  <2>2. UNCHANGED <<data, lock, memory, result, bounds>> /\ schemas' \subseteq Created
    BY <1>2, <1>type, OwnSchema DEF LookForSchema, CreateSchema, TypeOK
  <2>3. TypeOK'
    BY <1>type, <2>1, <2>2 DEF TypeOK, PC, data, memory, bounds
  <2>4. Scoped'
    <3>1. pc[b] \in {"create", "insert"}
      BY <1>2 DEF LookForSchema, CreateSchema
    <3> QED BY <3>1, <1>type, <2>1, <2>2 DEF IInv, TypeOK, Scoped, Connected, memory
  <2>5. LedgerTellsTables' /\ Isolated'
    BY <2>2, QuietStep DEF IInv
  <2>6. Holds' /\ PlanUnrecorded'
    BY <1>type, <2>1, <2>2 DEF IInv, TypeOK, Holds, PlanUnrecorded, data, memory
  <2>7. KeptUnlisted' /\ NeverReplays'
    BY <2>2 DEF IInv, KeptUnlisted, NeverReplays, memory
  <2> QED BY <2>3, <2>4, <2>5, <2>6, <2>7 DEF IInv
<1>3. CASE Connect(b)
  <2>1. /\ path' = [path EXCEPT ![b] = [c \in Conn |-> Folded(SchemaName(b))]]
        /\ pc' = [pc EXCEPT ![b] = "migrate"]
        /\ UNCHANGED <<schemas, data, lock, todo, listed, seeded, goroutine, tests, result, bounds>>
    BY <1>3 DEF Connect, SearchPaths
  <2>2. [c \in Conn |-> Folded(SchemaName(b))] \in [Conn -> Schema]
    BY OwnSchema
  <2>3. TypeOK'
    <3>1. path' \in [Binary -> [Conn -> Schema]]
      BY <1>type, <2>1, <2>2 DEF TypeOK
    <3>2. pc' \in [Binary -> PC]
      BY <1>type, <2>1 DEF TypeOK, PC
    <3> QED BY <1>type, <2>1, <3>1, <3>2 DEF TypeOK, data, bounds
  <2>4. Scoped'
    <3>1. pc[b] = "connect"
      BY <1>3 DEF Connect
    <3> QED BY <3>1, <1>type, <2>1 DEF IInv, TypeOK, Scoped, Connected
  <2>5. LedgerTellsTables' /\ Isolated'
    BY <2>1, QuietStep DEF IInv
  <2>6. Holds' /\ PlanUnrecorded'
    BY <1>type, <2>1 DEF IInv, TypeOK, Holds, PlanUnrecorded, data
  <2>7. KeptUnlisted' /\ NeverReplays'
    BY <2>1 DEF IInv, KeptUnlisted, NeverReplays
  <2> QED BY <2>3, <2>4, <2>5, <2>6, <2>7 DEF IInv
<1> QED BY <1>1, <1>2, <1>3

(* Planning takes the lock, so that two binaries of one schema never apply *)
(* migrations at the same time.                                            *)
LEMMA PlanKeeps ==
  ASSUME IInv, NEW b \in Binary, Plan(b)
  PROVE  IInv'
<1>type. TypeOK
  BY DEF IInv
<1>0. PICK c \in Conn : path[b][c] \in schemas /\ todo' = [todo EXCEPT ![b] = Pending(b, path[b][c])]
  BY DEF Plan
<1>1. /\ pc[b] = "migrate" /\ lock[LockId[b]] = Free
      /\ lock' = [lock EXCEPT ![LockId[b]] = b]
      /\ pc' = [pc EXCEPT ![b] = "apply"]
      /\ UNCHANGED <<schemas, data, path, listed, seeded, goroutine, tests, result, bounds>>
  BY DEF Plan, LockFree, Goto
<1>own. Folded(SchemaName(b)) = SchemaName(b)
  <2>1. path[b][c] = Folded(SchemaName(b)) /\ path[b][c] \in Created
    BY <1>0, <1>1, <1>type DEF IInv, Scoped, TypeOK
  <2> QED BY <2>1, FoldedIsOwn
<1>2. /\ \A d \in Conn : path[b][d] = SchemaName(b)
      /\ LockId[b] \in Locks /\ SchemaName(b) \in Schema
  BY <1>1, <1>own, OwnSchema DEF IInv, Scoped
<1>3. Pending(b, path[b][c]) \subseteq Version
  BY AllAssumptions DEF Pending, Assumptions
<1>4. Pending(b, SchemaName(b)) \cap recorded[SchemaName(b)] = {}
  <2>1. recorded[SchemaName(b)] \subseteq Nat
    BY <1>type, <1>2, AllAssumptions DEF TypeOK, Assumptions
  <2> QED BY <2>1 DEF Pending
<1>5. TypeOK'
  <2>1. todo' \in [Binary -> SUBSET Version]
    BY <1>0, <1>3, <1>type DEF TypeOK
  <2>2. lock' \in [Locks -> Binary \cup {Free}] /\ pc' \in [Binary -> PC]
    BY <1>1, <1>2, <1>type DEF TypeOK, PC
  <2> QED BY <1>1, <1>type, <2>1, <2>2 DEF TypeOK, data, bounds
<1>6. Scoped'
  BY <1>1, <1>2, <1>type DEF IInv, TypeOK, Scoped, Connected
<1>7. LedgerTellsTables' /\ Isolated'
  BY <1>1, QuietStep DEF IInv
<1>8. Holds'
  <2> SUFFICES ASSUME NEW a \in Binary, pc'[a] = "apply" PROVE lock'[LockId[a]] = a
    BY DEF Holds
  <2>1. CASE a = b
    BY <2>1, <1>1, <1>2, <1>type DEF TypeOK
  <2>2. CASE a # b
    <3>1. pc[a] = "apply" /\ LockId[a] \in Locks
      BY <2>2, <1>1, <1>type, OwnSchema DEF TypeOK
    <3>2. lock[LockId[a]] = a
      BY <3>1 DEF IInv, Holds
    <3>3. LockId[a] # LockId[b]
      BY <1>1, <3>2, AllAssumptions DEF Assumptions
    <3> QED BY <1>1, <1>2, <1>type, <3>1, <3>2, <3>3 DEF TypeOK
  <2> QED BY <2>1, <2>2
<1>9. PlanUnrecorded'
  <2> SUFFICES ASSUME NEW a \in Binary, pc'[a] = "apply"
               PROVE  todo'[a] \cap recorded'[SchemaName(a)] = {}
    BY DEF PlanUnrecorded
  <2>0. recorded' = recorded
    BY <1>1 DEF data
  <2>1. CASE a = b
    BY <2>0, <2>1, <1>0, <1>2, <1>4, <1>type DEF TypeOK
  <2>2. CASE a # b
    BY <2>0, <2>2, <1>0, <1>1, <1>type DEF TypeOK, IInv, PlanUnrecorded
  <2> QED BY <2>1, <2>2
<1>10. KeptUnlisted' /\ NeverReplays'
  BY <1>1 DEF IInv, KeptUnlisted, NeverReplays
<1> QED BY <1>5, <1>6, <1>7, <1>8, <1>9, <1>10 DEF IInv

(* Applying a migration: what is planned is not recorded, so its tables    *)
(* are not there yet, and the ledger keeps telling the tables.             *)
LEMMA ApplyKeeps ==
  ASSUME IInv, NEW b \in Binary, Apply(b)
  PROVE  IInv'
<1>type. TypeOK
  BY DEF IInv
<1>0. PICK v \in todo[b], c \in Conn :
         LET s == path[b][c] IN
         IF Creates[v] \cap tables[s] # {}
            THEN End(b, "exists") /\ UNCHANGED <<tables, recorded>>
            ELSE /\ tables' = [tables EXCEPT ![s] = @ \cup Creates[v] \cup {LedgerTable}]
                 /\ recorded' = [recorded EXCEPT ![s] = @ \cup {v}]
                 /\ todo' = [todo EXCEPT ![b] = @ \ {v}]
                 /\ UNCHANGED <<lock, pc, path, listed, seeded, goroutine, tests, result>>
  BY DEF Apply
<1> DEFINE s == SchemaName(b)
<1>1. pc[b] = "apply" /\ UNCHANGED <<schemas, rows, nextId, bounds>>
  BY DEF Apply
<1>2. path[b][c] = s /\ s \in Schema /\ s # Public
  BY <1>1, OwnSchema DEF IInv, Scoped, Connected
<1>3. v \in Version /\ v \notin recorded[s]
  BY <1>1, <1>type DEF IInv, PlanUnrecorded, TypeOK
<1>4. recorded[s] \subseteq Version /\ Creates[v] \subseteq Table
  BY <1>2, <1>3, <1>type, AllAssumptions DEF TypeOK, Assumptions
<1>5. Creates[v] \cap tables[s] = {}
  <2>1. \A u \in recorded[s] : Creates[v] \cap Creates[u] = {}
    BY <1>3, <1>4, AllAssumptions DEF Assumptions
  <2>2. tables[s] \cap Table = UNION {Creates[u] : u \in recorded[s]}
    BY <1>2 DEF IInv, LedgerTellsTables
  <2> QED BY <1>4, <2>1, <2>2
<1>6. /\ tables' = [tables EXCEPT ![s] = @ \cup Creates[v] \cup {LedgerTable}]
      /\ recorded' = [recorded EXCEPT ![s] = @ \cup {v}]
      /\ todo' = [todo EXCEPT ![b] = @ \ {v}]
      /\ UNCHANGED <<lock, pc, path, listed, seeded, goroutine, tests, result>>
  BY <1>0, <1>2, <1>5
<1> HIDE DEF s
<1>7. TypeOK'
  <2>1. tables' \in [Schema -> SUBSET (Table \cup {LedgerTable})]
    BY <1>2, <1>4, <1>6, <1>type DEF TypeOK
  <2>2. recorded' \in [Schema -> SUBSET Version] /\ todo' \in [Binary -> SUBSET Version]
    BY <1>2, <1>3, <1>6, <1>type DEF TypeOK
  <2> QED BY <1>1, <1>6, <1>type, <2>1, <2>2 DEF TypeOK, bounds
<1>8. Scoped' /\ KeptUnlisted' /\ NeverReplays' /\ Holds'
  BY <1>6 DEF IInv, Scoped, KeptUnlisted, NeverReplays, Holds
<1>9. LedgerTellsTables'
  <2> SUFFICES ASSUME NEW z \in Schema
               PROVE  tables'[z] \cap Table = UNION {Creates[u] : u \in recorded'[z]}
    BY DEF LedgerTellsTables
  <2>1. tables[z] \cap Table = UNION {Creates[u] : u \in recorded[z]}
    BY DEF IInv, LedgerTellsTables
  <2>2. CASE z # s
    BY <2>1, <2>2, <1>6, <1>type DEF TypeOK
  <2>3. CASE z = s
    <3>1. tables'[s] = tables[s] \cup Creates[v] \cup {LedgerTable} /\ recorded'[s] = recorded[s] \cup {v}
      BY <1>2, <1>6, <1>type DEF TypeOK
    <3>2. tables'[s] \cap Table = (tables[s] \cap Table) \cup Creates[v]
      BY <3>1, <1>4, AllAssumptions DEF Assumptions
    <3>3. UNION {Creates[u] : u \in recorded'[s]} = (UNION {Creates[u] : u \in recorded[s]}) \cup Creates[v]
      BY <3>1
    <3> QED BY <2>1, <2>3, <3>2, <3>3
  <2> QED BY <2>2, <2>3
<1>10. PlanUnrecorded'
  <2> SUFFICES ASSUME NEW a \in Binary, pc'[a] = "apply"
               PROVE  todo'[a] \cap recorded'[SchemaName(a)] = {}
    BY DEF PlanUnrecorded
  <2>1. pc[a] = "apply" /\ todo[a] \cap recorded[SchemaName(a)] = {} /\ SchemaName(a) \in Schema
    BY <1>6, OwnSchema DEF IInv, PlanUnrecorded
  <2>2. CASE a = b
    BY <2>1, <2>2, <1>2, <1>6, <1>type DEF TypeOK, s
  <2>3. CASE a # b
    <3>1. lock[LockId[a]] = a /\ lock[LockId[b]] = b
      BY <1>1, <2>1 DEF IInv, Holds
    <3>2. SchemaName(a) # s
      BY <2>3, <3>1, AllAssumptions DEF Assumptions, s
    <3>3. recorded'[SchemaName(a)] = recorded[SchemaName(a)] /\ todo'[a] = todo[a]
      BY <2>1, <2>3, <3>2, <1>6, <1>type DEF TypeOK
    <3> QED BY <2>1, <3>3
  <2> QED BY <2>2, <2>3
<1>11. Isolated'
  <2>1. tables'[Public] = tables[Public] /\ rows' = rows
    BY <1>1, <1>2, <1>6, <1>type, OwnSchema DEF TypeOK
  <2> QED BY <2>1 DEF IInv, Isolated
<1> QED BY <1>7, <1>8, <1>9, <1>10, <1>11 DEF IInv

(* Steps that only move on: the lock is given back, tables are listed, a   *)
(* Truncate fails, the fixture is complete.                                *)
LEMMA MoveKeeps ==
  ASSUME IInv, NEW b \in Binary, Migrated(b) \/ List(b) \/ TruncateFails(b) \/ Seeded(b)
  PROVE  IInv'
<1> USE DEF Goto
<1>type. TypeOK
  BY DEF IInv
<1>1. PICK l \in {"test", "seed", "truncate", "run"} : pc' = [pc EXCEPT ![b] = l]
  <2>1. CASE Migrated(b)
    BY <2>1 DEF Migrated
  <2>2. CASE Seeded(b) \/ TruncateFails(b)
    BY <2>2 DEF Seeded, TruncateFails
  <2>3. CASE List(b)
    <3>1. PICK c \in Conn :
             Goto(b, IF tables[path[b][c]] \ Skip = {} THEN "seed" ELSE "truncate")
      BY <2>3 DEF List
    <3>2. CASE tables[path[b][c]] \ Skip = {}
      BY <3>1, <3>2
    <3>3. CASE tables[path[b][c]] \ Skip # {}
      BY <3>1, <3>3
    <3> QED BY <3>2, <3>3
  <2> QED BY <2>1, <2>2, <2>3
<1>2. /\ UNCHANGED <<schemas, data, path, todo, goroutine, result, starts>>
      /\ pc[b] \in Connected /\ faults' \in 0..MaxFaults
  <2>1. UNCHANGED <<schemas, data, path, todo, goroutine, result, starts>> /\ pc[b] \in Connected
    BY DEF Migrated, List, TruncateFails, Seeded, memory, bounds, Connected
  <2>2. faults' = faults \/ (faults < MaxFaults /\ faults' = faults + 1)
    BY DEF Migrated, List, TruncateFails, Seeded, bounds
  <2> QED BY <2>1, <2>2, <1>type, AllAssumptions DEF TypeOK, Assumptions
<1>3. /\ lock' \in [Locks -> Binary \cup {Free}]
      /\ \A a \in Binary \ {b} : lock[LockId[a]] = a => lock'[LockId[a]] = a
  <2>1. CASE Migrated(b)
    <3>1. lock' = [lock EXCEPT ![LockId[b]] = Free] /\ pc[b] = "apply"
      BY <2>1 DEF Migrated
    <3>2. lock[LockId[b]] = b /\ LockId[b] \in Locks
      BY <3>1, OwnSchema DEF IInv, Holds
    <3> QED BY <3>1, <3>2, <1>type, OwnSchema DEF TypeOK
  <2>2. CASE List(b) \/ TruncateFails(b) \/ Seeded(b)
    BY <2>2, <1>type DEF List, TruncateFails, Seeded, TypeOK
  <2> QED BY <2>1, <2>2
<1>4. /\ listed' \in [Binary -> SUBSET (Table \cup {LedgerTable})]
      /\ KeptUnlisted'
      /\ seeded' \in [Binary -> 0..Len(Fixture)] /\ tests' \in [Binary -> 0..MaxTests]
  <2>1. CASE Migrated(b) \/ TruncateFails(b) \/ Seeded(b)
    BY <2>1, <1>type DEF IInv, Migrated, TruncateFails, Seeded, memory, TypeOK, KeptUnlisted
  <2>2. CASE List(b)
    <3>1. PICK c \in Conn : listed' = [listed EXCEPT ![b] = tables[path[b][c]] \ Skip]
      BY <2>2 DEF List
    <3>2. path[b][c] \in Schema
      BY <1>type DEF TypeOK
    <3>3. /\ tables[path[b][c]] \ Skip \subseteq Table \cup {LedgerTable}
          /\ (tables[path[b][c]] \ Skip) \cap Skip = {}
      BY <3>2, <1>type DEF TypeOK
    <3>4. listed' \in [Binary -> SUBSET (Table \cup {LedgerTable})] /\ KeptUnlisted'
      BY <3>1, <3>3, <1>type DEF IInv, TypeOK, KeptUnlisted
    <3>5. seeded' = [seeded EXCEPT ![b] = 0] /\ 0 \in 0..Len(Fixture)
      BY <2>2, AllAssumptions DEF List, Assumptions
    <3>6. tests' = [tests EXCEPT ![b] = @ + 1] /\ tests[b] + 1 \in 0..MaxTests
      BY <2>2, <1>type, AllAssumptions DEF List, TypeOK, Assumptions
    <3> QED BY <3>4, <3>5, <3>6, <1>type DEF TypeOK
  <2> QED BY <2>1, <2>2
<1>5. TypeOK'
  <2>1. pc' \in [Binary -> PC]
    BY <1>1, <1>type DEF TypeOK, PC
  <2> QED BY <1>2, <1>3, <1>4, <2>1, <1>type DEF TypeOK, data, bounds
<1>6. Scoped'
  <2>1. Scoped /\ path' = path /\ goroutine' = goroutine
    BY <1>2 DEF IInv
  <2> QED BY <2>1, <1>1, <1>2, <1>type DEF TypeOK, Scoped, Connected
<1>7. LedgerTellsTables' /\ Isolated'
  BY <1>2, QuietStep DEF IInv
<1>8. Holds' /\ PlanUnrecorded'
  BY <1>1, <1>2, <1>3, <1>type DEF IInv, TypeOK, Holds, PlanUnrecorded, data
<1>9. NeverReplays'
  BY <1>2 DEF IInv, NeverReplays
<1> QED BY <1>4, <1>5, <1>6, <1>7, <1>8, <1>9 DEF IInv

(* Truncate takes rows away and never the ledger's.                        *)
LEMMA EmptyKeeps ==
  ASSUME IInv, NEW b \in Binary, Empty(b)
  PROVE  IInv'
<1>type. TypeOK
  BY DEF IInv
<1>0. PICK c \in Conn :
         /\ rows' = [rows EXCEPT ![path[b][c]] = {r \in @ : r.table \notin Cascade(listed[b])}]
         /\ nextId' = [nextId EXCEPT ![path[b][c]] = RestartIdentity(@, Cascade(listed[b]))]
         /\ recorded' = [recorded EXCEPT ![path[b][c]] = IF LedgerTable \in listed[b] THEN {} ELSE @]
  BY DEF Empty
<1> DEFINE s == path[b][c]
<1>1. /\ pc[b] = "truncate" /\ pc' = [pc EXCEPT ![b] = "seed"]
      /\ UNCHANGED <<schemas, tables, lock, memory, result, bounds>>
  BY DEF Empty, Goto
<1>2. s \in Schema
  BY <1>type DEF TypeOK
<1>3. recorded' = recorded
  BY <1>0, <1>2, <1>type DEF IInv, KeptUnlisted, Skip, TypeOK
<1>4. rows' \in [Schema -> SUBSET Row] /\ \A z \in Schema : rows'[z] \subseteq rows[z]
  BY <1>0, <1>2, <1>type DEF TypeOK
<1>5. nextId' \in [Schema -> [Table -> Nat]]
  <2>1. nextId[s] \in [Table -> Nat]
    BY <1>2, <1>type DEF TypeOK
  <2>2. RestartIdentity(nextId[s], Cascade(listed[b])) \in [Table -> Nat]
    BY <2>1 DEF RestartIdentity
  <2> QED BY <1>0, <1>2, <2>2, <1>type DEF TypeOK
<1>6. TypeOK'
  <2>1. pc' \in [Binary -> PC]
    BY <1>1, <1>type DEF TypeOK, PC
  <2> QED BY <1>1, <1>3, <1>4, <1>5, <2>1, <1>type DEF TypeOK, memory, bounds
<1>7. Scoped'
  <2>1. Scoped /\ path' = path /\ goroutine' = goroutine
    BY <1>1 DEF IInv, memory
  <2> QED BY <2>1, <1>1, <1>type DEF TypeOK, Scoped, Connected
<1>8. LedgerTellsTables'
  BY <1>1, <1>3 DEF IInv, LedgerTellsTables
<1>9. Holds' /\ PlanUnrecorded'
  BY <1>1, <1>3, <1>type DEF IInv, TypeOK, Holds, PlanUnrecorded, memory
<1>10. KeptUnlisted' /\ NeverReplays'
  BY <1>1 DEF IInv, KeptUnlisted, NeverReplays, memory
<1>11. Isolated'
  BY <1>1, <1>4, OwnSchema DEF IInv, Isolated, TypeOK
<1> QED BY <1>6, <1>7, <1>8, <1>9, <1>10, <1>11 DEF IInv

(* A write of the fixture, of a test or of a goroutine: one row under the  *)
(* writer's name in the writer's schema, or nothing.                       *)
WritesOwn(b) ==
  \/ UNCHANGED <<rows, nextId>>
  \/ \E t \in Table : Insert(b, SchemaName(b), t)

(* Such a write keeps the types, the ledgers and the isolation.            *)
LEMMA WriteStep ==
  ASSUME IInv, NEW b \in Binary, WritesOwn(b), UNCHANGED <<tables, recorded>>
  PROVE  /\ rows' \in [Schema -> SUBSET Row]
         /\ nextId' \in [Schema -> [Table -> Nat]]
         /\ LedgerTellsTables' /\ Isolated'
<1>type. TypeOK /\ SchemaName(b) \in Schema /\ SchemaName(b) # Public /\ Public \in Schema
  BY OwnSchema DEF IInv
<1>1. CASE UNCHANGED <<rows, nextId>>
  BY <1>1, <1>type, QuietStep DEF IInv, TypeOK, data
<1>2. CASE \E t \in Table : Insert(b, SchemaName(b), t)
  <2>1. PICK t \in Table : Insert(b, SchemaName(b), t)
    BY <1>2
  <2>2. rows' \in [Schema -> SUBSET Row] /\ nextId' \in [Schema -> [Table -> Nat]]
    BY <2>1, <1>type, InsertStep
  <2>3. \A r \in rows'[SchemaName(b)] : r \in rows[SchemaName(b)] \/ r.by = b
    BY <2>1, <1>type, InsertStep
  <2>4. \A z \in Schema : z # SchemaName(b) => rows'[z] = rows[z]
    BY <2>1, <1>type, InsertStep
  <2>5. Isolated'
    <3>1. tables'[Public] = {} /\ rows'[Public] = {}
      BY <2>4, <1>type DEF IInv, Isolated
    <3>2. ASSUME NEW z \in Schema, NEW r \in rows'[z] PROVE z = SchemaName(r.by)
      <4>1. CASE z = SchemaName(b)
        BY <3>2, <4>1, <2>3 DEF IInv, Isolated
      <4>2. CASE z # SchemaName(b)
        BY <3>2, <4>2, <2>4 DEF IInv, Isolated
      <4> QED BY <4>1, <4>2
    <3> QED BY <3>1, <3>2 DEF Isolated
  <2>6. LedgerTellsTables'
    BY DEF IInv, LedgerTellsTables
  <2> QED BY <2>2, <2>5, <2>6
<1> QED BY <1>1, <1>2 DEF WritesOwn

(* The fixture: an insert, or a foreign key that finds nothing and ends    *)
(* the binary.                                                             *)
LEMMA SeedKeeps ==
  ASSUME IInv, NEW b \in Binary, Seed(b)
  PROVE  IInv'
<1>type. TypeOK
  BY DEF IInv
<1> DEFINE t == Fixture[seeded[b] + 1]
<1>0. PICK c \in Conn :
        IF CanInsert(path[b][c], t)
           THEN /\ Insert(b, path[b][c], t)
                /\ seeded' = [seeded EXCEPT ![b] = @ + 1]
                /\ UNCHANGED <<lock, pc, path, todo, listed, goroutine, tests, result>>
           ELSE End(b, "error") /\ UNCHANGED <<rows, nextId>>
  BY DEF Seed
<1>1. /\ pc[b] = "seed" /\ seeded[b] < Len(Fixture)
      /\ UNCHANGED <<schemas, tables, recorded, bounds>>
  BY DEF Seed
<1>2. path[b][c] = SchemaName(b)
  BY <1>1 DEF IInv, Scoped, Connected
<1>3. /\ seeded[b] \in Nat /\ Len(Fixture) \in Nat /\ seeded[b] + 1 \in 0..Len(Fixture)
      /\ t \in Table
  <2>1. seeded[b] \in 0..Len(Fixture) /\ Len(Fixture) \in Nat
    BY <1>type, AllAssumptions DEF TypeOK, Assumptions
  <2>2. seeded[b] + 1 \in 1..Len(Fixture)
    BY <1>1, <2>1
  <2> QED BY <2>1, <2>2, AllAssumptions DEF Assumptions
<1> HIDE DEF t
<1>4. CASE CanInsert(path[b][c], t)
  <2>1. /\ Insert(b, SchemaName(b), t)
        /\ seeded' = [seeded EXCEPT ![b] = @ + 1]
        /\ UNCHANGED <<lock, pc, path, todo, listed, goroutine, tests, result>>
    BY <1>0, <1>2, <1>4
  <2>2. /\ rows' \in [Schema -> SUBSET Row]
        /\ nextId' \in [Schema -> [Table -> Nat]]
        /\ LedgerTellsTables' /\ Isolated'
    BY <1>1, <1>3, <2>1, WriteStep DEF WritesOwn
  <2>3. TypeOK'
    <3>1. seeded' \in [Binary -> 0..Len(Fixture)]
      BY <1>3, <2>1, <1>type DEF TypeOK
    <3> QED BY <1>1, <2>1, <2>2, <3>1, <1>type DEF TypeOK, bounds
  <2>4. Scoped' /\ Holds' /\ PlanUnrecorded' /\ KeptUnlisted' /\ NeverReplays'
    BY <1>1, <2>1 DEF IInv, Scoped, Holds, PlanUnrecorded, KeptUnlisted, NeverReplays
  <2> QED BY <2>2, <2>3, <2>4 DEF IInv
<1>5. CASE ~CanInsert(path[b][c], t)
  <2>1. End(b, "error") /\ UNCHANGED data
    BY <1>0, <1>1, <1>5 DEF data
  <2>2. "error" \in Result \ {"exists"}
    BY DEF Result
  <2> QED BY <1>1, <2>1, <2>2, <1>type, EndKeeps DEF TypeOK, bounds
<1> QED BY <1>4, <1>5

(* A test, and a goroutine that outlives it, write where the pool points.  *)
LEMMA RunKeeps ==
  ASSUME IInv, NEW b \in Binary, Run(b) \/ Background(b)
  PROVE  IInv'
<1>type. TypeOK
  BY DEF IInv
<1>1. /\ UNCHANGED <<schemas, tables, recorded, lock, path, todo, listed, seeded, tests, result, bounds>>
      /\ pc[b] = "run" \/ goroutine[b]
  BY DEF Run, Background
<1>2. PICK c \in Conn, t \in Written :
         IF CanInsert(path[b][c], t) THEN Insert(b, path[b][c], t) ELSE UNCHANGED <<rows, nextId>>
  BY DEF Run, Background
<1>3. path[b][c] = SchemaName(b) /\ t \in Table
  BY <1>1, AllAssumptions DEF IInv, Scoped, Connected, Assumptions
<1>4. WritesOwn(b)
  BY <1>2, <1>3 DEF WritesOwn
<1>5. /\ rows' \in [Schema -> SUBSET Row]
      /\ nextId' \in [Schema -> [Table -> Nat]]
      /\ LedgerTellsTables' /\ Isolated'
  BY <1>1, <1>4, WriteStep
<1>6. /\ goroutine' \in [Binary -> BOOLEAN]
      /\ \A a \in Binary \ {b} : goroutine'[a] = goroutine[a]
  <2>1. CASE Run(b)
    <3>1. PICK left \in BOOLEAN : goroutine' = [goroutine EXCEPT ![b] = @ \/ left]
      BY <2>1 DEF Run
    <3>2. goroutine \in [Binary -> BOOLEAN]
      BY <1>type DEF TypeOK
    <3>3. goroutine[b] \/ left \in BOOLEAN
      OBVIOUS
    <3> QED BY <3>1, <3>2, <3>3
  <2>2. CASE Background(b)
    BY <2>2, <1>type DEF Background, TypeOK
  <2> QED BY <2>1, <2>2
<1>7. /\ pc' \in [Binary -> PC]
      /\ \A a \in Binary \ {b} : pc'[a] = pc[a]
      /\ pc'[b] \in {pc[b], "test"}
  BY <1>type DEF Run, Background, Goto, TypeOK, PC
<1>9. TypeOK'
  BY <1>1, <1>5, <1>6, <1>7, <1>type DEF TypeOK, bounds
<1>10. Scoped'
  <2>1. Scoped /\ path' = path /\ pc[b] \in Connected
    BY <1>1 DEF IInv, Scoped, Connected
  <2> QED BY <2>1, <1>6, <1>7 DEF Scoped, Connected
<1>11. Holds' /\ PlanUnrecorded'
  BY <1>1, <1>7 DEF IInv, Holds, PlanUnrecorded
<1>12. KeptUnlisted' /\ NeverReplays'
  BY <1>1 DEF IInv, KeptUnlisted, NeverReplays
<1> QED BY <1>5, <1>9, <1>10, <1>11, <1>12 DEF IInv

-----------------------------------------------------------------------------
(* Initially there is nothing in the database and nobody is running.       *)
LEMMA InitInv == Init => IInv
<1> SUFFICES ASSUME Init PROVE IInv
  OBVIOUS
<1>1. Unscoped \in [Conn -> Schema]
  BY OwnSchema DEF Unscoped
<1>2. 0 \in 0..Len(Fixture) /\ 0 \in 0..MaxTests /\ 0 \in 0..MaxStarts /\ 0 \in 0..MaxFaults
  BY AllAssumptions DEF Assumptions
<1>3. TypeOK
  BY <1>1, <1>2, OwnSchema DEF Init, TypeOK, PC, Result, Created
<1>4. Scoped /\ LedgerTellsTables /\ Holds /\ PlanUnrecorded
  BY DEF Init, Scoped, Connected, LedgerTellsTables, Holds, PlanUnrecorded
<1>5. KeptUnlisted /\ NeverReplays /\ Isolated
  BY OwnSchema DEF Init, KeptUnlisted, NeverReplays, Isolated
<1> QED BY <1>3, <1>4, <1>5 DEF IInv

(* Every step keeps the invariant. *)
LEMMA NextInv == ASSUME IInv, [Next]_vars PROVE IInv'
<1>1. CASE UNCHANGED vars
  BY <1>1 DEF vars, data, memory, bounds, IInv, TypeOK, Scoped, LedgerTellsTables, Holds,
              PlanUnrecorded, KeptUnlisted, NeverReplays, Isolated
<1>2. ASSUME NEW b \in Binary, NEW complete \in BOOLEAN, Start(b, complete) PROVE IInv'
  BY <1>2, StartKeeps
<1>3. ASSUME NEW b \in Binary, Step(b) PROVE IInv'
  <2>1. CASE LookForSchema(b) \/ CreateSchema(b) \/ Connect(b)
    BY <2>1, OpenKeeps
  <2>2. CASE Plan(b)
    BY <2>2, PlanKeeps
  <2>3. CASE NoSchema(b) \/ LockTimeout(b) \/ Exit(b)
    <3>1. PICK r \in Result \ {"exists"} : End(b, r)
      BY <2>3 DEF NoSchema, LockTimeout, Exit, Result
    <3>2. UNCHANGED <<schemas, data, bounds>>
      BY <2>3 DEF NoSchema, LockTimeout, Exit
    <3> QED BY <3>1, <3>2, EndKeeps DEF IInv, TypeOK, bounds
  <2>4. CASE Apply(b)
    BY <2>4, ApplyKeeps
  <2>5. CASE Migrated(b) \/ List(b) \/ TruncateFails(b) \/ Seeded(b)
    BY <2>5, MoveKeeps
  <2>6. CASE Empty(b)
    BY <2>6, EmptyKeeps
  <2>7. CASE Seed(b)
    BY <2>7, SeedKeeps
  <2>8. CASE Run(b) \/ Background(b)
    BY <2>8, RunKeeps
  <2> QED BY <1>3, <2>1, <2>2, <2>3, <2>4, <2>5, <2>6, <2>7, <2>8 DEF Step
<1>4. ASSUME NEW b \in Binary, Fail(b) PROVE IInv'
  <2>1. End(b, "error") /\ UNCHANGED <<schemas, data, starts>>
    BY <1>4 DEF Fail
  <2>2. "error" \in Result \ {"exists"}
    BY DEF Result
  <2>3. faults' \in 0..MaxFaults
    BY <1>4, AllAssumptions DEF Fail, IInv, TypeOK, Assumptions
  <2> QED BY <2>1, <2>2, <2>3, EndKeeps DEF IInv, TypeOK
<1> QED BY <1>1, <1>2, <1>3, <1>4 DEF Next

(* The inductive invariant holds in every reachable state.                 *)
THEOREM Invariance == Spec => []IInv
BY InitInv, NextInv, PTL DEF Spec

(* Every state of the test database has its type. *)
THEOREM TypeCorrect == Spec => []TypeOK
<1>1. IInv => TypeOK
  BY DEF IInv
<1> QED BY <1>1, Invariance, PTL

(* No Open replays a migration, however schemas were truncated, left half  *)
(* migrated by a killed binary or opened by several binaries at once.      *)
THEOREM OpenNeverReplays == Spec => []NeverReplays
<1>1. IInv => NeverReplays
  BY DEF IInv
<1> QED BY <1>1, Invariance, PTL

(* No binary leaves anything in public or in the schema of another name.   *)
THEOREM SchemasAreIsolated == Spec => []Isolated
<1>1. IInv => Isolated
  BY DEF IInv
<1> QED BY <1>1, Invariance, PTL

(* Nothing is emptied that Truncate's own tables cannot reach.             *)
LEMMA CascadeStays ==
  ASSUME IInv, NEW b \in Binary
  PROVE  Unreached \cap Cascade(listed[b]) = {}
<1> SUFFICES ASSUME NEW t \in Unreached PROVE t \notin Cascade(listed[b])
  OBVIOUS
<1>1. t \in Table /\ t \notin Cascade(Table \ Keep)
  BY AllAssumptions DEF Unreached, Assumptions
<1>2. PICK U \in SUBSET Table :
         /\ (Table \ Keep) \cap Table \subseteq U
         /\ \A r \in References : r[2] \in U => r[1] \in U
         /\ t \notin U
  BY <1>1 DEF Cascade
<1>3. listed[b] \cap Table \subseteq U
  BY <1>2 DEF IInv, KeptUnlisted, Skip
<1> QED BY <1>2, <1>3 DEF Cascade

(* What KeptStay says of one step. *)
KeepsRows == \A s \in Schema : \A r \in rows[s] : r.table \in Unreached => r \in rows'[s]

(* No step takes a row from a kept table that no emptied one reaches.      *)
LEMMA StepKeepsRows == ASSUME IInv, Next PROVE KeepsRows
<1>type. TypeOK
  BY DEF IInv
<1> PICK b \in Binary : \/ \E complete \in BOOLEAN : Start(b, complete)
                        \/ Step(b)
                        \/ Fail(b)
  BY DEF Next
<1>1. CASE Empty(b)
  <2>1. PICK c \in Conn :
           rows' = [rows EXCEPT ![path[b][c]] = {r \in @ : r.table \notin Cascade(listed[b])}]
    BY <1>1 DEF Empty
  <2>2. path[b][c] \in Schema
    BY <1>type DEF TypeOK
  <2>3. Unreached \cap Cascade(listed[b]) = {}
    BY CascadeStays
  <2> QED BY <2>1, <2>2, <2>3, <1>type DEF KeepsRows, TypeOK
<1>2. CASE \E s \in Schema, t \in Table : Insert(b, s, t)
  BY <1>2, <1>type DEF Insert, TypeOK, KeepsRows
<1>3. CASE UNCHANGED rows
  BY <1>3 DEF KeepsRows
<1>4. CASE Seed(b)
  <2>1. PICK c \in Conn :
           \/ Insert(b, path[b][c], Fixture[seeded[b] + 1])
           \/ UNCHANGED rows
    BY <1>4 DEF Seed
  <2>2. seeded[b] + 1 \in 1..Len(Fixture)
    BY <1>4, <1>type, AllAssumptions DEF Seed, TypeOK, Assumptions
  <2>3. Fixture[seeded[b] + 1] \in Table /\ path[b][c] \in Schema
    BY <2>2, <1>type, AllAssumptions DEF TypeOK, Assumptions
  <2> QED BY <2>1, <2>3, <1>2, <1>3
<1>5. CASE Run(b) \/ Background(b)
  <2>1. PICK c \in Conn, t \in Written : Insert(b, path[b][c], t) \/ UNCHANGED rows
    BY <1>5 DEF Run, Background
  <2>2. t \in Table /\ path[b][c] \in Schema
    BY <1>type, AllAssumptions DEF TypeOK, Assumptions
  <2> QED BY <2>1, <2>2, <1>2, <1>3
<1>6. CASE \/ \E complete \in BOOLEAN : Start(b, complete)
           \/ LookForSchema(b) \/ CreateSchema(b) \/ Connect(b) \/ Plan(b) \/ LockTimeout(b)
           \/ NoSchema(b) \/ TruncateFails(b) \/ Apply(b) \/ Migrated(b) \/ List(b) \/ Seeded(b) \/ Exit(b) \/ Fail(b)
  <2>1. UNCHANGED rows
    BY <1>6 DEF Start, LookForSchema, CreateSchema, Connect, Plan, LockTimeout, Apply, Migrated,
                NoSchema, TruncateFails, List, Seeded, Exit, Fail, data
  <2> QED BY <2>1, <1>3
<1> QED BY <1>1, <1>4, <1>5, <1>6 DEF Step

(* A kept table that refers to no emptied one keeps its rows for good,     *)
(* through every test and every run.                                       *)
THEOREM KeptTablesStay == Spec => KeptStay
<1>1. IInv /\ [Next]_vars => [KeepsRows]_vars
  BY StepKeepsRows
<1>2. Spec => [][KeepsRows]_vars
  BY <1>1, Invariance, PTL DEF Spec
<1> QED BY <1>2, PTL DEF KeptStay, KeepsRows
-----------------------------------------------------------------------------
(* What FixtureOnFirstKeys needs to be inductive: keys are handed out in   *)
(* order, the phases of a test know how much of the fixture is in, ...     *)
KeysBelow == \A s \in Schema : \A r \in rows[s] : r.id < nextId[s][r.table]

Counts == \A b \in Binary : /\ pc[b] = "truncate" => seeded[b] = 0
                            /\ pc[b] = "run" => seeded[b] = Len(Fixture)

(* ... and an undisturbed binary's listed tables hold what it has seeded   *)
(* of the fixture, and nothing else, with the keys that follow free.       *)
Placed(b, k, L) == {FixtureRow(b, i) : i \in {j \in 1..k : Fixture[j] \in L}}

RowsPlaced(b) ==
  {r \in rows[SchemaName(b)] : r.table \in listed[b]} = Placed(b, seeded[b], listed[b])

KeysFollow(b) == \A t \in listed[b] : nextId[SchemaName(b)][t] = 1 + Times(seeded[b], t)

Placing ==
  \A b \in Binary : pc[b] \in {"seed", "run"} /\ ~disturbed[b] => RowsPlaced(b) /\ KeysFollow(b)

FInv == /\ IInv
        /\ disturbed \in [Binary -> BOOLEAN]
        /\ KeysBelow /\ Counts /\ Placing

(* Nothing of a fixture is in before its first insert, and an insert       *)
(* counts for its own table.                                               *)
LEMMA TimesFacts ==
  /\ \A t : Times(0, t) = 0
  /\ \A k \in Nat : \A t :
       /\ Times(k, t) \in Nat
       /\ Times(k + 1, t) = IF Fixture[k + 1] = t THEN Times(k, t) + 1
                                                  ELSE Times(k, t)
<1>1. ASSUME NEW t PROVE Times(0, t) = 0
  <2>1. {j \in 1..0 : Fixture[j] = t} = {}
    OBVIOUS
  <2> QED BY <2>1, FS_EmptySet DEF Times
<1>2. ASSUME NEW k \in Nat, NEW t
      PROVE  /\ Times(k, t) \in Nat
             /\ Times(k + 1, t) = IF Fixture[k + 1] = t THEN Times(k, t) + 1 ELSE Times(k, t)
  <2> DEFINE S == {j \in 1..k : Fixture[j] = t}
  <2>1. IsFiniteSet(S)
    <3>1. IsFiniteSet(1..k)
      BY FS_Interval
    <3>2. S \in SUBSET (1..k)
      OBVIOUS
    <3> QED BY <3>1, <3>2, FS_Subset
  <2>2. k + 1 \notin S
    OBVIOUS
  <2>3. {j \in 1..(k + 1) : Fixture[j] = t} = IF Fixture[k + 1] = t THEN S \cup {k + 1} ELSE S
    OBVIOUS
  <2> HIDE DEF S
  <2>4. Cardinality(S) \in Nat /\ Cardinality(S \cup {k + 1}) = Cardinality(S) + 1
    BY <2>1, <2>2, FS_AddElement, FS_CardinalityType
  <2>5. Times(k, t) = Cardinality(S)
    BY DEF Times, S
  <2>6. Times(k + 1, t) = Cardinality(IF Fixture[k + 1] = t THEN S \cup {k + 1} ELSE S)
    BY <2>3 DEF Times
  <2> QED BY <2>4, <2>5, <2>6
<1> QED BY <1>1, <1>2

(* What a step does to the rows of a schema and the keys that follow: a    *)
(* row under the next key, tables emptied and numbered anew, or nothing.   *)
AddsOne(s) ==
  \E t \in Table, b \in Binary :
     /\ rows'[s] = rows[s] \cup {[table |-> t, id |-> nextId[s][t], by |-> b]}
     /\ nextId'[s] = [nextId[s] EXCEPT ![t] = @ + 1]

Empties(s) ==
  \E T \in SUBSET Table :
     /\ rows'[s] = {r \in rows[s] : r.table \notin T}
     /\ nextId'[s] = [t \in Table |-> IF t \in T THEN 1 ELSE nextId[s][t]]

Untouched(s) == rows'[s] = rows[s] /\ nextId'[s] = nextId[s]

(* An insert adds one row to its schema and leaves the others alone.       *)
LEMMA InsertTouches ==
  ASSUME TypeOK, NEW b \in Binary, NEW z \in Schema, NEW t \in Table, Insert(b, z, t),
         NEW s \in Schema
  PROVE  AddsOne(s) \/ Untouched(s)
<1>1. CASE s = z
  <2>1. /\ rows'[s] = rows[s] \cup {[table |-> t, id |-> nextId[s][t], by |-> b]}
        /\ nextId'[s] = [nextId[s] EXCEPT ![t] = @ + 1]
    BY <1>1 DEF Insert, TypeOK
  <2> QED BY <2>1 DEF AddsOne
<1>2. CASE s # z
  BY <1>2 DEF Insert, TypeOK, Untouched
<1> QED BY <1>1, <1>2

(* Every step does one of the three to every schema.                       *)
LEMMA StepTouches ==
  ASSUME IInv, Next, NEW s \in Schema
  PROVE  AddsOne(s) \/ Empties(s) \/ Untouched(s)
<1>type. TypeOK
  BY DEF IInv
<1> PICK b \in Binary : \/ \E complete \in BOOLEAN : Start(b, complete)
                        \/ Step(b)
                        \/ Fail(b)
  BY DEF Next
<1>1. CASE Empty(b)
  <2> DEFINE T == Cascade(listed[b])
  <2>1. PICK c \in Conn :
           /\ rows' = [rows EXCEPT ![path[b][c]] = {r \in @ : r.table \notin T}]
           /\ nextId' = [nextId EXCEPT ![path[b][c]] = RestartIdentity(@, T)]
    BY <1>1 DEF Empty
  <2>2. T \in SUBSET Table
    BY DEF Cascade
  <2> HIDE DEF T
  <2>3. CASE s = path[b][c]
    <3>1. /\ rows'[s] = {r \in rows[s] : r.table \notin T}
          /\ nextId'[s] = [t \in Table |-> IF t \in T THEN 1 ELSE nextId[s][t]]
      BY <2>1, <2>3, <1>type DEF TypeOK, RestartIdentity
    <3> QED BY <2>2, <3>1 DEF Empties
  <2>4. CASE s # path[b][c]
    BY <2>1, <2>4, <1>type DEF TypeOK, Untouched
  <2> QED BY <2>3, <2>4
<1>2. CASE \E z \in Schema, t \in Table : Insert(b, z, t)
  BY <1>2, <1>type, InsertTouches
<1>3. CASE UNCHANGED <<rows, nextId>>
  BY <1>3 DEF Untouched
<1>4. CASE Seed(b)
  <2>1. PICK c \in Conn :
           \/ Insert(b, path[b][c], Fixture[seeded[b] + 1])
           \/ UNCHANGED <<rows, nextId>>
    BY <1>4 DEF Seed
  <2>2. seeded[b] + 1 \in 1..Len(Fixture)
    BY <1>4, <1>type, AllAssumptions DEF Seed, TypeOK, Assumptions
  <2>3. Fixture[seeded[b] + 1] \in Table /\ path[b][c] \in Schema
    BY <2>2, <1>type, AllAssumptions DEF TypeOK, Assumptions
  <2> QED BY <2>1, <2>3, <1>2, <1>3
<1>5. CASE Run(b) \/ Background(b)
  <2>1. PICK c \in Conn, t \in Written : Insert(b, path[b][c], t) \/ UNCHANGED <<rows, nextId>>
    BY <1>5 DEF Run, Background
  <2>2. t \in Table /\ path[b][c] \in Schema
    BY <1>type, AllAssumptions DEF TypeOK, Assumptions
  <2> QED BY <2>1, <2>2, <1>2, <1>3
<1>6. CASE \/ \E complete \in BOOLEAN : Start(b, complete)
           \/ LookForSchema(b) \/ CreateSchema(b) \/ Connect(b) \/ Plan(b) \/ LockTimeout(b)
           \/ NoSchema(b) \/ TruncateFails(b) \/ Apply(b) \/ Migrated(b) \/ List(b) \/ Seeded(b) \/ Exit(b) \/ Fail(b)
  <2>1. UNCHANGED <<rows, nextId>>
    BY <1>6 DEF Start, LookForSchema, CreateSchema, Connect, Plan, LockTimeout, Apply, Migrated,
                NoSchema, TruncateFails, List, Seeded, Exit, Fail, data
  <2> QED BY <2>1, <1>3
<1> QED BY <1>1, <1>4, <1>5, <1>6 DEF Step

(* Keys stay handed out in order.                                          *)
LEMMA StepKeys == ASSUME IInv, KeysBelow, Next PROVE KeysBelow'
<1> SUFFICES ASSUME NEW s \in Schema, NEW r \in rows'[s]
             PROVE  r.id < nextId'[s][r.table]
  BY DEF KeysBelow
<1>1. rows[s] \subseteq Row /\ nextId[s] \in [Table -> Nat]
  BY DEF IInv, TypeOK
<1>2. \A x \in rows[s] : x.id < nextId[s][x.table] /\ x.table \in Table /\ x.id \in Nat
  BY <1>1 DEF KeysBelow, Row
<1>3. CASE AddsOne(s)
  <2>1. PICK t \in Table, b \in Binary :
           /\ rows'[s] = rows[s] \cup {[table |-> t, id |-> nextId[s][t], by |-> b]}
           /\ nextId'[s] = [nextId[s] EXCEPT ![t] = @ + 1]
    BY <1>3 DEF AddsOne
  <2>2. nextId[s][t] \in Nat
    BY <1>1
  <2>3. CASE r \in rows[s]
    <3>1. r.id < nextId[s][r.table] /\ r.table \in Table /\ r.id \in Nat
      BY <1>2, <2>3
    <3>2. nextId'[s][r.table] = IF r.table = t THEN nextId[s][t] + 1 ELSE nextId[s][r.table]
      BY <1>1, <2>1, <3>1
    <3> QED BY <2>2, <3>1, <3>2
  <2>4. CASE r = [table |-> t, id |-> nextId[s][t], by |-> b]
    <3>1. nextId'[s][t] = nextId[s][t] + 1
      BY <1>1, <2>1
    <3> QED BY <2>2, <2>4, <3>1
  <2> QED BY <2>1, <2>3, <2>4
<1>4. CASE Empties(s)
  <2>1. PICK T \in SUBSET Table :
           /\ rows'[s] = {x \in rows[s] : x.table \notin T}
           /\ nextId'[s] = [t \in Table |-> IF t \in T THEN 1 ELSE nextId[s][t]]
    BY <1>4 DEF Empties
  <2>2. r \in rows[s] /\ r.table \notin T
    BY <2>1
  <2> QED BY <1>2, <2>1, <2>2
<1>5. CASE Untouched(s)
  BY <1>2, <1>5 DEF Untouched
<1> QED BY <1>3, <1>4, <1>5, StepTouches

(* A step that leaves the rows of a schema alone leaves its keys alone,    *)
(* but for tables that were empty and start from 1 again.                  *)
LEMMA QuietKeys ==
  ASSUME IInv, KeysBelow, Next, NEW s \in Schema, rows'[s] = rows[s], NEW t \in Table
  PROVE  \/ nextId'[s][t] = nextId[s][t]
         \/ nextId'[s][t] = 1 /\ \A r \in rows[s] : r.table # t
<1>1. ~AddsOne(s)
  <2> SUFFICES ASSUME AddsOne(s) PROVE FALSE
    OBVIOUS
  <2>1. PICK u \in Table, b \in Binary :
           rows'[s] = rows[s] \cup {[table |-> u, id |-> nextId[s][u], by |-> b]}
    BY DEF AddsOne
  <2>2. [table |-> u, id |-> nextId[s][u], by |-> b] \in rows[s]
    BY <2>1
  <2>3. nextId[s][u] < nextId[s][u]
    BY <2>2 DEF KeysBelow
  <2>4. nextId[s][u] \in Nat
    BY DEF IInv, TypeOK
  <2> QED BY <2>3, <2>4
<1>2. CASE Empties(s)
  BY <1>2 DEF Empties
<1>3. CASE Untouched(s)
  BY <1>3 DEF Untouched
<1> QED BY <1>1, <1>2, <1>3, StepTouches
-----------------------------------------------------------------------------
(* Another binary's step does not move b.                                  *)
LEMMA OthersStay ==
  ASSUME TypeOK, NEW a \in Binary, NEW b \in Binary \ {a},
         (\E complete \in BOOLEAN : Start(a, complete)) \/ Step(a) \/ Fail(a)
  PROVE  pc'[b] = pc[b] /\ seeded'[b] = seeded[b] /\ listed'[b] = listed[b]
<1> USE DEF TypeOK, Goto, memory
<1>1. ASSUME NEW r, End(a, r)
      PROVE  pc'[b] = pc[b] /\ seeded'[b] = seeded[b] /\ listed'[b] = listed[b]
  BY <1>1 DEF End
<1>2. CASE \E complete \in BOOLEAN : Start(a, complete)
  BY <1>2 DEF Start
<1>3. CASE LookForSchema(a) \/ CreateSchema(a) \/ Connect(a) \/ Plan(a)
  BY <1>3, <1>1 DEF LookForSchema, CreateSchema, Connect, Plan
<1>4. CASE NoSchema(a) \/ LockTimeout(a) \/ TruncateFails(a) \/ Migrated(a) \/ Exit(a) \/ Fail(a)
  BY <1>4, <1>1 DEF NoSchema, LockTimeout, TruncateFails, Migrated, Exit, Fail
<1>5. CASE Apply(a)
  BY <1>5, <1>1 DEF Apply
<1>6. CASE List(a) \/ Empty(a) \/ Seeded(a)
  BY <1>6 DEF List, Empty, Seeded
<1>7. CASE Seed(a)
  BY <1>7, <1>1 DEF Seed
<1>8. CASE Run(a) \/ Background(a)
  BY <1>8 DEF Run, Background
<1> QED BY <1>2, <1>3, <1>4, <1>5, <1>6, <1>7, <1>8 DEF Step

(* How b comes to be seeding or testing: it was and stays so, it inserts a *)
(* row of the fixture, goes on to its test, has nothing to empty, or has   *)
(* emptied what it listed.                                                 *)
StaysSo(b) == pc'[b] = pc[b] /\ seeded'[b] = seeded[b] /\ listed'[b] = listed[b]

Inserts(b) ==
  /\ pc[b] = "seed" /\ seeded[b] < Len(Fixture)
  /\ pc'[b] = "seed" /\ seeded'[b] = seeded[b] + 1 /\ listed'[b] = listed[b]
  /\ Insert(b, SchemaName(b), Fixture[seeded[b] + 1])

GoesOn(b) ==
  /\ pc[b] = "seed" /\ seeded[b] = Len(Fixture)
  /\ pc'[b] = "run" /\ seeded'[b] = seeded[b] /\ listed'[b] = listed[b]
  /\ UNCHANGED <<rows, nextId>>

NothingToEmpty(b) == pc'[b] = "seed" /\ listed'[b] = {} /\ seeded'[b] = 0

Emptied(b) ==
  /\ pc[b] = "truncate" /\ pc'[b] = "seed"
  /\ seeded'[b] = seeded[b] /\ listed'[b] = listed[b]
  /\ LET s == SchemaName(b)
         T == Cascade(listed[b])
     IN rows'[s] = {r \in rows[s] : r.table \notin T} /\ nextId'[s] = RestartIdentity(nextId[s], T)

(* There is no other way to be seeding or testing.                         *)
LEMMA MovesOf ==
  ASSUME IInv, Next, NEW b \in Binary, pc'[b] \in {"seed", "run"}
  PROVE  StaysSo(b) \/ Inserts(b) \/ GoesOn(b) \/ NothingToEmpty(b) \/ Emptied(b)
<1>type. TypeOK
  BY DEF IInv
<1> PICK a \in Binary : \/ \E complete \in BOOLEAN : Start(a, complete)
                        \/ Step(a)
                        \/ Fail(a)
  BY DEF Next
<1>1. CASE a # b
  BY <1>1, <1>type, OthersStay DEF StaysSo
<1>2. CASE a = b
  <2>0. ASSUME NEW r, End(b, r) PROVE FALSE
    BY <2>0, <1>type DEF End, Goto, TypeOK
  <2>1. CASE Seed(b)
    <3>1. PICK c \in Conn :
            \/ Insert(b, path[b][c], Fixture[seeded[b] + 1])
               /\ seeded' = [seeded EXCEPT ![b] = @ + 1] /\ UNCHANGED <<pc, listed>>
            \/ End(b, "error")
      BY <2>1 DEF Seed
    <3>2. pc[b] = "seed" /\ seeded[b] < Len(Fixture) /\ path[b][c] = SchemaName(b)
      BY <2>1 DEF Seed, IInv, Scoped, Connected
    <3> QED BY <3>1, <3>2, <2>0, <1>type DEF TypeOK, Inserts
  <2>2. CASE Seeded(b)
    BY <2>2, <1>type DEF Seeded, GoesOn, Goto, TypeOK, data, memory
  <2>3. CASE List(b)
    <3>1. PICK c \in Conn :
             /\ listed' = [listed EXCEPT ![b] = tables[path[b][c]] \ Skip]
             /\ Goto(b, IF tables[path[b][c]] \ Skip = {} THEN "seed" ELSE "truncate")
      BY <2>3 DEF List
    <3>2. seeded' = [seeded EXCEPT ![b] = 0]
      BY <2>3 DEF List
    <3>3. tables[path[b][c]] \ Skip = {}
      BY <3>1, <1>type DEF Goto, TypeOK
    <3> QED BY <3>1, <3>2, <3>3, <1>type DEF NothingToEmpty, Goto, TypeOK
  <2>4. CASE Empty(b)
    <3>1. PICK c \in Conn :
           /\ rows' = [rows EXCEPT ![path[b][c]] = {r \in @ : r.table \notin Cascade(listed[b])}]
           /\ nextId' = [nextId EXCEPT ![path[b][c]] = RestartIdentity(@, Cascade(listed[b]))]
      BY <2>4 DEF Empty
    <3>2. pc[b] = "truncate" /\ Goto(b, "seed") /\ UNCHANGED memory
      BY <2>4 DEF Empty
    <3>3. path[b][c] = SchemaName(b) /\ SchemaName(b) \in Schema
      BY <3>2, OwnSchema DEF IInv, Scoped, Connected
    <3> QED BY <3>1, <3>2, <3>3, <1>type DEF Emptied, Goto, TypeOK, memory
  <2>5. CASE Background(b)
    BY <2>5, <1>type DEF Background, StaysSo
  <2>6. CASE \E complete \in BOOLEAN : Start(b, complete)
    BY <2>6, <1>type DEF Start, Goto, TypeOK
  <2>7. CASE LookForSchema(b) \/ CreateSchema(b) \/ Connect(b) \/ Plan(b)
    BY <2>7, <2>0, <1>type DEF LookForSchema, CreateSchema, Connect, Plan, Goto, TypeOK
  <2>8. CASE NoSchema(b) \/ LockTimeout(b) \/ TruncateFails(b) \/ Migrated(b) \/ Exit(b) \/ Fail(b)
    BY <2>8, <2>0, <1>type DEF NoSchema, LockTimeout, TruncateFails, Migrated, Exit, Fail, Goto, TypeOK
  <2>9. CASE Apply(b)
    BY <2>9, <2>0, <1>type DEF Apply, TypeOK
  <2>10. CASE Run(b)
    BY <2>10, <1>type DEF Run, Goto, TypeOK
  <2> QED BY <1>2, <2>1, <2>2, <2>3, <2>4, <2>5, <2>6, <2>7, <2>8, <2>9, <2>10 DEF Step
<1> QED BY <1>1, <1>2

(* Truncate's list is emptied, each table of it, and has no ledger on it.  *)
LEMMA ListedIsEmptied ==
  ASSUME IInv, NEW b \in Binary
  PROVE  listed[b] \subseteq Table /\ listed[b] \subseteq Cascade(listed[b])
<1>1. listed[b] \subseteq Table
  BY DEF IInv, TypeOK, KeptUnlisted, Skip
<1> QED BY <1>1 DEF Cascade

(* The phases keep their count.                                            *)
LEMMA StepCounts == ASSUME IInv, Counts, Next PROVE Counts'
<1>type. TypeOK
  BY DEF IInv
<1>1. ASSUME NEW b \in Binary, pc'[b] = "run" PROVE seeded'[b] = Len(Fixture)
  <2>1. StaysSo(b) \/ Inserts(b) \/ GoesOn(b) \/ NothingToEmpty(b) \/ Emptied(b)
    BY <1>1, MovesOf
  <2> QED BY <1>1, <2>1 DEF StaysSo, Inserts, GoesOn, NothingToEmpty, Emptied, Counts
<1>2. ASSUME NEW b \in Binary, pc'[b] = "truncate" PROVE seeded'[b] = 0
  <2> PICK a \in Binary : \/ \E complete \in BOOLEAN : Start(a, complete)
                          \/ Step(a)
                          \/ Fail(a)
    BY DEF Next
  <2>1. CASE a # b
    BY <1>2, <2>1, <1>type, OthersStay DEF Counts
  <2>2. CASE a = b
    <3> USE <1>2, <1>type, <2>2 DEF TypeOK, Goto, Counts
    <3>0. ASSUME NEW r, End(b, r) PROVE FALSE
      BY <3>0 DEF End
    <3>1. CASE List(b)
      BY <3>1 DEF List
    <3>2. CASE Background(b)
      BY <3>2 DEF Background
    <3>3. CASE \E complete \in BOOLEAN : Start(b, complete)
      BY <3>3 DEF Start
    <3>4. CASE LookForSchema(b) \/ CreateSchema(b) \/ Connect(b) \/ Plan(b)
      BY <3>4, <3>0 DEF LookForSchema, CreateSchema, Connect, Plan
    <3>5. CASE NoSchema(b) \/ LockTimeout(b) \/ TruncateFails(b) \/ Migrated(b) \/ Exit(b) \/ Fail(b)
      BY <3>5, <3>0 DEF NoSchema, LockTimeout, TruncateFails, Migrated, Exit, Fail
    <3>6. CASE Apply(b)
      BY <3>6, <3>0 DEF Apply
    <3>7. CASE Empty(b) \/ Seeded(b) \/ Run(b)
      BY <3>7 DEF Empty, Seeded, Run
    <3>8. CASE Seed(b)
      BY <3>8, <3>0 DEF Seed
    <3> QED BY <3>1, <3>2, <3>3, <3>4, <3>5, <3>6, <3>7, <3>8 DEF Step
  <2> QED BY <2>1, <2>2
<1> QED BY <1>1, <1>2 DEF Counts

(* A row of a fixture more, with the next key of its table.                *)
LEMMA PlacedGrows ==
  ASSUME NEW b \in Binary, NEW k \in Nat, NEW L
  PROVE  Placed(b, k + 1, L) = IF Fixture[k + 1] \in L THEN Placed(b, k, L) \cup {FixtureRow(b, k + 1)}
                                                       ELSE Placed(b, k, L)
<1>1. 1..(k + 1) = (1..k) \cup {k + 1}
  OBVIOUS
<1> QED BY <1>1 DEF Placed

(* An undisturbed binary's fixture stays where it belongs, whatever the    *)
(* other binaries and its own goroutines do.                               *)
LEMMA StepPlaces ==
  ASSUME FInv, FixtureNext, NEW b \in Binary, pc'[b] \in {"seed", "run"}, ~disturbed'[b]
  PROVE  RowsPlaced(b)' /\ KeysFollow(b)'
<1> DEFINE s == SchemaName(b)
<1>type. TypeOK /\ IInv /\ KeysBelow /\ Counts /\ Next
  BY DEF FInv, IInv, FixtureNext
<1>own. s \in Schema
  BY OwnSchema
<1>was. disturbed'[b] = (pc[b] \in {"seed", "run"} /\ (disturbed[b] \/ Disturbs(b)))
  BY DEF FixtureNext
<1>fits. seeded[b] \in 0..Len(Fixture) /\ Len(Fixture) \in Nat
  BY <1>type, AllAssumptions DEF TypeOK, Assumptions
<1>list. listed[b] \subseteq Table /\ listed[b] \subseteq Cascade(listed[b])
  BY <1>type, ListedIsEmptied
<1>row. rows[s] \subseteq Row /\ nextId[s] \in [Table -> Nat]
  BY <1>type, <1>own DEF TypeOK
<1>before. ASSUME pc[b] \in {"seed", "run"} PROVE RowsPlaced(b) /\ KeysFollow(b)
  <2>1. ~disturbed[b]
    BY <1>before, <1>was
  <2> QED BY <1>before, <2>1 DEF FInv, Placing
<1>1. CASE StaysSo(b)
  <2>1. pc[b] \in {"seed", "run"} /\ seeded'[b] = seeded[b] /\ listed'[b] = listed[b]
    BY <1>1 DEF StaysSo
  <2>2. RowsPlaced(b) /\ KeysFollow(b)
    BY <2>1, <1>before
  <2>3. rows'[s] = rows[s]
    BY <1>1, <1>was, <2>1 DEF Disturbs, Wrote, StaysSo
  <2>4. RowsPlaced(b)'
    BY <2>1, <2>2, <2>3 DEF RowsPlaced
  <2>5. ASSUME NEW t \in listed[b] PROVE nextId'[s][t] = 1 + Times(seeded[b], t)
    <3>1. nextId[s][t] = 1 + Times(seeded[b], t)
      BY <2>2 DEF KeysFollow
    <3>2. CASE nextId'[s][t] = nextId[s][t]
      BY <3>1, <3>2
    <3>3. CASE nextId'[s][t] = 1 /\ \A r \in rows[s] : r.table # t
      <4>1. \A j \in 1..seeded[b] : Fixture[j] # t
        <5> SUFFICES ASSUME NEW j \in 1..seeded[b], Fixture[j] = t PROVE FALSE
          OBVIOUS
        <5>1. FixtureRow(b, j) \in Placed(b, seeded[b], listed[b])
          BY DEF Placed
        <5>2. FixtureRow(b, j) \in rows[s]
          BY <5>1, <2>2 DEF RowsPlaced
        <5>3. FixtureRow(b, j).table = t
          BY DEF FixtureRow
        <5> QED BY <5>2, <5>3, <3>3
      <4>2. {j \in 1..seeded[b] : Fixture[j] = t} = {}
        BY <4>1
      <4>3. Times(seeded[b], t) = 0
        BY <4>2, FS_EmptySet DEF Times
      <4> QED BY <4>3, <3>3
    <3> QED BY <2>3, <3>2, <3>3, <1>type, <1>own, <1>list, QuietKeys
  <2>6. KeysFollow(b)'
    BY <2>1, <2>5 DEF KeysFollow
  <2> QED BY <2>4, <2>6
<1>2. CASE Inserts(b)
  <2> DEFINE k == seeded[b]
             t == Fixture[k + 1]
  <2>1. pc[b] = "seed" /\ k \in Nat /\ seeded'[b] = k + 1 /\ listed'[b] = listed[b] /\ t \in Table
    <3>1. k + 1 \in 1..Len(Fixture)
      BY <1>2, <1>fits DEF Inserts
    <3>2. t \in Table
      BY <3>1, AllAssumptions DEF Assumptions
    <3> QED BY <1>2, <1>fits, <3>2 DEF Inserts
  <2>2. RowsPlaced(b) /\ KeysFollow(b)
    BY <2>1, <1>before
  <2>3. /\ rows'[s] = rows[s] \cup {[table |-> t, id |-> nextId[s][t], by |-> b]}
        /\ nextId'[s] = [nextId[s] EXCEPT ![t] = @ + 1]
    BY <1>2, <1>type, <1>own DEF Inserts, Insert, TypeOK
  <2> HIDE DEF t, s, k
  <2>4. FixtureRow(b, k + 1) = [table |-> t, id |-> 1 + Times(k, t), by |-> b]
    <3>1. (k + 1) - 1 = k
      BY <2>1
    <3> QED BY <3>1 DEF FixtureRow, t
  <2>5. RowsPlaced(b)'
    <3>1. CASE t \in listed[b]
      <4>1. nextId[s][t] = 1 + Times(k, t)
        BY <2>2, <3>1 DEF KeysFollow, s, k
      <4>2. rows'[s] = rows[s] \cup {FixtureRow(b, k + 1)} /\ FixtureRow(b, k + 1).table = t
        BY <4>1, <2>3, <2>4
      <4>3. {r \in rows'[s] : r.table \in listed[b]}
              = {r \in rows[s] : r.table \in listed[b]} \cup {FixtureRow(b, k + 1)}
        BY <4>2, <3>1
      <4>4. Placed(b, k + 1, listed[b]) = Placed(b, k, listed[b]) \cup {FixtureRow(b, k + 1)}
        BY <3>1, <2>1, PlacedGrows DEF t
      <4> QED BY <4>3, <4>4, <2>1, <2>2 DEF RowsPlaced, s, k
    <3>2. CASE t \notin listed[b]
      <4>1. {r \in rows'[s] : r.table \in listed[b]} = {r \in rows[s] : r.table \in listed[b]}
        BY <2>3, <3>2
      <4>2. Placed(b, k + 1, listed[b]) = Placed(b, k, listed[b])
        BY <3>2, <2>1, PlacedGrows DEF t
      <4> QED BY <4>1, <4>2, <2>1, <2>2 DEF RowsPlaced, s, k
    <3> QED BY <3>1, <3>2
  <2>6. KeysFollow(b)'
    <3> SUFFICES ASSUME NEW u \in listed[b] PROVE nextId'[s][u] = 1 + Times(k + 1, u)
      BY <2>1 DEF KeysFollow, s
    <3>1. nextId[s][u] = 1 + Times(k, u) /\ u \in Table
      BY <2>2, <1>list DEF KeysFollow, s, k
    <3>2. /\ Times(k, u) \in Nat
          /\ Times(k + 1, u) = IF t = u THEN Times(k, u) + 1 ELSE Times(k, u)
      BY <2>1, TimesFacts DEF t
    <3>3. nextId'[s][u] = IF t = u THEN nextId[s][u] + 1 ELSE nextId[s][u]
      BY <2>1, <2>3, <3>1, <1>row DEF s
    <3> QED BY <3>1, <3>2, <3>3
  <2> QED BY <2>5, <2>6
<1>3. CASE GoesOn(b)
  <2>1. RowsPlaced(b) /\ KeysFollow(b)
    BY <1>3, <1>before DEF GoesOn
  <2> QED BY <2>1, <1>3 DEF GoesOn, RowsPlaced, KeysFollow
<1>4. CASE NothingToEmpty(b)
  BY <1>4 DEF NothingToEmpty, RowsPlaced, KeysFollow, Placed
<1>5. CASE Emptied(b)
  <2>1. seeded'[b] = 0 /\ listed'[b] = listed[b]
    BY <1>5, <1>type DEF Emptied, Counts
  <2>2. /\ rows'[s] = {r \in rows[s] : r.table \notin Cascade(listed[b])}
        /\ nextId'[s] = RestartIdentity(nextId[s], Cascade(listed[b]))
    BY <1>5 DEF Emptied
  <2>3. {r \in rows'[s] : r.table \in listed[b]} = {}
    BY <2>2, <1>list
  <2>4. Placed(b, 0, listed[b]) = {}
    BY DEF Placed
  <2>5. RowsPlaced(b)'
    BY <2>1, <2>3, <2>4 DEF RowsPlaced
  <2>6. \A t \in listed[b] : nextId'[s][t] = 1
    BY <2>2, <1>list DEF RestartIdentity
  <2>7. KeysFollow(b)'
    BY <2>1, <2>6, TimesFacts DEF KeysFollow
  <2> QED BY <2>5, <2>7
<1> QED BY <1>1, <1>2, <1>3, <1>4, <1>5, <1>type, MovesOf

(* Every step keeps the strengthened invariant.                            *)
LEMMA FixtureStep ==
  ASSUME FInv, [FixtureNext]_<<vars, disturbed>>
  PROVE  FInv'
<1>1. CASE FixtureNext
  <2>1. IInv' /\ KeysBelow' /\ Counts'
    BY <1>1, NextInv, StepKeys, StepCounts DEF FixtureNext, FInv
  <2>2. disturbed' \in [Binary -> BOOLEAN]
    <3>1. \A b \in Binary : (/\ pc[b] \in {"seed", "run"}
                             /\ disturbed[b] \/ Disturbs(b)) \in BOOLEAN
      OBVIOUS
    <3> QED BY <1>1, <3>1 DEF FixtureNext
  <2>3. Placing'
    BY <1>1, StepPlaces DEF Placing
  <2> QED BY <2>1, <2>2, <2>3 DEF FInv
<1>2. CASE UNCHANGED <<vars, disturbed>>
  <2>1. IInv'
    BY <1>2, NextInv DEF FInv
  <2>2. KeysBelow' /\ Counts' /\ Placing'
    BY <1>2 DEF FInv, KeysBelow, Counts, Placing, RowsPlaced, KeysFollow, Placed, FixtureRow,
                Times, vars, data, memory, bounds
  <2> QED BY <1>2, <2>1, <2>2 DEF FInv
<1> QED BY <1>1, <1>2

(* Nobody is running at first.                                             *)
LEMMA FixtureStart == FixtureInit => FInv
<1> SUFFICES ASSUME FixtureInit PROVE FInv
  OBVIOUS
<1>1. IInv
  BY InitInv DEF FixtureInit
<1>2. disturbed \in [Binary -> BOOLEAN] /\ KeysBelow /\ Counts /\ Placing
  BY DEF FixtureInit, Init, KeysBelow, Counts, Placing
<1> QED BY <1>1, <1>2 DEF FInv

(* A fixture lands on the first keys of the tables Truncate emptied and is *)
(* all there is in them when its test runs, in every test of every binary, *)
(* unless somebody else wrote in that schema in between.                   *)
THEOREM FixturesLandOnFirstKeys == FixtureSpec => []FixtureOnFirstKeys
<1>1. FInv => FixtureOnFirstKeys
  <2> SUFFICES ASSUME FInv, NEW b \in Binary, pc[b] = "run", ~disturbed[b]
               PROVE  {r \in rows[SchemaName(b)] : r.table \in listed[b]}
                        = {FixtureRow(b, i) : i \in {j \in DOMAIN Fixture : Fixture[j] \in listed[b]}}
    BY DEF FixtureOnFirstKeys
  <2>1. RowsPlaced(b) /\ seeded[b] = Len(Fixture)
    BY DEF FInv, Placing, Counts
  <2>2. DOMAIN Fixture = 1..Len(Fixture)
    BY AllAssumptions DEF Assumptions
  <2> QED BY <2>1, <2>2 DEF RowsPlaced, Placed
<1> QED BY <1>1, FixtureStart, FixtureStep, PTL DEF FixtureSpec
=============================================================================
