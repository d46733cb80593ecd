------------------------------- MODULE Migrate -------------------------------
(***************************************************************************)
(* The migrate package (migrate/migrate.go): instances of one or several   *)
(* builds of an application run Run, or the migrate subcommand, against    *)
(* one Postgres database.                                                  *)
(*                                                                         *)
(* The package drives goose.  What goose does is modelled from how the     *)
(* package uses it (WithSessionLocker, WithDisableGlobalRegistry, no       *)
(* allow-missing): every provider call but HasPending holds the session    *)
(* lock, creates the ledger table with its version 0 row if it is absent,  *)
(* and executes each migration in a transaction that also inserts its      *)
(* ledger row.  Postgres drops the lock of a connection that dies.         *)
(***************************************************************************)
EXTENDS Integers, Sequences, Functions

CONSTANTS Proc,              \* the instances of the application
          MaxVersion,        \* the highest migration version of any build
          Sources,           \* Sources[p]: the versions in the FS of p's build
          Command,           \* the commands the instances are started with
          MaxRuns,           \* bound: starts of one instance
          MaxFaults,         \* bound: crashes and database errors, together
          NoProc             \* the lock is free

Version == 1..MaxVersion

Kind == {"up", "status", "version", "baseline", "other"}

(* A command line: the subcommand and, for baseline, its argument. *)
CommandLine == [kind : Kind, target : Int]

ASSUME ProcAssumption    == NoProc \notin Proc
ASSUME VersionAssumption == MaxVersion \in Nat
ASSUME SourcesAssumption == Sources \in [Proc -> SUBSET Version]
ASSUME CommandAssumption == Command \subseteq CommandLine
ASSUME BoundAssumption   == MaxRuns \in Nat /\ MaxFaults \in Nat

VARIABLES
  ledger,      \* goose_db_version: the recorded versions in insertion order
  ran,         \* the versions whose body was committed, in order
  lock,        \* who holds the session advisory lock
  pc,          \* pc[p]: where p is, "idle" when it is not running a command
  op,          \* op[p]: the command p runs or ran last
  todo,        \* todo[p]: versions p has yet to execute, or to stamp
  current,     \* current[p]: what p's GetDBVersion returned (baseline)
  result,      \* result[p]: how p's command ended
  runs,        \* runs[p]: how often p was started
  faults       \* crashes and errors so far

vars == <<ledger, ran, lock, pc, op, todo, current, result, runs, faults>>

PC == {"idle", "pending", "lock", "ensure", "read", "apply", "unlock", "decide", "stamp"}
Result == {"none", "ok", "error", "refused"}

Recorded == Range(ledger) \ {0}

IsMax(v, S) == v \in S /\ \A u \in S : u <= v

(* Migrations are executed, and stamped, from the oldest on. *)
IsOldest(v, S) == v \in S /\ \A u \in S : v <= u

(* (Wrong variant: the ledger row is forgotten.) *)
RecordNothing(v) == UNCHANGED ledger

Record(v) == ledger' = Append(ledger, v)

(* The ledger table with the sentinel row goose inserts when creating it. *)
EnsuredLedger == IF ledger = <<>> THEN <<0>> ELSE ledger

Init == /\ ledger = <<>>
        /\ ran = <<>>
        /\ lock = NoProc
        /\ pc = [p \in Proc |-> "idle"]
        /\ op = [p \in Proc |-> [kind |-> "up", target |-> 0]]
        /\ todo = [p \in Proc |-> {}]
        /\ current = [p \in Proc |-> 0]
        /\ result = [p \in Proc |-> "none"]
        /\ runs = [p \in Proc |-> 0]
        /\ faults = 0

Goto(p, label) == pc' = [pc EXCEPT ![p] = label]

Finish(p, r) == /\ Goto(p, "idle")
                /\ result' = [result EXCEPT ![p] = r]

-----------------------------------------------------------------------------
(* Command (and Run, which is the command "up"): the arguments are         *)
(* validated, then the subcommand is dispatched.                           *)

ValidArguments(c) == /\ c.kind # "other"
                     /\ c.kind = "baseline" => c.target >= 1

Entry(c) == IF c.kind = "baseline" THEN "pending" ELSE "lock"

Start(p, c) ==
  /\ pc[p] = "idle"
  /\ runs[p] < MaxRuns
  /\ runs' = [runs EXCEPT ![p] = @ + 1]
  /\ op' = [op EXCEPT ![p] = c]
  /\ todo' = [todo EXCEPT ![p] = {}]
  /\ current' = [current EXCEPT ![p] = 0]
  /\ IF ValidArguments(c)
       THEN Goto(p, Entry(c)) /\ result' = [result EXCEPT ![p] = "none"]
       ELSE Finish(p, "refused")
  /\ UNCHANGED <<ledger, ran, lock, faults>>

(* goose's HasPending: prepares the ledger without taking the lock. *)
HasPending(p) ==
  /\ pc[p] = "pending"
  /\ ledger' = EnsuredLedger
  /\ Goto(p, "lock")
  /\ UNCHANGED <<ran, lock, op, todo, current, result, runs, faults>>

(* (Wrong variant: the provider is built without the session locker.) *)
NoLocker == TRUE

LockFree == lock = NoProc

(* goose polls pg_try_advisory_lock ... *)
TryLock(p) ==
  /\ pc[p] = "lock"
  /\ LockFree
  /\ lock' = p
  /\ Goto(p, "ensure")
  /\ UNCHANGED <<ledger, ran, op, todo, current, result, runs, faults>>

(* ... and gives up after a bounded number of refusals. *)
LockTimeout(p) ==
  /\ pc[p] = "lock"
  /\ lock # NoProc
  /\ Finish(p, "error")
  /\ UNCHANGED <<ledger, ran, lock, op, todo, current, runs, faults>>

EnsureLedger(p) ==
  /\ pc[p] = "ensure"
  /\ ledger' = EnsuredLedger
  /\ Goto(p, "read")
  /\ UNCHANGED <<ran, lock, op, todo, current, result, runs, faults>>

(* The sources above the database's version, the highest recorded one. *)
Pending(p) == {v \in Sources[p] : \A u \in Range(ledger) : u < v}

(* Unrecorded sources below the database's version: goose refuses them.    *)
OutOfOrder(p) == {v \in Sources[p] : v \notin Recorded /\ \E u \in Recorded : v < u}

Plan(p) ==
  /\ pc[p] = "read"
  /\ op[p].kind = "up"
  /\ IF OutOfOrder(p) # {}
       THEN /\ Goto(p, "unlock")
            /\ result' = [result EXCEPT ![p] = "error"]
            /\ UNCHANGED todo
       ELSE /\ todo' = [todo EXCEPT ![p] = Pending(p)]
            /\ Goto(p, "apply")
            /\ UNCHANGED result
  /\ UNCHANGED <<ledger, ran, lock, op, current, runs, faults>>

(* One migration of provider.Up, with its ledger row, in one transaction. *)
Apply(p) ==
  /\ pc[p] = "apply"
  /\ \E v \in todo[p] : /\ IsOldest(v, todo[p])
                         /\ ran' = Append(ran, v)
                         /\ Record(v)
                         /\ todo' = [todo EXCEPT ![p] = @ \ {v}]
  /\ UNCHANGED <<lock, pc, op, current, result, runs, faults>>

Applied(p) ==
  /\ pc[p] = "apply"
  /\ todo[p] = {}
  /\ Goto(p, "unlock")
  /\ result' = [result EXCEPT ![p] = "ok"]
  /\ UNCHANGED <<ledger, ran, lock, op, todo, current, runs, faults>>

(* status and version only report; baseline keeps the version it read. *)
Report(p) ==
  /\ pc[p] = "read"
  /\ op[p].kind # "up"
  /\ \E v \in Range(ledger) : /\ IsMax(v, Range(ledger))
                            /\ current' = [current EXCEPT ![p] = v]
  /\ Goto(p, "unlock")
  /\ result' = IF op[p].kind = "baseline" THEN result ELSE [result EXCEPT ![p] = "ok"]
  /\ UNCHANGED <<ledger, ran, lock, op, todo, runs, faults>>

(* Wrong variant: the connection goes back to the pool still locked. *)
UnlockForgotten(p) ==
  /\ pc[p] = "unlock"
  /\ Goto(p, IF op[p].kind = "baseline" /\ result[p] = "none" THEN "decide" ELSE "idle")
  /\ UNCHANGED <<ledger, ran, lock, op, todo, current, result, runs, faults>>

Unlock(p) ==
  /\ pc[p] = "unlock"
  /\ lock' = NoProc
  /\ Goto(p, IF op[p].kind = "baseline" /\ result[p] = "none" THEN "decide" ELSE "idle")
  /\ UNCHANGED <<ledger, ran, op, todo, current, result, runs, faults>>

(* baseline, after GetDBVersion has released the lock: it refuses a        *)
(* database with history and a target that is not a source.                *)
(* (Wrong variant: every number up to the target, source or not.) *)
ToStampAnyNumber(p) == 1..op[p].target

ToStamp(p) == {v \in Sources[p] : v <= op[p].target}

(* (Wrong variant: the refusal of a database with history is dropped.) *)
RefusesUnknownOnly(p) == op[p].target \notin ToStamp(p)

Refuses(p) == current[p] > 0 \/ op[p].target \notin ToStamp(p)

Decide(p) ==
  /\ pc[p] = "decide"
  /\ IF Refuses(p)
       THEN Finish(p, "refused") /\ UNCHANGED todo
       ELSE /\ todo' = [todo EXCEPT ![p] = ToStamp(p)]
            /\ Goto(p, "stamp")
            /\ UNCHANGED result
  /\ UNCHANGED <<ledger, ran, lock, op, current, runs, faults>>

(* store.Insert: one row, no transaction around the loop, no lock. *)
Stamp(p) ==
  /\ pc[p] = "stamp"
  /\ \E v \in todo[p] : /\ IsOldest(v, todo[p])
                         /\ Record(v)
                         /\ todo' = [todo EXCEPT ![p] = @ \ {v}]
  /\ UNCHANGED <<ran, lock, pc, op, current, result, runs, faults>>

Stamped(p) ==
  /\ pc[p] = "stamp"
  /\ todo[p] = {}
  /\ Finish(p, "ok")
  /\ UNCHANGED <<ledger, ran, lock, op, todo, current, runs, faults>>

(* Wrong variant: up's error is dropped on the way to the caller. *)
FailSwallowed(p) ==
  /\ pc[p] \notin {"idle", "unlock", "decide"}
  /\ faults < MaxFaults
  /\ faults' = faults + 1
  /\ result' = [result EXCEPT ![p] = "ok"]
  /\ Goto(p, IF lock = p THEN "unlock" ELSE "idle")
  /\ UNCHANGED <<ledger, ran, lock, op, todo, current, runs>>

(* A database error, or the context being cancelled, in any step but the   *)
(* unlock: what is committed stays, a held lock is released on the way out.*)
Fail(p) ==
  /\ pc[p] \notin {"idle", "unlock", "decide"}
  /\ faults < MaxFaults
  /\ faults' = faults + 1
  /\ result' = [result EXCEPT ![p] = "error"]
  /\ Goto(p, IF lock = p THEN "unlock" ELSE "idle")
  /\ UNCHANGED <<ledger, ran, lock, op, todo, current, runs>>

(* The instance dies.  Its connections close, so Postgres rolls back the   *)
(* open transaction and drops the session lock.                            *)
Crash(p) ==
  /\ pc[p] # "idle"
  /\ faults < MaxFaults
  /\ faults' = faults + 1
  /\ lock' = IF lock = p THEN NoProc ELSE lock
  /\ Finish(p, "none")
  /\ UNCHANGED <<ledger, ran, op, todo, current, runs>>

(* What a running command does next when nothing goes wrong with it. *)
Step(p) == \/ HasPending(p) \/ TryLock(p) \/ LockTimeout(p) \/ EnsureLedger(p)
           \/ Plan(p) \/ Apply(p) \/ Applied(p) \/ Report(p) \/ Unlock(p)
           \/ Decide(p) \/ Stamp(p) \/ Stamped(p)

Next == \E p \in Proc : \/ \E c \in Command : Start(p, c)
                        \/ Step(p)
                        \/ Fail(p)
                        \/ Crash(p)

Spec == Init /\ [][Next]_vars

(* A started command keeps being scheduled; nothing else is promised.      *)
Fairness == \A p \in Proc : WF_vars(Step(p))

FairSpec == Spec /\ Fairness

-----------------------------------------------------------------------------
(* The type invariant.  A ledger that exists starts with the sentinel row  *)
(* without which goose refuses to operate, and a command only ever plans   *)
(* versions that some build has a file for.                                *)
TypeOK ==
  /\ ledger \in Seq(0..MaxVersion)
  /\ ledger # <<>> => ledger[1] = 0
  /\ ran \in Seq(Version)
  /\ lock \in Proc \cup {NoProc}
  /\ pc \in [Proc -> PC]
  /\ op \in [Proc -> CommandLine]
  /\ todo \in [Proc -> SUBSET Version]
  /\ current \in [Proc -> 0..MaxVersion]
  /\ result \in [Proc -> Result]
  /\ runs \in [Proc -> 0..MaxRuns]
  /\ faults \in 0..MaxFaults

(* Migration bodies are executed in ascending version order, and so never  *)
(* twice, whichever instances start together, crash and start again, and   *)
(* whatever an operator stamps meanwhile: Run "applies every pending       *)
(* migration in order", and two instances "cannot both migrate".           *)
RanInOrder == \A i, j \in DOMAIN ran : i < j => ran[i] < ran[j]

(* Every version has one ledger row: it was executed once or stamped once, *)
(* never both.                                                             *)
RecordedOnce == IsInjective(ledger)

(* A Run that returned no error leaves all of its build's migrations on    *)
(* record, also when another instance did the work while it was waiting    *)
(* for the lock.                                                           *)
SuccessMeansCurrent ==
  \A p \in Proc : op[p].kind = "up" /\ result[p] = "ok" => Sources[p] \subseteq Recorded

(* A migration is executed by the holder of the lock, and only when every  *)
(* earlier version of that instance's build is on record: a migration that *)
(* failed blocks the later ones.                                           *)
NoSkipping ==
  [][ran' # ran => LET v == ran'[Len(ran')] IN
        /\ lock # NoProc
        /\ {u \in Sources[lock] : u < v} \subseteq Recorded]_vars

(* Every recorded version was recorded by a build that has, on record, all *)
(* that comes before it, whichever builds race and however a run or a      *)
(* baseline was cut short: goose refuses a version missing below a         *)
(* recorded one for good, so a build's own steps must never leave one.     *)
NoGaps ==
  \A v \in Recorded : \E p \in Proc :
     v \in Sources[p] /\ {u \in Sources[p] : u < v} \subseteq Recorded

(* A successful baseline has recorded everything up to its target and none *)
(* of it was executed: "record migrations up to n as applied without       *)
(* running them".                                                          *)
BaselineExact ==
  \A p \in Proc : op[p].kind = "baseline" /\ result[p] = "ok" =>
     /\ ToStamp(p) \subseteq Recorded
     /\ ToStamp(p) \cap Range(ran) = {}

(* Every command ends, and is not left holding the session lock: a crashed *)
(* or failed instance never blocks the start of the others for good.       *)
Finishes == \A p \in Proc : pc[p] # "idle" ~> pc[p] = "idle" /\ lock # p

(* migrate/CHANGELOG.md:36: baseline "refuses to stamp a database that     *)
(* already has migration history": when baseline inserts a row, the ledger *)
(* holds nothing but the sentinel and the rows this baseline inserted.     *)
StampsFreshDatabase ==
  [][\A p \in Proc : pc[p] = "stamp" /\ Len(ledger') > Len(ledger) /\ todo'[p] # todo[p] =>
        Recorded = ToStamp(p) \ todo[p]]_vars

(* What the package promises, for any mix of commands.                     *)
Confirmed == UNION {Sources[p] : p \in {q \in Proc : op[q].kind = "up" /\ result[q] = "ok"}}

History == INSTANCE SchemaHistory
             WITH history <- ran, recorded <- Recorded, confirmed <- Confirmed

(* The migrate package implements its promise.                             *)
ImplementsHistory == History!Spec
=============================================================================
