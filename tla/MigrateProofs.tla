---------------------------- MODULE MigrateProofs ----------------------------
(***************************************************************************)
(* What holds of the migrate package for any number of instances, builds,  *)
(* versions and commands: the order and uniqueness of the executed         *)
(* migrations, what a successful Run guarantees, what a baseline that runs *)
(* alone promises, and that the package implements SchemaHistory.          *)
(***************************************************************************)
EXTENDS MigrateOverlap, SequenceTheorems, TLAPS

USE DEF PC, Result, Kind, CommandLine, Version

(* A run holds the session lock from acquiring it to releasing it. *)
Locked == {"ensure", "read", "apply", "unlock"}

Holder == \A p \in Proc : pc[p] \in Locked => lock = p

(* Which command is where. *)
Place == \A p \in Proc : /\ pc[p] = "apply" => op[p].kind = "up"
                         /\ pc[p] \in {"decide", "stamp"} => op[p].kind = "baseline"
                         /\ pc[p] \in {"read", "apply", "decide", "stamp"} => ledger # <<>>
                         /\ pc[p] = "unlock" /\ result[p] = "none" => ledger # <<>>

(* What was executed is on record, so a plan made from the ledger is a     *)
(* plan made from the executed migrations.                                 *)
RanRecorded == \A i \in DOMAIN ran : ran[i] \in Range(ledger)

(* While a plan is carried out, all of it is newer than what was executed. *)
PlanIsNewer == \A p \in Proc : pc[p] = "apply" =>
                  \A v \in todo[p] : \A i \in DOMAIN ran : ran[i] < v

IInv == TypeOK /\ Holder /\ Place /\ RanRecorded /\ PlanIsNewer /\ RanInOrder

-----------------------------------------------------------------------------
(* Appending to a sequence: what the rows and the executed migrations do.  *)
LEMMA AppendFacts ==
  ASSUME NEW S, NEW s \in Seq(S), NEW v \in S
  PROVE  /\ Append(s, v) \in Seq(S)
         /\ Append(s, v) # <<>>
         /\ DOMAIN s = 1..Len(s)
         /\ Len(s) \in Nat
         /\ DOMAIN Append(s, v) = 1..(Len(s) + 1)
         /\ \A i \in 1..Len(s) : Append(s, v)[i] = s[i]
         /\ Append(s, v)[Len(s) + 1] = v
         /\ Range(Append(s, v)) = Range(s) \cup {v}
<1>1. /\ Append(s, v) \in Seq(S)
      /\ Append(s, v) # <<>>
      /\ Len(Append(s, v)) = Len(s) + 1
      /\ \A i \in 1..Len(s) : Append(s, v)[i] = s[i]
      /\ Append(s, v)[Len(s) + 1] = v
  BY AppendProperties
<1>2. DOMAIN s = 1..Len(s) /\ Len(s) \in Nat /\ DOMAIN Append(s, v) = 1..(Len(s) + 1)
  BY <1>1, LenProperties
<1>3. Range(Append(s, v)) = Range(s) \cup {v}
  <2>1. ASSUME NEW x \in Range(Append(s, v)) PROVE x \in Range(s) \cup {v}
    BY <1>1, <1>2 DEF Range
  <2>2. ASSUME NEW x \in Range(s) PROVE x \in Range(Append(s, v))
    BY <1>1, <1>2 DEF Range
  <2>3. v \in Range(Append(s, v))
    BY <1>1, <1>2 DEF Range
  <2> QED BY <2>1, <2>2, <2>3
<1> QED BY <1>1, <1>2, <1>3

(* What a ledger that exists looks like after goose has looked at it.      *)
LEMMA EnsuredFacts ==
  ASSUME TypeOK, VersionAssumption
  PROVE  /\ EnsuredLedger \in Seq(0..MaxVersion)
         /\ EnsuredLedger # <<>>
         /\ EnsuredLedger[1] = 0
         /\ Range(ledger) \subseteq Range(EnsuredLedger)
         /\ Range(EnsuredLedger) \ {0} = Range(ledger) \ {0}
<1>1. CASE ledger = <<>>
  <2>1. EnsuredLedger = <<0>>
    BY <1>1 DEF EnsuredLedger
  <2>2. 0 \in 0..MaxVersion
    BY DEF VersionAssumption
  <2>3. <<0>> \in Seq(0..MaxVersion) /\ <<0>>[1] = 0 /\ <<0>> # <<>>
    BY <2>2
  <2>4. Range(<<0>>) = {0} /\ Range(<<>>) = {}
    BY DEF Range
  <2> QED BY <1>1, <2>1, <2>3, <2>4
<1>2. CASE ledger # <<>>
  BY <1>2 DEF EnsuredLedger, TypeOK
<1> QED BY <1>1, <1>2

-----------------------------------------------------------------------------
(* The initial state satisfies the inductive invariant.                    *)
LEMMA InitInv ==
  ASSUME VersionAssumption, BoundAssumption, Init
  PROVE  IInv
<1> USE DEF Init, VersionAssumption, BoundAssumption
<1>1. TypeOK
  BY DEF TypeOK
<1>2. Holder /\ Place
  BY DEF Holder, Place, Locked
<1>3. RanRecorded /\ PlanIsNewer /\ RanInOrder
  BY DEF RanRecorded, PlanIsNewer, RanInOrder
<1> QED BY <1>1, <1>2, <1>3 DEF IInv

(* Steps that leave ledger, ran and todo alone preserve what relates them. *)
LEMMA QuietStep ==
  ASSUME IInv, UNCHANGED <<ledger, ran, todo>>,
         \A q \in Proc : pc'[q] = "apply" => pc[q] = "apply"
  PROVE  RanRecorded' /\ PlanIsNewer' /\ RanInOrder'
BY DEF IInv, RanRecorded, PlanIsNewer, RanInOrder, Range

(* Every step of every process preserves it. *)
LEMMA NextInv ==
  ASSUME ProcAssumption, VersionAssumption, SourcesAssumption, CommandAssumption,
         BoundAssumption, IInv, Next
  PROVE  IInv'
<1> USE DEF Goto, Finish
<1> PICK p \in Proc : \/ \E c \in Command : Start(p, c)
                      \/ Step(p) \/ Fail(p) \/ Crash(p)
  BY DEF Next
<1>type. TypeOK /\ Holder /\ Place
  BY DEF IInv
<1>1. ASSUME NEW c \in Command, Start(p, c) PROVE IInv'
  <2>0. c \in CommandLine
    BY DEF CommandAssumption
  <2>a. PICK l \in {"idle", "pending", "lock"}, r \in {"none", "refused"} :
           /\ pc' = [pc EXCEPT ![p] = l]
           /\ result' = [result EXCEPT ![p] = r]
    <3>1. CASE ValidArguments(c)
      BY <1>1, <3>1 DEF Start, Entry
    <3>2. CASE ~ValidArguments(c)
      BY <1>1, <3>2 DEF Start
    <3> QED BY <3>1, <3>2
  <2>b. /\ pc[p] = "idle" /\ runs[p] < MaxRuns
        /\ runs' = [runs EXCEPT ![p] = @ + 1]
        /\ op' = [op EXCEPT ![p] = c]
        /\ todo' = [todo EXCEPT ![p] = {}]
        /\ current' = [current EXCEPT ![p] = 0]
        /\ UNCHANGED <<ledger, ran, lock, faults>>
    BY <1>1 DEF Start
  <2>1. TypeOK'
    BY <2>0, <2>a, <2>b, <1>type, BoundAssumption, VersionAssumption
    DEF TypeOK, BoundAssumption, VersionAssumption
  <2>2. Holder' /\ Place'
    BY <2>a, <2>b, <1>type DEF TypeOK, Holder, Place, Locked
  <2>3. RanRecorded' /\ RanInOrder'
    BY <2>b DEF IInv, RanRecorded, RanInOrder, Range
  <2>4. PlanIsNewer'
    BY <2>a, <2>b, <1>type DEF TypeOK, IInv, PlanIsNewer
  <2> QED BY <2>1, <2>2, <2>3, <2>4 DEF IInv
<1>2. CASE HasPending(p)
  <2>1. TypeOK'
    BY <1>2, <1>type, EnsuredFacts DEF HasPending, TypeOK
  <2>2. Holder' /\ Place'
    BY <1>2, <1>type, EnsuredFacts DEF HasPending, TypeOK, Holder, Place, Locked
  <2>3. RanRecorded' /\ PlanIsNewer' /\ RanInOrder'
    BY <1>2, <1>type, EnsuredFacts
    DEF HasPending, TypeOK, IInv, RanRecorded, PlanIsNewer, RanInOrder
  <2> QED BY <2>1, <2>2, <2>3 DEF IInv
<1>3. CASE TryLock(p)
  <2>1. TypeOK'
    BY <1>3, <1>type DEF TryLock, TypeOK
  <2>2. Holder' /\ Place'
    BY <1>3, <1>type, ProcAssumption
    DEF TryLock, LockFree, TypeOK, Holder, Place, Locked, ProcAssumption
  <2>3. RanRecorded' /\ PlanIsNewer' /\ RanInOrder'
    BY <1>3, <1>type, QuietStep DEF TryLock, TypeOK
  <2> QED BY <2>1, <2>2, <2>3 DEF IInv
<1>4. CASE LockTimeout(p)
  <2>1. TypeOK'
    BY <1>4, <1>type DEF LockTimeout, TypeOK
  <2>2. Holder' /\ Place'
    BY <1>4, <1>type DEF LockTimeout, TypeOK, Holder, Place, Locked
  <2>3. RanRecorded' /\ PlanIsNewer' /\ RanInOrder'
    BY <1>4, <1>type, QuietStep DEF LockTimeout, TypeOK
  <2> QED BY <2>1, <2>2, <2>3 DEF IInv
<1>5. CASE EnsureLedger(p)
  <2>1. TypeOK'
    BY <1>5, <1>type, EnsuredFacts DEF EnsureLedger, TypeOK
  <2>2. Holder' /\ Place'
    BY <1>5, <1>type, EnsuredFacts DEF EnsureLedger, TypeOK, Holder, Place, Locked
  <2>3. RanRecorded' /\ PlanIsNewer' /\ RanInOrder'
    BY <1>5, <1>type, EnsuredFacts
    DEF EnsureLedger, TypeOK, IInv, RanRecorded, PlanIsNewer, RanInOrder
  <2> QED BY <2>1, <2>2, <2>3 DEF IInv
<1>6. CASE Plan(p)
  <2>0. Pending(p) \in SUBSET Version
    BY SourcesAssumption DEF Pending, SourcesAssumption
  <2>1. TypeOK'
    <3>1. CASE OutOfOrder(p) # {}
      BY <1>6, <1>type, <3>1 DEF Plan, TypeOK
    <3>2. CASE OutOfOrder(p) = {}
      <4>1. todo' = [todo EXCEPT ![p] = Pending(p)]
        BY <1>6, <3>2 DEF Plan
      <4>2. todo' \in [Proc -> SUBSET Version]
        BY <4>1, <2>0, <1>type, Zenon DEF TypeOK
      <4> QED BY <1>6, <1>type, <3>2, <4>2 DEF Plan, TypeOK
    <3> QED BY <3>1, <3>2
  <2>2. Holder' /\ Place'
    BY <1>6, <1>type DEF Plan, TypeOK, Holder, Place, Locked
  <2>3. ASSUME NEW v \in Pending(p), NEW i \in DOMAIN ran PROVE ran[i] < v
    BY DEF Pending, IInv, RanRecorded
  <2>4. RanRecorded' /\ RanInOrder'
    BY <1>6 DEF Plan, IInv, RanRecorded, RanInOrder, Range
  <2>5. ASSUME NEW q \in Proc, pc'[q] = "apply" PROVE \A v \in todo'[q] : \A i \in DOMAIN ran' : ran'[i] < v
    <3>1. CASE q = p
      BY <1>6, <1>type, <2>3, <2>5, <3>1 DEF Plan, TypeOK
    <3>2. CASE q # p
      BY <1>6, <1>type, <2>5, <3>2 DEF Plan, TypeOK, IInv, PlanIsNewer
    <3> QED BY <3>1, <3>2
  <2> QED BY <2>1, <2>2, <2>4, <2>5 DEF IInv, PlanIsNewer
<1>7. CASE Apply(p)
  <2>0. PICK v \in todo[p] : /\ IsOldest(v, todo[p])
                             /\ ran' = Append(ran, v)
                             /\ ledger' = Append(ledger, v)
                             /\ todo' = [todo EXCEPT ![p] = @ \ {v}]
    BY <1>7 DEF Apply, Record
  <2>a. /\ v \in Version /\ v \in 0..MaxVersion
        /\ ran \in Seq(Version) /\ ledger \in Seq(0..MaxVersion)
    BY <1>type, VersionAssumption DEF TypeOK, VersionAssumption
  <2>b. /\ ran' \in Seq(Version)
        /\ DOMAIN ran = 1..Len(ran) /\ Len(ran) \in Nat
        /\ DOMAIN ran' = 1..(Len(ran) + 1)
        /\ \A i \in 1..Len(ran) : ran'[i] = ran[i]
        /\ ran'[Len(ran) + 1] = v
    BY <2>0, <2>a, AppendFacts
  <2>c. /\ ledger' \in Seq(0..MaxVersion)
        /\ ledger' # <<>>
        /\ ledger # <<>> => ledger'[1] = ledger[1]
        /\ ledger = <<>> => ledger'[1] = v
        /\ Range(ledger') = Range(ledger) \cup {v}
    <3>1. Len(ledger) \in Nat /\ (ledger # <<>> => 1 \in 1..Len(ledger)) /\ (ledger = <<>> => Len(ledger) = 0)
      BY <2>a
    <3>2. /\ ledger' \in Seq(0..MaxVersion)
          /\ ledger' # <<>>
          /\ \A i \in 1..Len(ledger) : ledger'[i] = ledger[i]
          /\ ledger'[Len(ledger) + 1] = v
          /\ Range(ledger') = Range(ledger) \cup {v}
      <4> HIDE DEF Version
      <4> DEFINE S == 0..MaxVersion
      <4>1. ledger \in Seq(S) /\ v \in S
        BY <2>a
      <4> HIDE DEF S
      <4>2. /\ Append(ledger, v) \in Seq(S)
            /\ Append(ledger, v) # <<>>
            /\ \A i \in 1..Len(ledger) : Append(ledger, v)[i] = ledger[i]
            /\ Append(ledger, v)[Len(ledger) + 1] = v
            /\ Range(Append(ledger, v)) = Range(ledger) \cup {v}
        BY <4>1, AppendFacts
      <4> QED BY <2>0, <4>2 DEF S
    <3> QED BY <3>1, <3>2
  <2>d. pc[p] = "apply" /\ UNCHANGED <<lock, pc, op, current, result, runs, faults>>
    BY <1>7 DEF Apply
  <2>e. lock = p /\ \A q \in Proc : pc[q] = "apply" => q = p
    BY <2>d, <1>type DEF Holder, Locked
  <2>1. TypeOK'
    <3>1. ledger' # <<>> => ledger'[1] = 0
      BY <2>c, <2>d, <1>type DEF TypeOK, Place
    <3> QED BY <2>0, <2>b, <2>c, <2>d, <3>1, <1>type DEF TypeOK
  <2>2. Holder' /\ Place'
    BY <2>c, <2>d, <1>type DEF TypeOK, Holder, Place
  <2>3. RanRecorded'
    BY <2>b, <2>c DEF IInv, RanRecorded
  <2>4. RanInOrder'
    <3>1. \A i \in 1..Len(ran) : ran[i] < v
      BY <2>b, <2>d DEF IInv, PlanIsNewer
    <3>2. ASSUME NEW i \in DOMAIN ran', NEW j \in DOMAIN ran', i < j PROVE ran'[i] < ran'[j]
      <4>1. i \in 1..Len(ran)
        BY <2>b, <3>2
      <4>2. CASE j \in 1..Len(ran)
        BY <2>b, <3>2, <4>1, <4>2 DEF IInv, RanInOrder
      <4>3. CASE j = Len(ran) + 1
        BY <2>b, <3>1, <4>1, <4>3
      <4> QED BY <2>b, <4>2, <4>3
    <3> QED BY <3>2 DEF RanInOrder
  <2>5. ASSUME NEW q \in Proc, pc'[q] = "apply", NEW u \in todo'[q], NEW i \in DOMAIN ran'
        PROVE  ran'[i] < u
    <3>1. q = p /\ u \in todo[p] /\ u # v
      BY <2>0, <2>d, <2>e, <2>5, <1>type DEF TypeOK
    <3>2. v < u
      BY <2>0, <2>a, <3>1, <1>type DEF IsOldest, TypeOK
    <3>3. CASE i \in DOMAIN ran
      BY <2>b, <2>d, <3>1, <3>3 DEF IInv, PlanIsNewer
    <3>4. CASE i = Len(ran) + 1
      BY <2>b, <3>2, <3>4
    <3> QED BY <2>b, <3>3, <3>4
  <2> QED BY <2>1, <2>2, <2>3, <2>4, <2>5 DEF IInv, PlanIsNewer
<1>8. CASE Applied(p)
  <2>1. TypeOK'
    BY <1>8, <1>type DEF Applied, TypeOK
  <2>2. Holder' /\ Place'
    BY <1>8, <1>type DEF Applied, TypeOK, Holder, Place, Locked
  <2>3. RanRecorded' /\ PlanIsNewer' /\ RanInOrder'
    BY <1>8, <1>type, QuietStep DEF Applied, TypeOK
  <2> QED BY <2>1, <2>2, <2>3 DEF IInv
<1>9. CASE Report(p)
  <2>0. PICK v \in Range(ledger) : current' = [current EXCEPT ![p] = v]
    BY <1>9 DEF Report
  <2>1. TypeOK'
    <3>1. v \in 0..MaxVersion
      BY <1>type DEF TypeOK, Range
    <3> QED BY <1>9, <1>type, <2>0, <3>1 DEF Report, TypeOK
  <2>2. Holder' /\ Place'
    BY <1>9, <1>type DEF Report, TypeOK, Holder, Place, Locked
  <2>3. RanRecorded' /\ PlanIsNewer' /\ RanInOrder'
    BY <1>9, <1>type, QuietStep DEF Report, TypeOK
  <2> QED BY <2>1, <2>2, <2>3 DEF IInv
<1>10. CASE Unlock(p)
  <2>1. TypeOK'
    BY <1>10, <1>type DEF Unlock, TypeOK
  <2>2. Holder' /\ Place'
    BY <1>10, <1>type DEF Unlock, TypeOK, Holder, Place, Locked
  <2>3. RanRecorded' /\ PlanIsNewer' /\ RanInOrder'
    BY <1>10, <1>type, QuietStep DEF Unlock, TypeOK
  <2> QED BY <2>1, <2>2, <2>3 DEF IInv
<1>11. CASE Decide(p)
  <2>0. ToStamp(p) \in SUBSET Version
    BY SourcesAssumption DEF ToStamp, SourcesAssumption
  <2>1. TypeOK'
    <3>1. CASE Refuses(p)
      BY <1>11, <1>type, <3>1 DEF Decide, TypeOK
    <3>2. CASE ~Refuses(p)
      <4>1. todo' = [todo EXCEPT ![p] = ToStamp(p)]
        BY <1>11, <3>2 DEF Decide
      <4>2. todo' \in [Proc -> SUBSET Version]
        BY <4>1, <2>0, <1>type, Zenon DEF TypeOK
      <4> QED BY <1>11, <1>type, <3>2, <4>2 DEF Decide, TypeOK
    <3> QED BY <3>1, <3>2
  <2>2. Holder' /\ Place'
    BY <1>11, <1>type DEF Decide, TypeOK, Holder, Place, Locked
  <2>3. RanRecorded' /\ RanInOrder'
    BY <1>11 DEF Decide, IInv, RanRecorded, RanInOrder, Range
  <2>4. PlanIsNewer'
    <3>1. CASE Refuses(p)
      BY <1>11, <1>type, <3>1 DEF Decide, TypeOK, IInv, PlanIsNewer
    <3>2. CASE ~Refuses(p)
      BY <1>11, <1>type, <3>2 DEF Decide, TypeOK, IInv, PlanIsNewer
    <3> QED BY <3>1, <3>2
  <2> QED BY <2>1, <2>2, <2>3, <2>4 DEF IInv
<1>12. CASE Stamp(p)
  <2>0. PICK v \in todo[p] : /\ ledger' = Append(ledger, v)
                             /\ todo' = [todo EXCEPT ![p] = @ \ {v}]
    BY <1>12 DEF Stamp, Record
  <2>a. v \in 0..MaxVersion /\ ledger \in Seq(0..MaxVersion) /\ ledger # <<>> /\ ledger[1] = 0
    BY <1>12, <1>type, VersionAssumption DEF Stamp, TypeOK, Place, VersionAssumption
  <2>b. 1 \in 1..Len(ledger)
    BY <2>a
  <2>c. /\ ledger' \in Seq(0..MaxVersion)
        /\ ledger' # <<>>
        /\ ledger'[1] = 0
        /\ Range(ledger') = Range(ledger) \cup {v}
    <3> DEFINE S == 0..MaxVersion
    <3>1. ledger \in Seq(S) /\ v \in S
      BY <2>a
    <3> HIDE DEF S
    <3>2. /\ Append(ledger, v) \in Seq(S)
          /\ Append(ledger, v) # <<>>
          /\ \A i \in 1..Len(ledger) : Append(ledger, v)[i] = ledger[i]
          /\ Range(Append(ledger, v)) = Range(ledger) \cup {v}
      BY <3>1, AppendFacts
    <3> QED BY <2>0, <2>a, <2>b, <3>2 DEF S
  <2>1. TypeOK'
    BY <1>12, <2>0, <2>c, <1>type DEF Stamp, TypeOK
  <2>2. Holder' /\ Place'
    BY <1>12, <2>c, <1>type DEF Stamp, TypeOK, Holder, Place
  <2>3. RanRecorded' /\ PlanIsNewer' /\ RanInOrder'
    BY <1>12, <2>0, <2>c, <1>type
    DEF Stamp, TypeOK, IInv, RanRecorded, PlanIsNewer, RanInOrder
  <2> QED BY <2>1, <2>2, <2>3 DEF IInv
<1>13. CASE Stamped(p)
  <2>1. TypeOK'
    BY <1>13, <1>type DEF Stamped, TypeOK
  <2>2. Holder' /\ Place'
    BY <1>13, <1>type DEF Stamped, TypeOK, Holder, Place, Locked
  <2>3. RanRecorded' /\ PlanIsNewer' /\ RanInOrder'
    BY <1>13, <1>type, QuietStep DEF Stamped, TypeOK
  <2> QED BY <2>1, <2>2, <2>3 DEF IInv
<1>14. CASE Fail(p)
  <2>1. TypeOK'
    BY <1>14, <1>type, BoundAssumption DEF Fail, TypeOK, BoundAssumption
  <2>2. Holder' /\ Place'
    BY <1>14, <1>type DEF Fail, TypeOK, Holder, Place, Locked
  <2>3. RanRecorded' /\ PlanIsNewer' /\ RanInOrder'
    BY <1>14, <1>type, QuietStep DEF Fail, TypeOK
  <2> QED BY <2>1, <2>2, <2>3 DEF IInv
<1>15. CASE Crash(p)
  <2>1. TypeOK'
    BY <1>15, <1>type, BoundAssumption DEF Crash, TypeOK, BoundAssumption
  <2>2. Holder' /\ Place'
    BY <1>15, <1>type DEF Crash, TypeOK, Holder, Place, Locked
  <2>3. RanRecorded' /\ PlanIsNewer' /\ RanInOrder'
    BY <1>15, <1>type, QuietStep DEF Crash, TypeOK
  <2> QED BY <2>1, <2>2, <2>3 DEF IInv
<1> QED
  BY <1>1, <1>2, <1>3, <1>4, <1>5, <1>6, <1>7, <1>8, <1>9, <1>10, <1>11, <1>12,
     <1>13, <1>14, <1>15 DEF Step

(* Steps that change nothing preserve it.                                  *)
LEMMA StutterInv == ASSUME IInv, UNCHANGED vars PROVE IInv'
BY DEF vars, IInv, TypeOK, Holder, Place, RanRecorded, PlanIsNewer, RanInOrder, Range

-----------------------------------------------------------------------------
(* The inductive invariant holds in every reachable state.                 *)
THEOREM InductiveInvariant == Spec => []IInv
<1>1. Init => IInv
  BY InitInv, VersionAssumption, BoundAssumption
<1>2. IInv /\ [Next]_vars => IInv'
  BY NextInv, StutterInv, ProcAssumption, VersionAssumption, SourcesAssumption,
     CommandAssumption, BoundAssumption
<1> QED BY <1>1, <1>2, PTL DEF Spec

(* The variables keep their types, and the ledger its sentinel row.        *)
THEOREM TypeCorrect == Spec => []TypeOK
<1>1. IInv => TypeOK
  BY DEF IInv
<1> QED BY <1>1, InductiveInvariant, PTL

(* No interleaving of instances, operators, failures and crashes executes  *)
(* a migration twice or out of order.                                      *)
THEOREM MigrationsRunInOrder == Spec => []RanInOrder
<1>1. IInv => RanInOrder
  BY DEF IInv
<1> QED BY <1>1, InductiveInvariant, PTL

-----------------------------------------------------------------------------
(* What a run still has to do is all that its build lacks: with it, a run  *)
(* that reaches the end of its plan has nothing left to record.            *)
PlanCovers == \A p \in Proc : pc[p] = "apply" => Sources[p] \ todo[p] \subseteq Recorded

SInv == IInv /\ PlanCovers /\ SuccessMeansCurrent

(* How a step changes the record: apart from executing or stamping one     *)
(* version, it changes neither the record nor the executed migrations.     *)
LEMMA RecordStep ==
  ASSUME VersionAssumption, IInv, NEW p \in Proc, NEW v \in todo[p],
         ledger' = Append(ledger, v)
  PROVE  Recorded' = Recorded \cup {v} /\ v \in Version
<1> DEFINE S == 0..MaxVersion
<1>1. v \in Version /\ v # 0 /\ ledger \in Seq(S) /\ v \in S
  BY DEF IInv, TypeOK, VersionAssumption
<1> HIDE DEF S
<1>2. Range(Append(ledger, v)) = Range(ledger) \cup {v}
  BY <1>1, AppendFacts
<1> QED BY <1>1, <1>2 DEF Recorded

(* Creating the ledger records no migration.                               *)
LEMMA EnsuredRecord ==
  ASSUME VersionAssumption, IInv, ledger' = EnsuredLedger
  PROVE  Recorded' = Recorded
BY EnsuredFacts DEF IInv, Recorded

(* The plan of a run covers what its build lacks when it is made ...       *)
LEMMA PlanComplete ==
  ASSUME VersionAssumption, SourcesAssumption, IInv, NEW p \in Proc, OutOfOrder(p) = {}
  PROVE  Sources[p] \ Pending(p) \subseteq Recorded
<1> SUFFICES ASSUME NEW v \in Sources[p], v \notin Pending(p), v \notin Recorded
             PROVE  FALSE
  OBVIOUS
<1>1. v \in Version
  BY DEF SourcesAssumption
<1>2. PICK u \in Range(ledger) : ~(u < v)
  BY DEF Pending
<1>3. u \in 0..MaxVersion
  BY DEF IInv, TypeOK, Range
<1>4. u \in Recorded /\ v < u
  BY <1>1, <1>2, <1>3, VersionAssumption DEF Recorded, VersionAssumption
<1> QED BY <1>4 DEF OutOfOrder

(* ... and stays complete, so success is reported of a current schema.     *)
LEMMA NextSuccess ==
  ASSUME ProcAssumption, VersionAssumption, SourcesAssumption, CommandAssumption,
         BoundAssumption, SInv, Next
  PROVE  PlanCovers' /\ SuccessMeansCurrent'
<1> USE DEF Goto, Finish, SInv
<1> PICK p \in Proc : \/ \E c \in Command : Start(p, c)
                      \/ Step(p) \/ Fail(p) \/ Crash(p)
  BY DEF Next
<1>type. TypeOK /\ Place
  BY DEF IInv
<1>1. ASSUME NEW c \in Command, Start(p, c) PROVE PlanCovers' /\ SuccessMeansCurrent'
  <2>1. UNCHANGED ledger /\ op' = [op EXCEPT ![p] = c] /\ todo' = [todo EXCEPT ![p] = {}]
    BY <1>1 DEF Start
  <2>2. PICK l \in {"idle", "pending", "lock"}, r \in {"none", "refused"} :
           pc' = [pc EXCEPT ![p] = l] /\ result' = [result EXCEPT ![p] = r]
    <3>1. CASE ValidArguments(c)
      BY <1>1, <3>1 DEF Start, Entry
    <3>2. CASE ~ValidArguments(c)
      BY <1>1, <3>2 DEF Start
    <3> QED BY <3>1, <3>2
  <2>3. PlanCovers'
    BY <2>1, <2>2, <1>type DEF PlanCovers, TypeOK, Recorded
  <2>4. SuccessMeansCurrent'
    BY <2>1, <2>2, <1>type DEF SuccessMeansCurrent, TypeOK, Recorded
  <2> QED BY <2>3, <2>4
<1>2. CASE HasPending(p) \/ EnsureLedger(p)
  <2>1. Recorded' = Recorded
    BY <1>2, EnsuredRecord DEF HasPending, EnsureLedger
  <2>2. PlanCovers'
    BY <1>2, <2>1, <1>type DEF PlanCovers, TypeOK, HasPending, EnsureLedger
  <2>3. SuccessMeansCurrent'
    BY <1>2, <2>1, <1>type DEF SuccessMeansCurrent, TypeOK, HasPending, EnsureLedger
  <2> QED BY <2>2, <2>3
<1>3. CASE TryLock(p) \/ LockTimeout(p) \/ Report(p) \/ Unlock(p) \/ Stamped(p) \/ Fail(p) \/ Crash(p)
  <2>1. UNCHANGED <<ledger, todo, op>> /\ Recorded' = Recorded
    BY <1>3 DEF TryLock, LockTimeout, Report, Unlock, Stamped, Fail, Crash, Recorded
  <2>2. \A q \in Proc : pc'[q] = "apply" => pc[q] = "apply"
    BY <1>3, <1>type DEF TypeOK, TryLock, LockTimeout, Report, Unlock, Stamped, Fail, Crash
  <2>3. \A q \in Proc : result'[q] = "ok" /\ op[q].kind = "up" => result[q] = "ok"
    BY <1>3, <1>type
    DEF TypeOK, Place, TryLock, LockTimeout, Report, Unlock, Stamped, Fail, Crash
  <2> QED BY <2>1, <2>2, <2>3 DEF PlanCovers, SuccessMeansCurrent
<1>4. CASE Plan(p)
  <2>1. UNCHANGED <<ledger, op>> /\ Recorded' = Recorded
    BY <1>4 DEF Plan, Recorded
  <2>2. CASE OutOfOrder(p) # {}
    BY <1>4, <2>1, <2>2, <1>type DEF Plan, TypeOK, PlanCovers, SuccessMeansCurrent
  <2>3. CASE OutOfOrder(p) = {}
    <3>1. Sources[p] \ Pending(p) \subseteq Recorded
      BY <2>3, PlanComplete
    <3>2. /\ todo' = [todo EXCEPT ![p] = Pending(p)]
          /\ pc' = [pc EXCEPT ![p] = "apply"]
          /\ UNCHANGED result
      BY <1>4, <2>3 DEF Plan
    <3>3. PlanCovers'
      BY <2>1, <3>1, <3>2, <1>type DEF PlanCovers, TypeOK
    <3> QED BY <2>1, <3>2, <3>3 DEF SuccessMeansCurrent
  <2> QED BY <2>2, <2>3
<1>5. CASE Apply(p) \/ Stamp(p)
  <2>1. PICK v \in todo[p] : ledger' = Append(ledger, v) /\ todo' = [todo EXCEPT ![p] = @ \ {v}]
    BY <1>5 DEF Apply, Stamp, Record
  <2>2. Recorded' = Recorded \cup {v}
    BY <2>1, RecordStep
  <2>3. UNCHANGED <<pc, op, result>>
    BY <1>5 DEF Apply, Stamp
  <2>4. PlanCovers'
    BY <2>1, <2>2, <2>3, <1>type DEF PlanCovers, TypeOK
  <2> QED BY <2>2, <2>3, <2>4 DEF SuccessMeansCurrent
<1>6. CASE Applied(p)
  <2>1. Sources[p] \subseteq Recorded
    BY <1>6 DEF Applied, PlanCovers
  <2>2. UNCHANGED <<ledger, todo, op>> /\ Recorded' = Recorded
    BY <1>6 DEF Applied, Recorded
  <2> QED BY <1>6, <2>1, <2>2, <1>type DEF Applied, TypeOK, PlanCovers, SuccessMeansCurrent
<1>7. CASE Decide(p)
  <2>1. UNCHANGED <<ledger, op>> /\ Recorded' = Recorded /\ pc[p] = "decide"
    BY <1>7 DEF Decide, Recorded
  <2>2. CASE Refuses(p)
    BY <1>7, <2>1, <2>2, <1>type DEF Decide, TypeOK, PlanCovers, SuccessMeansCurrent
  <2>3. CASE ~Refuses(p)
    BY <1>7, <2>1, <2>3, <1>type DEF Decide, TypeOK, PlanCovers, SuccessMeansCurrent
  <2> QED BY <2>2, <2>3
<1> QED BY <1>1, <1>2, <1>3, <1>4, <1>5, <1>6, <1>7 DEF Step

(* Steps that change nothing preserve what success means.                  *)
LEMMA StutterSuccess == ASSUME SInv, UNCHANGED vars PROVE SInv'
<1>1. IInv'
  BY StutterInv DEF SInv
<1> QED BY <1>1 DEF SInv, vars, PlanCovers, SuccessMeansCurrent, Recorded

(* In every reachable state, whoever is told of success has its build on   *)
(* record, and whoever is still applying has planned all that is missing.  *)
THEOREM SuccessInvariant == Spec => []SInv
<1>1. Init => SInv
  BY InitInv, VersionAssumption, BoundAssumption
  DEF SInv, Init, PlanCovers, SuccessMeansCurrent
<1>2. SInv /\ [Next]_vars => SInv'
  <2>1. ASSUME SInv, Next PROVE SInv'
    BY <2>1, NextInv, NextSuccess, ProcAssumption, VersionAssumption, SourcesAssumption,
       CommandAssumption, BoundAssumption DEF SInv
  <2> QED BY <2>1, StutterSuccess
<1> QED BY <1>1, <1>2, PTL DEF Spec

(* A Run that returned no error leaves its build's migrations on record.   *)
THEOREM SuccessIsCurrent == Spec => []SuccessMeansCurrent
<1>1. SInv => SuccessMeansCurrent
  BY DEF SInv
<1> QED BY <1>1, SuccessInvariant, PTL

(* What NoSkipping says of one step. *)
InTurn == ran' # ran => LET v == ran'[Len(ran')] IN
             /\ lock # NoProc
             /\ {u \in Sources[lock] : u < v} \subseteq Recorded

(* Only Apply executes a migration, the oldest of a plan that covers all   *)
(* that its build lacks.                                                   *)
LEMMA StepInTurn ==
  ASSUME ProcAssumption, VersionAssumption, SourcesAssumption, SInv, Next
  PROVE  InTurn
<1> SUFFICES ASSUME ran' # ran
             PROVE  LET v == ran'[Len(ran')] IN
                       /\ lock # NoProc
                       /\ {u \in Sources[lock] : u < v} \subseteq Recorded
  BY DEF InTurn
<1>type. TypeOK /\ Holder /\ PlanCovers
  BY DEF SInv, IInv
<1>1. PICK p \in Proc : Apply(p)
  BY DEF Next, Step, Start, HasPending, TryLock, LockTimeout, EnsureLedger, Plan, Applied,
         Report, Unlock, Decide, Stamp, Stamped, Fail, Crash
<1>2. lock = p /\ p # NoProc
  BY <1>1, <1>type, ProcAssumption DEF Apply, Holder, Locked, ProcAssumption
<1>3. PICK v \in todo[p] : IsOldest(v, todo[p]) /\ ran' = Append(ran, v)
  BY <1>1 DEF Apply
<1>4. ran \in Seq(Version) /\ v \in Version /\ todo[p] \subseteq Version
  BY <1>3, <1>type DEF TypeOK
<1>5. ran'[Len(ran')] = v
  <2> HIDE DEF Version
  <2> QED BY <1>3, <1>4
<1>6. ASSUME NEW u \in Sources[p], u < v PROVE u \in Recorded
  <2>1. u \in Version
    BY SourcesAssumption DEF SourcesAssumption
  <2>2. u \notin todo[p]
    BY <1>3, <1>4, <1>6, <2>1, VersionAssumption DEF IsOldest, VersionAssumption
  <2>3. u \in Recorded \cup todo[p]
    BY <1>1, <1>type DEF Apply, PlanCovers
  <2> QED BY <2>2, <2>3
<1> QED BY <1>2, <1>5, <1>6

(* A migration is executed under the lock and after all the earlier ones   *)
(* of its build: a failed or late migration blocks what comes after it.    *)
THEOREM MigrationsAreNotSkipped == Spec => NoSkipping
<1>1. SInv /\ [Next]_vars => [InTurn]_vars
  BY StepInTurn, ProcAssumption, VersionAssumption, SourcesAssumption
<1>2. Spec => [][InTurn]_vars
  BY <1>1, SuccessInvariant, PTL DEF Spec
<1> QED BY <1>2, PTL DEF NoSkipping, InTurn

-----------------------------------------------------------------------------
(* An instance only plans what its own build has. *)
PlanOwn == \A p \in Proc : pc[p] = "apply" => todo[p] \subseteq Sources[p]

(* A baseline stamps from the oldest on, so that all it has to stamp is    *)
(* either still to do or on record, whoever recorded it.                   *)
StampCovers == \A p \in Proc : pc[p] = "stamp" =>
                  todo[p] \subseteq ToStamp(p) /\ ToStamp(p) \ todo[p] \subseteq Recorded

GInv == SInv /\ PlanOwn /\ StampCovers /\ NoGaps

(* One version added to the record leaves no gap if all that is earlier in *)
(* the build was on record before.                                         *)
LEMMA GapFree ==
  ASSUME NoGaps, NEW p \in Proc, NEW v \in Sources[p],
         Recorded' = Recorded \cup {v},
         \A u \in Sources[p] : u < v => u \in Recorded
  PROVE  NoGaps'
<1> SUFFICES ASSUME NEW w \in Recorded'
             PROVE  \E q \in Proc : w \in Sources[q] /\ {u \in Sources[q] : u < w} \subseteq Recorded'
  BY DEF NoGaps
<1>1. CASE w \in Recorded
  <2>1. PICK q \in Proc : w \in Sources[q] /\ {u \in Sources[q] : u < w} \subseteq Recorded
    BY <1>1 DEF NoGaps
  <2> QED BY <2>1
<1>2. CASE w = v
  BY <1>2
<1> QED BY <1>1, <1>2

(* Every step keeps what a baseline has done and the record without gaps.  *)
LEMMA NextGaps ==
  ASSUME ProcAssumption, VersionAssumption, SourcesAssumption, CommandAssumption,
         BoundAssumption, GInv, Next
  PROVE  PlanOwn' /\ StampCovers' /\ NoGaps'
<1> USE DEF Goto, Finish
<1> PICK p \in Proc : \/ \E c \in Command : Start(p, c)
                      \/ Step(p) \/ Fail(p) \/ Crash(p)
  BY DEF Next
<1>type. TypeOK /\ Place /\ IInv /\ PlanCovers /\ PlanOwn /\ StampCovers /\ NoGaps
  BY DEF GInv, SInv, IInv
<1>1. ASSUME NEW c \in Command, Start(p, c) PROVE PlanOwn' /\ StampCovers' /\ NoGaps'
  <2>1. UNCHANGED ledger /\ op' = [op EXCEPT ![p] = c] /\ todo' = [todo EXCEPT ![p] = {}]
    BY <1>1 DEF Start
  <2>2. PICK l \in {"idle", "pending", "lock"} : pc' = [pc EXCEPT ![p] = l]
    <3>1. CASE ValidArguments(c)
      BY <1>1, <3>1 DEF Start, Entry
    <3>2. CASE ~ValidArguments(c)
      BY <1>1, <3>2 DEF Start
    <3> QED BY <3>1, <3>2
  <2>3. PlanOwn' /\ StampCovers'
    BY <2>1, <2>2, <1>type DEF PlanOwn, StampCovers, ToStamp, TypeOK, Recorded
  <2> QED BY <2>1, <2>3, <1>type DEF NoGaps, Recorded
<1>2. CASE HasPending(p) \/ EnsureLedger(p)
  <2>1. Recorded' = Recorded
    BY <1>2, <1>type, EnsuredRecord DEF HasPending, EnsureLedger
  <2>2. PlanOwn' /\ StampCovers'
    BY <1>2, <2>1, <1>type DEF PlanOwn, StampCovers, ToStamp, TypeOK, HasPending, EnsureLedger
  <2> QED BY <2>1, <2>2, <1>type DEF NoGaps
<1>3. CASE \/ TryLock(p) \/ LockTimeout(p) \/ Report(p) \/ Unlock(p) \/ Stamped(p)
           \/ Applied(p) \/ Fail(p) \/ Crash(p)
  <2>1. UNCHANGED <<ledger, todo, op>> /\ Recorded' = Recorded
    BY <1>3 DEF TryLock, LockTimeout, Report, Unlock, Stamped, Applied, Fail, Crash, Recorded
  <2>2. \A q \in Proc : (pc'[q] = "stamp" => pc[q] = "stamp") /\ (pc'[q] = "apply" => pc[q] = "apply")
    BY <1>3, <1>type
    DEF TypeOK, TryLock, LockTimeout, Report, Unlock, Stamped, Applied, Fail, Crash
  <2> QED BY <2>1, <2>2, <1>type DEF PlanOwn, StampCovers, ToStamp, NoGaps
<1>4. CASE Plan(p)
  <2>1. UNCHANGED <<ledger, op>> /\ Recorded' = Recorded /\ pc[p] = "read"
    BY <1>4 DEF Plan, Recorded
  <2>2. \A q \in Proc : pc'[q] = "stamp" => pc[q] = "stamp" /\ q # p
    <3>1. PICK l \in {"unlock", "apply"} : pc' = [pc EXCEPT ![p] = l]
      <4>1. CASE OutOfOrder(p) # {}
        BY <1>4, <4>1 DEF Plan
      <4>2. CASE OutOfOrder(p) = {}
        BY <1>4, <4>2 DEF Plan
      <4> QED BY <4>1, <4>2
    <3> QED BY <3>1, <1>type DEF TypeOK
  <2>3. \A q \in Proc : q # p => todo'[q] = todo[q]
    <3>1. CASE OutOfOrder(p) # {}
      BY <1>4, <3>1 DEF Plan
    <3>2. CASE OutOfOrder(p) = {}
      BY <1>4, <3>2, <1>type DEF Plan, TypeOK
    <3> QED BY <3>1, <3>2
  <2>4. PlanOwn'
    <3>1. CASE OutOfOrder(p) # {}
      BY <1>4, <3>1, <1>type DEF Plan, PlanOwn, TypeOK
    <3>2. CASE OutOfOrder(p) = {}
      <4>1. todo' = [todo EXCEPT ![p] = Pending(p)] /\ pc' = [pc EXCEPT ![p] = "apply"]
        BY <1>4, <3>2 DEF Plan
      <4>2. Pending(p) \subseteq Sources[p]
        BY DEF Pending
      <4> QED BY <4>1, <4>2, <1>type DEF PlanOwn, TypeOK
    <3> QED BY <3>1, <3>2
  <2> QED BY <2>1, <2>2, <2>3, <2>4, <1>type DEF StampCovers, ToStamp, NoGaps
<1>5. CASE Apply(p) \/ Stamp(p)
  <2>1. PICK v \in todo[p] : /\ IsOldest(v, todo[p])
                             /\ ledger' = Append(ledger, v)
                             /\ todo' = [todo EXCEPT ![p] = @ \ {v}]
    BY <1>5 DEF Apply, Stamp, Record
  <2>2. Recorded' = Recorded \cup {v} /\ v \in Version
    BY <2>1, <1>type, RecordStep
  <2>3. UNCHANGED <<pc, op>>
    BY <1>5 DEF Apply, Stamp
  <2>4. PlanOwn' /\ StampCovers'
    BY <2>1, <2>2, <2>3, <1>type DEF PlanOwn, StampCovers, ToStamp, TypeOK
  <2>5. ASSUME NEW u \in Sources[p], u < v PROVE u \in Recorded
    <3>1. u \in Version /\ u \notin todo[p]
      BY <2>1, <2>2, <2>5, SourcesAssumption, VersionAssumption
      DEF IsOldest, SourcesAssumption, VersionAssumption
    <3>2. CASE Apply(p)
      BY <3>1, <3>2, <1>type DEF Apply, PlanCovers
    <3>3. CASE Stamp(p)
      <4>1. v \in ToStamp(p) /\ ToStamp(p) \ todo[p] \subseteq Recorded
        BY <3>3, <1>type DEF Stamp, StampCovers
      <4>2. op[p].target \in Int
        BY <1>type DEF TypeOK
      <4>3. u \in ToStamp(p)
        BY <2>2, <2>5, <3>1, <4>1, <4>2, VersionAssumption DEF ToStamp, VersionAssumption
      <4> QED BY <3>1, <4>1, <4>3
    <3> QED BY <1>5, <3>2, <3>3
  <2>6. v \in Sources[p]
    BY <1>5, <1>type DEF Apply, Stamp, PlanOwn, StampCovers, ToStamp
  <2>7. NoGaps'
    BY <2>2, <2>5, <2>6, <1>type, GapFree
  <2> QED BY <2>4, <2>7
<1>6. CASE Decide(p)
  <2>1. UNCHANGED <<ledger, op>> /\ Recorded' = Recorded
    BY <1>6 DEF Decide, Recorded
  <2>2. CASE Refuses(p)
    BY <1>6, <2>1, <2>2, <1>type DEF Decide, TypeOK, PlanOwn, StampCovers, ToStamp, NoGaps
  <2>3. CASE ~Refuses(p)
    <3>1. pc' = [pc EXCEPT ![p] = "stamp"] /\ todo' = [todo EXCEPT ![p] = ToStamp(p)]
      BY <1>6, <2>3 DEF Decide
    <3>2. \A q \in Proc : ToStamp(q)' = ToStamp(q)
      BY <2>1 DEF ToStamp
    <3>3. PlanOwn' /\ StampCovers'
      BY <2>1, <3>1, <3>2, <1>type DEF TypeOK, PlanOwn, StampCovers
    <3> QED BY <2>1, <3>3, <1>type DEF NoGaps
  <2> QED BY <2>2, <2>3
<1> QED BY <1>1, <1>2, <1>3, <1>4, <1>5, <1>6 DEF Step

(* The initial state has nothing on record.                                *)
LEMMA InitGaps == Init => GInv
BY InitInv, VersionAssumption, BoundAssumption
DEF GInv, SInv, Init, PlanCovers, SuccessMeansCurrent, PlanOwn, StampCovers, NoGaps, Recorded, Range

(* Every step keeps all of it, ...                                         *)
LEMMA StepGaps == GInv /\ Next => GInv'
BY NextInv, NextSuccess, NextGaps, ProcAssumption, VersionAssumption,
   SourcesAssumption, CommandAssumption, BoundAssumption DEF GInv, SInv

(* ... and so does a step that changes nothing.                            *)
LEMMA StutterGaps == ASSUME GInv, UNCHANGED vars PROVE GInv'
<1>1. SInv'
  BY StutterSuccess DEF GInv
<1> QED BY <1>1 DEF GInv, vars, PlanOwn, StampCovers, ToStamp, NoGaps, Recorded

(* What is on record was recorded by a build with all that comes before it *)
(* on record too, however many runs and baselines of whichever builds race *)
(* or are cut short: no gap is ever left below a build's own versions.     *)
THEOREM RecordHasNoGaps == Spec => []NoGaps
<1>1. Init => GInv
  BY InitGaps
<1>2. GInv /\ [Next]_vars => GInv'
  BY StepGaps, StutterGaps
<1>3. GInv => NoGaps
  BY DEF GInv
<1> QED BY <1>1, <1>2, <1>3, PTL DEF Spec

-----------------------------------------------------------------------------
(* Initially nothing was executed, recorded or confirmed.                  *)
LEMMA InitHistory == ASSUME Init PROVE History!Init
<1>1. Recorded = {}
  BY DEF Init, Recorded, Range
<1>2. Confirmed = {}
  BY DEF Init, Confirmed
<1> QED BY <1>1, <1>2 DEF Init, History!Init

(* A step executes one migration, stamps one version, or changes neither   *)
(* the record nor the history.                                             *)
LEMMA StepHistory ==
  ASSUME ProcAssumption, VersionAssumption, SourcesAssumption, CommandAssumption,
         BoundAssumption, SInv, SInv', Next
  PROVE  History!Next
<1> USE DEF Goto, Finish
<1> PICK p \in Proc : \/ \E c \in Command : Start(p, c)
                      \/ Step(p) \/ Fail(p) \/ Crash(p)
  BY DEF Next
<1>1. Confirmed' \in SUBSET Recorded'
  BY DEF SInv, SuccessMeansCurrent, Confirmed
<1>2. CASE Recorded' = Recorded /\ ran' = ran
  BY <1>1, <1>2 DEF History!Next, History!Report
<1>3. CASE Apply(p)
  <2>1. PICK v \in todo[p] : ledger' = Append(ledger, v) /\ ran' = Append(ran, v)
    BY <1>3 DEF Apply, Record
  <2>2. Recorded' = Recorded \cup {v} /\ v \in Version
    BY <2>1, RecordStep DEF SInv
  <2>3. \A i \in DOMAIN ran : ran[i] < v
    BY <1>3 DEF Apply, SInv, IInv, PlanIsNewer
  <2>4. UNCHANGED Confirmed
    BY <1>3 DEF Apply, Confirmed
  <2>5. History!Advance
    BY <2>1, <2>2, <2>3, <2>4 DEF History!Advance
  <2> QED BY <2>5 DEF History!Next
<1>4. CASE Stamp(p)
  <2>1. PICK v \in todo[p] : ledger' = Append(ledger, v)
    BY <1>4 DEF Stamp, Record
  <2>2. Recorded' = Recorded \cup {v} /\ v \in Version
    BY <2>1, RecordStep DEF SInv
  <2>3. UNCHANGED <<ran, Confirmed>>
    BY <1>4 DEF Stamp, Confirmed
  <2>4. History!Stamp
    BY <2>2, <2>3 DEF History!Stamp
  <2> QED BY <2>4 DEF History!Next
<1>5. CASE HasPending(p) \/ EnsureLedger(p)
  <2>1. Recorded' = Recorded /\ ran' = ran
    BY <1>5, EnsuredRecord DEF HasPending, EnsureLedger, SInv
  <2> QED BY <2>1, <1>2
<1>6. CASE \/ \E c \in Command : Start(p, c)
           \/ TryLock(p) \/ LockTimeout(p) \/ Plan(p) \/ Applied(p) \/ Report(p)
           \/ Unlock(p) \/ Decide(p) \/ Stamped(p) \/ Fail(p) \/ Crash(p)
  <2>1. ledger' = ledger /\ ran' = ran
    BY <1>6 DEF Start, TryLock, LockTimeout, Plan, Applied, Report, Unlock, Decide,
                Stamped, Fail, Crash
  <2> QED BY <2>1, <1>2 DEF Recorded
<1> QED BY <1>3, <1>4, <1>5, <1>6 DEF Step

(* The migrate package implements SchemaHistory: whatever instances and    *)
(* operators do, the database's history only ever advances.                *)
THEOREM MigrateImplementsHistory == Spec => ImplementsHistory
<1>1. Init => History!Init
  BY InitHistory
<1>2. SInv /\ SInv' /\ [Next]_vars => [History!Next]_(History!hvars)
  <2>1. CASE Next /\ SInv /\ SInv'
    BY <2>1, StepHistory, ProcAssumption, VersionAssumption, SourcesAssumption,
       CommandAssumption, BoundAssumption
  <2>2. CASE UNCHANGED vars
    BY <2>2 DEF vars, History!hvars, Recorded, Confirmed
  <2> QED BY <2>1, <2>2
<1> QED BY <1>1, <1>2, SuccessInvariant, PTL DEF Spec, ImplementsHistory, History!Spec
-----------------------------------------------------------------------------
(* What is true as long as no baseline ran next to another command.        *)

(* A run only has left to execute what nobody has recorded.                *)
UpIsNew == \A p \in Proc : pc[p] = "apply" => todo[p] \cap Recorded = {}

(* The version a baseline decides on is still that of the database.        *)
StillFresh(p) == current[p] = 0 => Recorded = {}

DecidesOnRecord ==
  \A p \in Proc : /\ pc[p] = "decide" => StillFresh(p)
                  /\ pc[p] = "unlock" /\ op[p].kind = "baseline" /\ result[p] = "none" => StillFresh(p)

(* A baseline that stamps is alone with a database without history: the    *)
(* record is what it has stamped so far.                                   *)
StampsAlone == \A p \in Proc : pc[p] = "stamp" =>
                  Recorded = ToStamp(p) \ todo[p] /\ Range(ran) = {}

Apart == /\ ~Overlap /\ UpIsNew /\ DecidesOnRecord /\ StampsAlone
         /\ RecordedOnce /\ BaselineExact

OInv == GInv /\ (~overlapped => Apart)

(* One row for a version that has none keeps the rows apart.               *)
LEMMA AppendOnce ==
  ASSUME NEW S, NEW s \in Seq(S), NEW v \in S, v \notin Range(s), IsInjective(s)
  PROVE  IsInjective(Append(s, v))
<1>1. /\ DOMAIN s = 1..Len(s) /\ Len(s) \in Nat
      /\ DOMAIN Append(s, v) = 1..(Len(s) + 1)
      /\ \A i \in 1..Len(s) : Append(s, v)[i] = s[i]
      /\ Append(s, v)[Len(s) + 1] = v
  BY AppendFacts
<1>2. ASSUME NEW i \in 1..Len(s) PROVE s[i] # v
  BY <1>1 DEF Range
<1>3. ASSUME NEW i \in 1..(Len(s) + 1), NEW j \in 1..(Len(s) + 1), Append(s, v)[i] = Append(s, v)[j]
      PROVE  i = j
  <2>1. CASE i \in 1..Len(s) /\ j \in 1..Len(s)
    BY <1>1, <1>3, <2>1 DEF IsInjective
  <2>2. CASE i = Len(s) + 1 \/ j = Len(s) + 1
    BY <1>1, <1>2, <1>3, <2>2
  <2> QED BY <1>1, <2>1, <2>2
<1> QED BY <1>1, <1>3 DEF IsInjective

(* The same for a row that a run or a baseline adds to the ledger.         *)
LEMMA RecordOnce ==
  ASSUME VersionAssumption, IInv, RecordedOnce, NEW p \in Proc, NEW v \in todo[p],
         v \notin Recorded, ledger' = Append(ledger, v)
  PROVE  RecordedOnce'
<1> DEFINE S == 0..MaxVersion
<1>1. v \in S /\ v # 0 /\ ledger \in Seq(S)
  BY DEF IInv, TypeOK, VersionAssumption
<1>2. v \notin Range(ledger)
  BY <1>1 DEF Recorded
<1> HIDE DEF S
<1> QED BY <1>1, <1>2, AppendOnce DEF RecordedOnce

(* A command that starts finds nobody decided or stamping but itself.      *)
LEMMA StartApart ==
  ASSUME OInv, Apart, NEW p \in Proc, NEW c \in Command, Start(p, c), ~Overlap'
  PROVE  Apart'
<1> USE DEF Goto, Finish
<1>type. TypeOK
  BY DEF OInv, GInv, SInv, IInv
<1>1. /\ UNCHANGED <<ledger, ran>> /\ pc[p] = "idle"
      /\ op' = [op EXCEPT ![p] = c]
      /\ todo' = [todo EXCEPT ![p] = {}]
      /\ current' = [current EXCEPT ![p] = 0]
  BY DEF Start
<1>2. PICK l \in {"idle", "pending", "lock"}, r \in {"none", "refused"} :
         pc' = [pc EXCEPT ![p] = l] /\ result' = [result EXCEPT ![p] = r]
  <2>1. CASE ValidArguments(c)
    BY <2>1 DEF Start, Entry
  <2>2. CASE ~ValidArguments(c)
    BY <2>2 DEF Start
  <2> QED BY <2>1, <2>2
<1>3. Recorded' = Recorded
  BY <1>1 DEF Recorded
<1>4. /\ pc'[p] = l /\ result'[p] = r
      /\ \A q \in Proc : q # p => /\ pc'[q] = pc[q] /\ result'[q] = result[q] /\ op'[q] = op[q]
                                 /\ todo'[q] = todo[q] /\ current'[q] = current[q]
                                 /\ ToStamp(q)' = ToStamp(q)
  BY <1>1, <1>2, <1>type DEF TypeOK, ToStamp
<1>5. UpIsNew'
  BY <1>3, <1>4 DEF Apart, UpIsNew
<1>6. DecidesOnRecord'
  BY <1>3, <1>4 DEF Apart, DecidesOnRecord, StillFresh
<1>7. StampsAlone'
  BY <1>1, <1>3, <1>4 DEF Apart, StampsAlone
<1>8. RecordedOnce'
  BY <1>1 DEF Apart, RecordedOnce
<1>9. BaselineExact'
  BY <1>1, <1>3, <1>4 DEF Apart, BaselineExact
<1> QED BY <1>5, <1>6, <1>7, <1>8, <1>9 DEF Apart

(* Steps that record nothing, execute nothing and plan nothing.            *)
LEMMA QuietApart ==
  ASSUME OInv, Apart, ~Overlap', UNCHANGED <<op, todo, current, ran>>,
         Recorded' = Recorded, RecordedOnce',
         \A q \in Proc :
            /\ pc'[q] \in {"apply", "stamp"} => pc[q] = pc'[q]
            /\ pc'[q] = "decide" => \/ pc[q] = "decide"
                                    \/ pc[q] = "unlock" /\ op[q].kind = "baseline" /\ result[q] = "none"
            /\ pc'[q] = "unlock" /\ result'[q] = "none" => pc[q] = "unlock" /\ result[q] = "none"
            /\ op[q].kind = "baseline" /\ result'[q] = "ok" => result[q] = "ok"
  PROVE  Apart'
<1>1. \A q \in Proc : ToStamp(q)' = ToStamp(q)
  BY DEF ToStamp
<1>2. UpIsNew'
  BY DEF Apart, UpIsNew
<1>3. DecidesOnRecord'
  BY DEF Apart, DecidesOnRecord, StillFresh
<1>4. StampsAlone'
  BY <1>1 DEF Apart, StampsAlone
<1>5. BaselineExact'
  BY <1>1 DEF Apart, BaselineExact
<1> QED BY <1>2, <1>3, <1>4, <1>5 DEF Apart

(* Preparing the ledger adds no second row for any version.                *)
LEMMA EnsureApart ==
  ASSUME VersionAssumption, OInv, Apart, ~Overlap', NEW p \in Proc,
         HasPending(p) \/ EnsureLedger(p)
  PROVE  Apart'
<1>type. TypeOK /\ IInv
  BY DEF OInv, GInv, SInv, IInv
<1>1. ledger' = EnsuredLedger /\ UNCHANGED <<op, todo, current, ran, result>>
  BY DEF HasPending, EnsureLedger
<1>2. Recorded' = Recorded
  BY <1>1, <1>type, EnsuredRecord
<1>3. RecordedOnce'
  <2>1. CASE ledger = <<>>
    BY <1>1, <2>1 DEF EnsuredLedger, RecordedOnce, IsInjective
  <2>2. CASE ledger # <<>>
    BY <1>1, <2>2 DEF EnsuredLedger, RecordedOnce, Apart
  <2> QED BY <2>1, <2>2
<1>4. PICK l \in {"lock", "read"} : pc' = [pc EXCEPT ![p] = l]
  BY DEF HasPending, EnsureLedger, Goto
<1>5. \A q \in Proc : q # p => pc'[q] = pc[q]
  BY <1>4, <1>type DEF TypeOK
<1>6. pc'[p] \in {"lock", "read"}
  BY <1>4, <1>type DEF TypeOK
<1> QED BY <1>1, <1>2, <1>3, <1>5, <1>6, QuietApart
(* What a run or a baseline does to leave its place, apart from planning,  *)
(* reporting, recording and deciding.                                      *)
LEMMA LeaveApart ==
  ASSUME OInv, Apart, ~Overlap', NEW p \in Proc,
         \/ TryLock(p) \/ LockTimeout(p) \/ Applied(p) \/ Unlock(p) \/ Fail(p) \/ Crash(p)
  PROVE  Apart'
<1> USE DEF Goto, Finish
<1>type. TypeOK /\ Place
  BY DEF OInv, GInv, SInv, IInv
<1>1. UNCHANGED <<op, todo, current, ran, ledger>>
  BY DEF TryLock, LockTimeout, Applied, Unlock, Fail, Crash
<1>2. Recorded' = Recorded /\ RecordedOnce'
  BY <1>1 DEF Recorded, Apart, RecordedOnce
<1>3. \A q \in Proc : q # p => pc'[q] = pc[q] /\ result'[q] = result[q]
  BY <1>type DEF TypeOK, TryLock, LockTimeout, Applied, Unlock, Fail, Crash
<1>4. /\ pc'[p] \in {"ensure", "idle", "unlock", "decide"}
      /\ pc'[p] = "decide" => pc[p] = "unlock" /\ op[p].kind = "baseline" /\ result[p] = "none"
      /\ pc'[p] = "unlock" => result'[p] # "none"
      /\ op[p].kind = "baseline" /\ result'[p] = "ok" => result[p] = "ok"
  BY <1>type DEF TypeOK, Place, TryLock, LockTimeout, Applied, Unlock, Fail, Crash
<1> QED BY <1>1, <1>2, <1>3, <1>4, QuietApart

(* The version a baseline reads under the lock is the highest recorded.    *)
LEMMA ReportApart ==
  ASSUME VersionAssumption, OInv, Apart, ~Overlap', NEW p \in Proc, Report(p)
  PROVE  Apart'
<1> USE DEF Goto, Finish
<1>type. TypeOK
  BY DEF OInv, GInv, SInv, IInv
<1>1. /\ UNCHANGED <<op, todo, ran, ledger>> /\ pc[p] = "read"
      /\ pc' = [pc EXCEPT ![p] = "unlock"]
  BY DEF Report
<1>2. Recorded' = Recorded /\ RecordedOnce'
  BY <1>1 DEF Recorded, Apart, RecordedOnce
<1>3. PICK v \in Range(ledger) : IsMax(v, Range(ledger)) /\ current' = [current EXCEPT ![p] = v]
  BY DEF Report
<1>4. Range(ledger) \subseteq 0..MaxVersion
  BY <1>type DEF TypeOK, Range
<1>5. v = 0 => Recorded = {}
  BY <1>3, <1>4, VersionAssumption DEF IsMax, Recorded, VersionAssumption
<1>6. \A q \in Proc : ToStamp(q)' = ToStamp(q)
  BY <1>1 DEF ToStamp
<1>7. /\ pc'[p] = "unlock" /\ current'[p] = v
      /\ \A q \in Proc : q # p => pc'[q] = pc[q] /\ current'[q] = current[q]
  BY <1>1, <1>3, <1>type DEF TypeOK
<1>8. /\ \A q \in Proc : q # p => result'[q] = result[q]
      /\ op[p].kind = "baseline" => result'[p] = result[p]
  BY <1>type DEF TypeOK, Report
<1>9. UpIsNew' /\ StampsAlone'
  BY <1>1, <1>2, <1>6, <1>7 DEF Apart, UpIsNew, StampsAlone
<1>10. DecidesOnRecord'
  BY <1>1, <1>2, <1>5, <1>7, <1>8 DEF Apart, DecidesOnRecord, StillFresh
<1>11. BaselineExact'
  BY <1>1, <1>2, <1>6, <1>8 DEF Apart, BaselineExact
<1> QED BY <1>2, <1>9, <1>10, <1>11 DEF Apart

(* A run plans what is above everything recorded.                          *)
LEMMA PlanApart ==
  ASSUME VersionAssumption, SourcesAssumption, OInv, Apart, ~Overlap', NEW p \in Proc, Plan(p)
  PROVE  Apart'
<1> USE DEF Goto
<1>type. TypeOK
  BY DEF OInv, GInv, SInv, IInv
<1>1. UNCHANGED <<op, current, ran, ledger>> /\ op[p].kind = "up"
  BY DEF Plan
<1>2. Recorded' = Recorded /\ RecordedOnce'
  BY <1>1 DEF Recorded, Apart, RecordedOnce
<1>3. CASE OutOfOrder(p) # {}
  <2>1. /\ UNCHANGED todo /\ pc' = [pc EXCEPT ![p] = "unlock"]
        /\ result' = [result EXCEPT ![p] = "error"]
    BY <1>3 DEF Plan
  <2>2. /\ pc'[p] = "unlock" /\ result'[p] = "error"
        /\ \A q \in Proc : q # p => pc'[q] = pc[q] /\ result'[q] = result[q]
    BY <2>1, <1>type DEF TypeOK
  <2> QED BY <1>1, <1>2, <2>1, <2>2, QuietApart
<1>4. CASE OutOfOrder(p) = {}
  <2>1. /\ UNCHANGED result /\ pc' = [pc EXCEPT ![p] = "apply"]
        /\ todo' = [todo EXCEPT ![p] = Pending(p)]
    BY <1>4 DEF Plan
  <2>2. /\ pc'[p] = "apply" /\ todo'[p] = Pending(p)
        /\ \A q \in Proc : q # p => pc'[q] = pc[q] /\ todo'[q] = todo[q]
    BY <2>1, <1>type DEF TypeOK
  <2>3. Pending(p) \cap Recorded = {}
    <3>1. ASSUME NEW v \in Pending(p), v \in Recorded PROVE FALSE
      <4>1. v \in Version /\ v < v
        BY <3>1, SourcesAssumption DEF Pending, Recorded, SourcesAssumption
      <4> QED BY <4>1, VersionAssumption DEF VersionAssumption
    <3> QED BY <3>1
  <2>4. \A q \in Proc : ToStamp(q)' = ToStamp(q)
    BY <1>1 DEF ToStamp
  <2>5. UpIsNew' /\ StampsAlone'
    BY <1>1, <1>2, <2>2, <2>3, <2>4 DEF Apart, UpIsNew, StampsAlone
  <2>6. DecidesOnRecord'
    BY <1>1, <1>2, <2>1, <2>2 DEF Apart, DecidesOnRecord, StillFresh
  <2>7. BaselineExact'
    BY <1>1, <1>2, <2>1, <2>4 DEF Apart, BaselineExact
  <2> QED BY <1>2, <2>5, <2>6, <2>7 DEF Apart
<1> QED BY <1>3, <1>4

(* A run executes, and records, what no baseline has recorded.             *)
LEMMA ApplyApart ==
  ASSUME VersionAssumption, OInv, Apart, ~Overlap', NEW p \in Proc, Apply(p)
  PROVE  Apart'
<1>type. TypeOK /\ IInv /\ Holder /\ Place
  BY DEF OInv, GInv, SInv, IInv
<1>1. PICK v \in todo[p] : /\ ran' = Append(ran, v)
                           /\ ledger' = Append(ledger, v)
                           /\ todo' = [todo EXCEPT ![p] = @ \ {v}]
  BY DEF Apply, Record
<1>2. UNCHANGED <<pc, op, current, result>> /\ pc[p] = "apply"
  BY DEF Apply
<1>3. Recorded' = Recorded \cup {v} /\ v \in Version
  BY <1>1, <1>type, RecordStep
<1>4. v \notin Recorded
  BY <1>1, <1>2 DEF Apart, UpIsNew
<1>5. RecordedOnce'
  BY <1>1, <1>4, <1>type, RecordOnce DEF Apart
<1>6. Range(ran') = Range(ran) \cup {v}
  <2>1. ran \in Seq(Version)
    BY <1>type DEF TypeOK
  <2> HIDE DEF Version
  <2> QED BY <1>1, <1>3, <2>1, AppendFacts
<1>7. \A q \in Proc : pc[q] = "apply" => q = p
  BY <1>2, <1>type DEF Holder, Locked
<1>8. \A q \in Proc : op[q].kind = "baseline" => pc[q] = "idle" \/ q = p
  BY <1>2 DEF Apart, Overlap
<1>9. todo'[p] = todo[p] \ {v}
  BY <1>1, <1>type DEF TypeOK
<1>10. UpIsNew'
  BY <1>2, <1>3, <1>7, <1>9 DEF Apart, UpIsNew
<1>11. DecidesOnRecord' /\ StampsAlone'
  BY <1>2, <1>8, <1>type DEF DecidesOnRecord, StampsAlone, Place
<1>12. BaselineExact'
  <2>1. \A q \in Proc : ToStamp(q)' = ToStamp(q)
    BY <1>2 DEF ToStamp
  <2> QED BY <1>2, <1>3, <1>4, <1>6, <2>1 DEF Apart, BaselineExact
<1> QED BY <1>5, <1>10, <1>11, <1>12 DEF Apart

(* A baseline that goes on to stamp finds the record empty.                *)
LEMMA DecideApart ==
  ASSUME VersionAssumption, OInv, Apart, ~Overlap', NEW p \in Proc, Decide(p)
  PROVE  Apart'
<1> USE DEF Goto, Finish
<1>type. TypeOK /\ RanRecorded
  BY DEF OInv, GInv, SInv, IInv
<1>1. UNCHANGED <<op, current, ran, ledger>> /\ pc[p] = "decide"
  BY DEF Decide
<1>2. Recorded' = Recorded /\ RecordedOnce'
  BY <1>1 DEF Recorded, Apart, RecordedOnce
<1>3. CASE Refuses(p)
  <2>1. /\ UNCHANGED todo /\ pc' = [pc EXCEPT ![p] = "idle"]
        /\ result' = [result EXCEPT ![p] = "refused"]
    BY <1>3 DEF Decide
  <2>2. /\ pc'[p] = "idle" /\ result'[p] = "refused"
        /\ \A q \in Proc : q # p => pc'[q] = pc[q] /\ result'[q] = result[q]
    BY <2>1, <1>type DEF TypeOK
  <2> QED BY <1>1, <1>2, <2>1, <2>2, QuietApart
<1>4. CASE ~Refuses(p)
  <2>1. /\ UNCHANGED result /\ pc' = [pc EXCEPT ![p] = "stamp"]
        /\ todo' = [todo EXCEPT ![p] = ToStamp(p)]
    BY <1>4 DEF Decide
  <2>2. /\ pc'[p] = "stamp" /\ todo'[p] = ToStamp(p)
        /\ \A q \in Proc : q # p => pc'[q] = pc[q] /\ todo'[q] = todo[q]
    BY <2>1, <1>type DEF TypeOK
  <2>3. Recorded = {}
    <3>1. current[p] \in 0..MaxVersion /\ ~(current[p] > 0)
      BY <1>4, <1>type DEF Refuses, TypeOK
    <3>2. current[p] = 0
      BY <3>1, VersionAssumption DEF VersionAssumption
    <3> QED BY <1>1, <3>2 DEF Apart, DecidesOnRecord, StillFresh
  <2>4. Range(ran) = {}
    <3>1. ASSUME NEW i \in DOMAIN ran PROVE FALSE
      <4>1. ran[i] \in Version /\ ran[i] \in Range(ledger)
        BY <1>type DEF TypeOK, RanRecorded
      <4>2. ran[i] \in Recorded
        BY <4>1, VersionAssumption DEF Recorded, VersionAssumption
      <4> QED BY <2>3, <4>2
    <3> QED BY <3>1 DEF Range
  <2>5. \A q \in Proc : ToStamp(q)' = ToStamp(q)
    BY <1>1 DEF ToStamp
  <2>6. StampsAlone'
    BY <1>1, <1>2, <2>2, <2>3, <2>4, <2>5 DEF Apart, StampsAlone
  <2>7. UpIsNew' /\ DecidesOnRecord'
    BY <1>1, <1>2, <2>1, <2>2 DEF Apart, UpIsNew, DecidesOnRecord, StillFresh
  <2>8. BaselineExact'
    BY <1>1, <1>2, <2>1, <2>5 DEF Apart, BaselineExact
  <2> QED BY <1>2, <2>6, <2>7, <2>8 DEF Apart
<1> QED BY <1>3, <1>4

(* A stamped version had no row, and nobody else is running.               *)
LEMMA StampApart ==
  ASSUME VersionAssumption, OInv, Apart, ~Overlap', NEW p \in Proc, Stamp(p)
  PROVE  Apart'
<1>type. TypeOK /\ IInv /\ Place /\ StampCovers
  BY DEF OInv, GInv, SInv, IInv
<1>1. PICK v \in todo[p] : /\ ledger' = Append(ledger, v)
                           /\ todo' = [todo EXCEPT ![p] = @ \ {v}]
  BY DEF Stamp, Record
<1>2. UNCHANGED <<ran, pc, op, current, result>> /\ pc[p] = "stamp"
  BY DEF Stamp
<1>3. Recorded' = Recorded \cup {v} /\ v \in Version
  BY <1>1, <1>type, RecordStep
<1>4. Recorded = ToStamp(p) \ todo[p] /\ Range(ran) = {} /\ v \in ToStamp(p)
  BY <1>1, <1>2, <1>type DEF Apart, StampsAlone, StampCovers
<1>5. RecordedOnce'
  BY <1>1, <1>4, <1>type, RecordOnce DEF Apart
<1>6. \A q \in Proc : q # p => pc[q] = "idle"
  BY <1>2, <1>type DEF Apart, Overlap, Place
<1>7. todo'[p] = todo[p] \ {v}
  BY <1>1, <1>type DEF TypeOK
<1>8. \A q \in Proc : ToStamp(q)' = ToStamp(q)
  BY <1>2 DEF ToStamp
<1>9. UpIsNew' /\ DecidesOnRecord'
  BY <1>2, <1>6 DEF UpIsNew, DecidesOnRecord
<1>10. StampsAlone'
  BY <1>2, <1>3, <1>4, <1>6, <1>7, <1>8 DEF StampsAlone
<1>11. BaselineExact'
  BY <1>2, <1>3, <1>8 DEF Apart, BaselineExact
<1> QED BY <1>5, <1>9, <1>10, <1>11 DEF Apart

(* A baseline that reports success has nothing left to stamp.              *)
LEMMA StampedApart ==
  ASSUME OInv, Apart, ~Overlap', NEW p \in Proc, Stamped(p)
  PROVE  Apart'
<1> USE DEF Goto, Finish
<1>type. TypeOK
  BY DEF OInv, GInv, SInv, IInv
<1>1. /\ UNCHANGED <<op, todo, current, ran, ledger>> /\ pc[p] = "stamp" /\ todo[p] = {}
      /\ pc' = [pc EXCEPT ![p] = "idle"]
      /\ result' = [result EXCEPT ![p] = "ok"]
  BY DEF Stamped
<1>2. Recorded' = Recorded /\ RecordedOnce'
  BY <1>1 DEF Recorded, Apart, RecordedOnce
<1>3. /\ pc'[p] = "idle"
      /\ \A q \in Proc : q # p => pc'[q] = pc[q] /\ result'[q] = result[q]
  BY <1>1, <1>type DEF TypeOK
<1>4. \A q \in Proc : ToStamp(q)' = ToStamp(q)
  BY <1>1 DEF ToStamp
<1>5. Recorded = ToStamp(p) /\ Range(ran) = {}
  BY <1>1 DEF Apart, StampsAlone
<1>6. BaselineExact'
  BY <1>1, <1>2, <1>3, <1>4, <1>5 DEF Apart, BaselineExact
<1>7. UpIsNew' /\ DecidesOnRecord' /\ StampsAlone'
  BY <1>1, <1>2, <1>3, <1>4 DEF Apart, UpIsNew, DecidesOnRecord, StillFresh, StampsAlone
<1> QED BY <1>2, <1>6, <1>7 DEF Apart

(* In every reachable state in which no baseline overlapped another        *)
(* command, the rows are apart and the finished baselines exact.           *)
THEOREM ApartInvariant == OverlapSpec => []OInv
<1>1. OverlapInit => OInv
  <2>1. Init => GInv
    BY InitGaps
  <2>2. Init => Apart
    BY DEF Init, Apart, Overlap, UpIsNew, DecidesOnRecord, StampsAlone, RecordedOnce,
           BaselineExact, IsInjective
  <2> QED BY <2>1, <2>2 DEF OverlapInit, OInv
<1>2. OInv /\ [OverlapNext]_<<vars, overlapped>> => OInv'
  <2>1. ASSUME OInv, OverlapNext PROVE OInv'
    <3>1. GInv'
      BY <2>1, StepGaps DEF OverlapNext, OInv
    <3>2. ASSUME ~overlapped' PROVE Apart'
      <4>1. Apart /\ ~Overlap' /\ Next
        BY <2>1, <3>2 DEF OInv, OverlapNext
      <4>2. PICK p \in Proc : \/ \E c \in Command : Start(p, c)
                              \/ Step(p) \/ Fail(p) \/ Crash(p)
        BY <4>1 DEF Next
      <4> QED BY <2>1, <4>1, <4>2, StartApart, EnsureApart, LeaveApart, ReportApart, PlanApart,
                 ApplyApart, DecideApart, StampApart, StampedApart,
                 VersionAssumption, SourcesAssumption DEF Step
    <3> QED BY <3>1, <3>2 DEF OInv
  <2>2. ASSUME OInv, UNCHANGED <<vars, overlapped>> PROVE OInv'
    <3>1. GInv'
      BY <2>2, StutterGaps DEF OInv
    <3>2. Apart => Apart'
      BY <2>2 DEF vars, Apart, Overlap, UpIsNew, DecidesOnRecord, StillFresh, StampsAlone,
                  RecordedOnce, BaselineExact, ToStamp, Recorded
    <3> QED BY <2>2, <3>1, <3>2 DEF OInv
  <2> QED BY <2>1, <2>2
<1> QED BY <1>1, <1>2, PTL DEF OverlapSpec

(* Executed once or stamped once, never both: across crashes and builds, as *)
(* long as no baseline ran next to another command.                        *)
THEOREM EachVersionRecordedOnce == OverlapSpec => []RecordedOnceApart
<1>1. OInv => RecordedOnceApart
  BY DEF OInv, Apart, RecordedOnceApart
<1> QED BY <1>1, ApartInvariant, PTL

(* Under the same condition, what a successful baseline recorded is all    *)
(* there is up to its target, and none of it was or will be executed.      *)
THEOREM BaselinesAreExact == OverlapSpec => []BaselineExactApart
<1>1. OInv => BaselineExactApart
  BY DEF OInv, Apart, BaselineExactApart
<1> QED BY <1>1, ApartInvariant, PTL

(* What StampsFreshDatabase says of one step.                              *)
StampsFresh == \A p \in Proc : pc[p] = "stamp" /\ Len(ledger') > Len(ledger) /\ todo'[p] # todo[p] =>
                  Recorded = ToStamp(p) \ todo[p]

(* The refusal the CHANGELOG promises of baseline is kept by every step    *)
(* taken while no baseline has overlapped another command: it only stamps  *)
(* a database without history.                                             *)
THEOREM BaselinesStampFreshDatabases == OverlapSpec => [][~overlapped => StampsFresh]_vars
<1>1. OInv => (~overlapped => StampsFresh)
  BY DEF OInv, Apart, StampsAlone, StampsFresh
<1> QED BY <1>1, ApartInvariant, PTL
=============================================================================
