------------------------------ MODULE BodyProofs ------------------------------
(***************************************************************************)
(* Proofs about Body, for any caps and reads of any length: a body is      *)
(* accepted exactly when it is good, and little is read past the caps.     *)
(***************************************************************************)
EXTENDS Body, TLAPS

USE DEF NoError

(* What the reader below reported is so.                                   *)
InnerTrue ==
  /\ inner = "toolarge" => Oversize
  /\ inner = "EOF" => ~Oversize /\ body.intact /\ got = body.text
  /\ inner = "truncated" => ~body.intact

(* The decoder was handed that report, unless the count was spent.         *)
ErrTrue ==
  \/ err = NoError
  \/ err = "expanded" /\ body.gzip /\ remaining < 0
  \/ err # "expanded" /\ err = inner /\ (body.gzip => remaining >= 0)

(* The count is what came out, and no plain body is read past its cap.     *)
Counted == /\ body.gzip => remaining = MaxDecompressedBytes - got
           /\ ~body.gzip => remaining = MaxDecompressedBytes /\ got <= MaxBytes

(* One read past the cap may complete the value; no other goes unnoticed.  *)
Overdrawn == /\ remaining >= 0 - 2 * ReadSize
             /\ phase \in {"open", "value"} => remaining >= 0 - ReadSize
             /\ phase \in {"open", "value"} /\ err = NoError => remaining >= 0
             /\ phase = "rest" /\ err = NoError => remaining >= 0 - ReadSize

(* What is known of the body by now.                                       *)
Learnt == phase \in {"rest", "accepted"} => body.ends # 0 /\ body.known

IInv == /\ TypeOK /\ InnerTrue /\ ErrTrue /\ Counted /\ Overdrawn /\ Learnt
        /\ AcceptedWhenGood /\ TooLargeMeansIt

(* The caps and the bounds are numbers.                                    *)
LEMMA Caps == /\ MaxBytes \in Nat /\ MaxDecompressedBytes \in Nat
              /\ ReadSize \in Nat \ {0} /\ MaxSize \in Nat \ {0}
  BY BodyAssumption

(* A body and what it is made of.                                          *)
LEMMA BodyParts ==
  ASSUME NEW b \in Bodies
  PROVE  /\ b.gzip \in BOOLEAN /\ b.second \in Nat /\ b.known \in BOOLEAN /\ b.intact \in BOOLEAN
         /\ b.sent \in Nat /\ b.text \in Nat /\ b.ends \in Nat /\ b.broken \in Nat
         /\ b.ends <= b.text /\ b.broken <= b.text
  BY Caps DEF Bodies

(* Nothing is read before the first read.                                  *)
LEMMA InitIInv == Init => IInv
  <1> SUFFICES ASSUME Init PROVE IInv
    OBVIOUS
  <1>1. body \in Bodies /\ body.text \in Nat
    BY BodyParts DEF Init
  <1>2. TypeOK /\ InnerTrue /\ ErrTrue
    BY <1>1, Caps DEF Init, TypeOK, InnerTrue, ErrTrue
  <1>3. Counted /\ Overdrawn /\ Learnt /\ AcceptedWhenGood /\ TooLargeMeansIt
    BY <1>1, Caps DEF Init, Counted, Overdrawn, Learnt, AcceptedWhenGood, TooLargeMeansIt
  <1> QED
    BY <1>2, <1>3 DEF IInv

(* A read: the reports are true, and the count is kept.                    *)
LEMMA ReadStep == IInv /\ ReadMore => IInv'
  <1> SUFFICES ASSUME IInv, ReadMore PROVE IInv'
    OBVIOUS
  <1> USE Caps DEF IInv
  <1>1. phase \in {"value", "rest"} /\ err = NoError /\ UNCHANGED <<body, phase>>
    BY DEF ReadMore, Scanning, Read
  <1>2. /\ body \in Bodies /\ body.gzip \in BOOLEAN /\ body.text \in Nat /\ body.intact \in BOOLEAN
        /\ got \in Nat /\ got <= body.text /\ remaining \in Int
    BY BodyParts DEF TypeOK
  <1>3. PICK n \in 0..ReadSize :
          /\ IF inner = NoError
               THEN /\ got + n <= body.text
                    /\ body.gzip \/ got + n <= MaxBytes
                    /\ inner' \in Reports(n)
               ELSE n = 0 /\ UNCHANGED inner
          /\ got' = got + n
          /\ remaining' = IF body.gzip THEN Spend(n) ELSE remaining
          /\ err' = IF body.gzip /\ Spent(remaining') THEN "expanded" ELSE inner'
    BY DEF ReadMore, Read
  <1>4. n \in Nat /\ n <= ReadSize /\ got' \in Nat /\ got' <= body.text
    BY <1>2, <1>3
  <1>5. InnerTrue' /\ inner' \in {NoError, "toolarge", "EOF", "truncated"}
    <2>1. CASE inner = NoError
      BY <1>1, <1>2, <1>3, <2>1 DEF InnerTrue, Reports, Ending, Oversize
    <2>2. CASE inner # NoError
      BY <1>1, <1>2, <1>3, <2>2 DEF InnerTrue, Oversize, TypeOK
    <2> QED
      BY <2>1, <2>2
  <1>6. Counted'
    BY <1>1, <1>2, <1>3, <1>4 DEF Counted, Spend
  <1>7. remaining' \in Int /\ remaining' <= remaining /\ remaining' >= remaining - ReadSize
    BY <1>2, <1>3, <1>4 DEF Spend
  <1>8. remaining >= 0 - ReadSize /\ (phase = "value" => remaining >= 0)
    BY <1>1, <1>2 DEF Overdrawn
  <1>9. Overdrawn' /\ ErrTrue'
    <2>1. remaining' >= 0 - 2 * ReadSize /\ (phase = "value" => remaining' >= 0 - ReadSize)
      BY <1>2, <1>7, <1>8
    <2>2. CASE body.gzip /\ remaining' < 0
      <3>1. err' = "expanded"
        BY <1>3, <2>2 DEF Spent
      <3> QED
        BY <1>1, <2>1, <2>2, <3>1 DEF Overdrawn, ErrTrue
    <2>3. CASE ~(body.gzip /\ remaining' < 0)
      <3>1. err' = inner'
        BY <1>3, <2>3 DEF Spent
      <3>2. remaining' >= 0
        BY <1>2, <1>6, <1>1, <1>7, <2>3 DEF Counted
      <3> QED
        BY <1>1, <1>5, <1>7, <2>1, <2>3, <3>1, <3>2 DEF Overdrawn, ErrTrue
    <2> QED
      BY <2>2, <2>3
  <1>10. TypeOK'
    <2>1. err' \in {NoError, "toolarge", "EOF", "truncated", "expanded"}
      BY <1>3, <1>5
    <2>2. remaining' \in (0 - 2 * ReadSize)..MaxDecompressedBytes
      BY <1>2, <1>7, <1>9 DEF Overdrawn, TypeOK
    <2>3. got' \in 0..body'.text
      BY <1>1, <1>4
    <2> QED
      BY <1>1, <1>5, <2>1, <2>2, <2>3 DEF TypeOK
  <1>11. Learnt' /\ AcceptedWhenGood' /\ TooLargeMeansIt'
    BY <1>1 DEF Learnt, AcceptedWhenGood, TooLargeMeansIt
  <1> QED
    BY <1>5, <1>6, <1>9, <1>10, <1>11

(* The answer to a body that is not accepted is never wrong, and nothing   *)
(* is accepted that is not good.                                           *)
LEMMA AnswerStep == IInv /\ (Open \/ Value \/ Reject \/ Finish) => IInv'
  <1> SUFFICES ASSUME IInv, Open \/ Value \/ Reject \/ Finish PROVE IInv'
    OBVIOUS
  <1> USE Caps DEF IInv
  <1>1. /\ body \in Bodies /\ body.gzip \in BOOLEAN /\ body.second \in Nat /\ body.known \in BOOLEAN
        /\ body.intact \in BOOLEAN /\ body.text \in Nat /\ body.ends \in Nat /\ body.broken \in Nat
        /\ body.ends <= body.text /\ body.broken <= body.text
        /\ got \in Nat /\ got <= body.text /\ remaining \in Int
    BY BodyParts DEF TypeOK
  <1>2. UNCHANGED <<body, inner, remaining, got>>
    BY DEF Open, Value, Reject, Finish
  <1>3. InnerTrue' /\ Counted'
    BY <1>2 DEF InnerTrue, Counted, Oversize
  <1>4. CASE Open
    <2>1. phase = "open" /\ err' = err /\ phase' \in {"value", "toolarge", "invalid"}
      BY <1>4 DEF Open
    <2>2. TypeOK' /\ ErrTrue' /\ Overdrawn' /\ Learnt'
      BY <1>1, <1>2, <2>1 DEF TypeOK, ErrTrue, Overdrawn, Learnt
    <2>3. (phase' = "toolarge" => Oversize) /\ (phase' = "invalid" => ~body.intact)
      BY <1>1, <1>4 DEF Open, Oversize
    <2>4. AcceptedWhenGood' /\ TooLargeMeansIt'
      BY <1>1, <1>2, <2>1, <2>3 DEF AcceptedWhenGood, TooLargeMeansIt, Good, TooBig, Oversize
    <2> QED
      BY <1>3, <2>2, <2>4
  <1>5. CASE Value
    <2>1. /\ phase = "value" /\ err' = NoError /\ body.ends # 0
          /\ phase' = IF body.known THEN "rest" ELSE "invalid"
      BY <1>5 DEF Value, ValueRead
    <2>2. TypeOK' /\ ErrTrue' /\ Overdrawn' /\ Learnt'
      BY <1>1, <1>2, <2>1 DEF TypeOK, ErrTrue, Overdrawn, Learnt
    <2>3. AcceptedWhenGood' /\ TooLargeMeansIt'
      BY <1>1, <1>2, <2>1 DEF AcceptedWhenGood, TooLargeMeansIt, Good, TooBig, Oversize
    <2> QED
      BY <1>3, <2>2, <2>3
  <1>6. CASE Reject
    <2>1. phase' = "invalid" /\ err' = err /\ (body.broken # 0 \/ body.second # 0)
      BY <1>6 DEF Reject, Malformed, SecondRead
    <2>2. TypeOK' /\ ErrTrue' /\ Overdrawn' /\ Learnt'
      BY <1>1, <1>2, <2>1 DEF TypeOK, ErrTrue, Overdrawn, Learnt
    <2>3. AcceptedWhenGood' /\ TooLargeMeansIt'
      BY <1>1, <1>2, <2>1 DEF AcceptedWhenGood, TooLargeMeansIt, Good, TooBig, Oversize
    <2> QED
      BY <1>3, <2>2, <2>3
  <1>7. CASE Finish
    <2>1. /\ phase \in {"value", "rest"} /\ ~ValueRead /\ ~Malformed /\ ~SecondRead
          /\ err # NoError /\ err' = err
          /\ phase' = IF SingleObject THEN "accepted"
                      ELSE IF err \in {"toolarge", "expanded"} THEN "toolarge" ELSE "invalid"
      BY <1>7 DEF Finish, Scanning
    <2>2. err = "EOF" => /\ ~Oversize /\ body.intact /\ got = body.text
                         /\ body.gzip => remaining >= 0
      BY <1>1, <2>1 DEF ErrTrue, InnerTrue
    <2>3. err = "toolarge" => Oversize
      BY <1>1, <2>1 DEF ErrTrue, InnerTrue
    <2>4. err = "expanded" => body.gzip /\ body.text > MaxDecompressedBytes
      BY <1>1, <2>1 DEF ErrTrue, InnerTrue, Counted, TypeOK
    <2>5. err \in {"toolarge", "EOF", "truncated", "expanded"}
      BY <2>1 DEF TypeOK
    <2>6. err = "truncated" => ~body.intact
      BY <1>1, <2>1 DEF ErrTrue, InnerTrue
    <2>7. CASE phase = "rest" /\ err = "EOF" /\ body.second = 0
      <3>1. phase' = "accepted"
        BY <2>1, <2>7 DEF SingleObject
      <3>2. body.broken = 0 /\ body.second = 0
        BY <1>1, <2>1, <2>2, <2>7 DEF Malformed
      <3>3. ~TooBig
        BY <1>1, <2>2, <2>7 DEF TooBig, Counted
      <3>4. body.ends # 0 /\ body.known
        BY <2>7 DEF Learnt
      <3>5. AcceptedWhenGood' /\ TooLargeMeansIt' /\ Learnt'
        BY <1>2, <2>2, <2>7, <3>1, <3>2, <3>3, <3>4
        DEF AcceptedWhenGood, TooLargeMeansIt, Learnt, Good, TooBig, Oversize
      <3>6. TypeOK' /\ ErrTrue' /\ Overdrawn'
        BY <1>1, <1>2, <2>1, <3>1 DEF TypeOK, ErrTrue, Overdrawn
      <3> QED
        BY <1>3, <3>5, <3>6
    <2>8. CASE err \in {"toolarge", "expanded"}
      <3>1. phase' = "toolarge" /\ TooBig
        BY <2>1, <2>3, <2>4, <2>8 DEF SingleObject, TooBig
      <3>2. TypeOK' /\ ErrTrue' /\ Overdrawn' /\ Learnt'
        BY <1>1, <1>2, <2>1, <3>1 DEF TypeOK, ErrTrue, Overdrawn, Learnt
      <3>3. AcceptedWhenGood' /\ TooLargeMeansIt'
        BY <1>2, <3>1 DEF AcceptedWhenGood, TooLargeMeansIt, Good, TooBig, Oversize
      <3> QED
        BY <1>3, <3>2, <3>3
    <2>9. CASE ~(phase = "rest" /\ err = "EOF" /\ body.second = 0) /\ err \notin {"toolarge", "expanded"}
      <3>1. phase' = "invalid"
        BY <2>1, <2>9 DEF SingleObject
      <3>2. ~body.intact \/ body.ends = 0 \/ body.second # 0
        BY <1>1, <2>1, <2>2, <2>5, <2>6, <2>9 DEF ValueRead
      <3>3. TypeOK' /\ ErrTrue' /\ Overdrawn' /\ Learnt'
        BY <1>1, <1>2, <2>1, <3>1 DEF TypeOK, ErrTrue, Overdrawn, Learnt
      <3>4. AcceptedWhenGood' /\ TooLargeMeansIt'
        BY <1>1, <1>2, <3>1, <3>2 DEF AcceptedWhenGood, TooLargeMeansIt, Good, TooBig, Oversize
      <3> QED
        BY <1>3, <3>3, <3>4
    <2> QED
      BY <2>7, <2>8, <2>9
  <1> QED
    BY <1>4, <1>5, <1>6, <1>7

(* The invariant holds for every body and every way it is cut into reads.  *)
LEMMA Invariance == Spec => []IInv
  <1>1. IInv /\ [Next]_vars => IInv'
    <2> SUFFICES ASSUME IInv, [Next]_vars PROVE IInv'
      OBVIOUS
    <2>1. CASE UNCHANGED vars
      BY <2>1 DEF vars, IInv, TypeOK, InnerTrue, ErrTrue, Counted, Overdrawn, Learnt,
         AcceptedWhenGood, TooLargeMeansIt, Good, TooBig, Oversize
    <2>2. CASE Next
      BY <2>2, ReadStep, AnswerStep DEF Next
    <2> QED
      BY <2>1, <2>2
  <1> QED
    BY <1>1, InitIInv, PTL DEF Spec

(* The decoder's state has its type; what it was handed is text there is,  *)
(* and the count is overdrawn by two reads at most.                        *)
THEOREM TypeCorrect == Spec => []TypeOK
  <1>1. IInv => TypeOK
    BY DEF IInv
  <1> QED
    BY <1>1, Invariance, PTL

(* A body is accepted when it is one complete object with known fields     *)
(* within both caps, to the byte, and otherwise never, however it is cut.  *)
THEOREM AcceptedExactlyWhenGood == Spec => []AcceptedWhenGood
  <1>1. IInv => AcceptedWhenGood
    BY DEF IInv
  <1> QED
    BY <1>1, Invariance, PTL

(* A 413 is only answered to a body over one of the caps.                  *)
THEOREM RefusedForItsSize == Spec => []TooLargeMeansIt
  <1>1. IInv => TooLargeMeansIt
    BY DEF IInv
  <1> QED
    BY <1>1, Invariance, PTL

(* However far a body expands, no more than two reads past the cap is      *)
(* taken out of it.                                                        *)
THEOREM ExpansionIsBounded == Spec => []ExpansionBounded
  <1>1. IInv => ExpansionBounded
    <2> SUFFICES ASSUME IInv PROVE ExpansionBounded
      OBVIOUS
    <2>1. body \in Bodies /\ body.gzip \in BOOLEAN /\ got \in Nat /\ remaining \in Int
      BY BodyParts DEF IInv, TypeOK
    <2> QED
      BY <2>1, Caps DEF IInv, Counted, Overdrawn, ExpansionBounded
  <1> QED
    BY <1>1, Invariance, PTL
=============================================================================
