-------------------------- MODULE RateLimitProofs --------------------------
(***************************************************************************)
(* The budget and the honesty of Retry-After, for every limit, burst, key  *)
(* function and number of connections, and for requests decided in any     *)
(* order.                                                                  *)
(***************************************************************************)
EXTENDS RateLimit, TLAPS

(* Once a key was admitted in the window, what it took and what is left of *)
(* it never exceed a full bucket and the refill up to bucket.last.         *)
Spent == \A k \in Key :
   admitted[k] # 0 => /\ k \in seen
                      /\ admitted[k] * Unit + tokens[k] <= Full + Limit * (last[k] - oldest)

InWindow == \A c \in Conn : pc[c] = "timed" => oldest <= stamp[c]

(* At the time a refused client was told, its bucket is back to a token.   *)
Promise == \A c \in Conn :
   retryAt[c] # 0 =>
      /\ KeyOf[c] \in seen
      /\ Unit <= tokens[KeyOf[c]] + Limit * (retryAt[c] - last[KeyOf[c]])

IInv == TypeOK /\ Spent /\ InWindow /\ Promise

-----------------------------------------------------------------------------
(* Rounding up: the quotient covers the dividend, and is positive.         *)
LEMMA CeilDivCovers ==
  ASSUME NEW a \in Nat \ {0}, NEW b \in Nat \ {0}
  PROVE  CeilDiv(a, b) \in Nat \ {0} /\ a <= b * CeilDiv(a, b)
<1> DEFINE n == a + b - 1
           q == n \div b
<1>1. n \in Nat /\ b > 0 /\ q \in Int /\ n < b * q + b
  OBVIOUS
<1>2. a <= b * q
  BY <1>1
<1>3. q > 0
  <2>1. CASE q <= 0
    <3>1. b * q <= 0
      BY <1>1, <2>1
    <3> QED BY <1>2, <3>1
  <2> QED BY <1>1, <2>1
<1> QED BY <1>1, <1>2, <1>3 DEF CeilDiv

(* The configuration in force is positive, whatever was configured.        *)
LEMMA Config ==
  /\ Limit \in Nat \ {0}
  /\ Burst \in Nat \ {0}
  /\ Unit \in Nat \ {0}
  /\ Full \in Nat \ {0}
  /\ Unit <= Full
<1>1. Limit \in Nat \ {0}
  <2>1. CASE CfgLimit <= 0
    BY <2>1, TimeAssumption DEF Limit, DefaultRatelimitLimit, TimeAssumption
  <2>2. CASE ~(CfgLimit <= 0)
    BY <2>2, ConfigAssumption DEF Limit, ConfigAssumption
  <2> QED BY <2>1, <2>2
<1>2. Burst \in Nat \ {0}
  <2>1. CeilDiv(Limit, Per) \in Nat \ {0}
    BY <1>1, CeilDivCovers, TimeAssumption DEF TimeAssumption
  <2>2. CASE CfgBurst <= 0
    BY <2>1, <2>2 DEF Burst
  <2>3. CASE ~(CfgBurst <= 0)
    BY <2>3, ConfigAssumption DEF Burst, ConfigAssumption
  <2> QED BY <2>2, <2>3
<1>3. Unit \in Nat \ {0}
  BY TimeAssumption DEF Unit, TimeAssumption
<1>4. Full \in Nat /\ Unit <= Full
  <2>1. ASSUME NEW b \in Nat \ {0}, NEW u \in Nat \ {0} PROVE b * u \in Nat /\ u <= b * u
    OBVIOUS
  <2> QED BY <1>2, <1>3, <2>1 DEF Full
<1> QED BY <1>1, <1>2, <1>3, <1>4

(* Refills add up, and grow with time.                                     *)
LEMMA RefillAdds ==
  ASSUME NEW L \in Int, NEW a \in Int, NEW b \in Int, NEW c \in Int
  PROVE  L * (a - b) + L * (b - c) = L * (a - c)
OBVIOUS

(* Time never takes from what a limit refills.                             *)
LEMMA RefillGrows ==
  ASSUME NEW L \in Nat, NEW a \in Int, NEW b \in Int, a <= b
  PROVE  L * a <= L * b
<1>1. L * (b - a) >= 0
  OBVIOUS
<1>2. L * (b - a) = L * b - L * a
  OBVIOUS
<1> QED BY <1>1, <1>2

-----------------------------------------------------------------------------
(* The initial state, in which no bucket exists, satisfies the invariant.  *)
LEMMA InitInv == ASSUME Init PROVE IInv
<1>1. TypeOK
  BY TimeAssumption DEF Init, TypeOK, TimeAssumption
<1>2. Spent /\ InWindow /\ Promise
  BY DEF Init, Spent, InWindow, Promise
<1> QED BY <1>1, <1>2 DEF IInv

(* What a request finds: no more than a full bucket, no more than what the *)
(* elapsed time makes of the bucket, and less than a token only in a       *)
(* bucket that exists and whose balance then is exactly what time made it. *)
LEMMA RefilledFacts ==
  ASSUME TypeOK, NEW k \in Key, NEW now \in Int
  PROVE  /\ Refilled(k, now) \in Int
         /\ Refilled(k, now) <= Full
         /\ k \in seen => Refilled(k, now) <= tokens[k] + Limit * (now - last[k])
         /\ Refilled(k, now) < Unit => /\ k \in seen
                                       /\ Refilled(k, now) = tokens[k] + Limit * (now - last[k])
<1> DEFINE grown == tokens[k] + Limit * (now - last[k])
<1>1. grown \in Int /\ Full \in Nat /\ Unit \in Nat /\ Unit <= Full
  BY Config DEF TypeOK
<1>2. Refilled(k, now) = IF k \in seen /\ grown < Full THEN grown ELSE Full
  BY DEF Refilled
<1> HIDE DEF grown
<1>3. /\ Refilled(k, now) \in Int
      /\ Refilled(k, now) <= Full
      /\ k \in seen => Refilled(k, now) <= grown
      /\ Refilled(k, now) < Unit => k \in seen /\ Refilled(k, now) = grown
  BY <1>1, <1>2
<1> QED BY <1>3 DEF grown

(* The part of a decision both outcomes share.                             *)
LEMMA DecideFacts ==
  ASSUME KeyAssumption, TypeOK, NEW c \in Conn, Decide(c)
  PROVE  /\ KeyOf[c] \in Key /\ stamp[c] \in 0..clock
         /\ clock' = clock /\ stamp' = stamp /\ oldest' = oldest
         /\ pc' \in [Conn -> {"idle", "timed"}]
         /\ \A d \in Conn : pc'[d] = "timed" => pc[d] = "timed"
         /\ seen' = seen \cup {KeyOf[c]} /\ seen' \in SUBSET Key
         /\ last' \in [Key -> 0..clock]
         /\ last'[KeyOf[c]] = stamp[c]
         /\ \A k \in Key \ {KeyOf[c]} : last'[k] = last[k]
BY DEF Decide, Touch, TypeOK, KeyAssumption

(* The balance stays above what time can make up for.                      *)
LEMMA BalanceAbove ==
  ASSUME TypeOK, NEW k \in Key, NEW now \in 0..clock
  PROVE  0 - Limit * (clock - now) <= Refilled(k, now)
<1>1. Limit \in Nat /\ clock \in Int /\ Full \in Nat
  BY Config DEF TypeOK
<1>2. Limit * (clock - now) >= 0
  <2>1. Limit * 0 <= Limit * (clock - now)
    BY <1>1, RefillGrows
  <2> QED BY <1>1, <2>1
<1>3. CASE k \in seen /\ tokens[k] + Limit * (now - last[k]) < Full
  <2>1. tokens[k] \in Int /\ last[k] \in Int /\ 0 - Limit * (clock - last[k]) <= tokens[k]
    BY <1>3 DEF TypeOK
  <2>2. Limit * (clock - now) + Limit * (now - last[k]) = Limit * (clock - last[k])
    BY <1>1, <2>1, RefillAdds
  <2>3. Refilled(k, now) = tokens[k] + Limit * (now - last[k])
    BY <1>3 DEF Refilled
  <2> DEFINE x == Limit * (clock - now)
             y == Limit * (now - last[k])
             z == Limit * (clock - last[k])
  <2>4. x \in Int /\ y \in Int /\ z \in Int
    BY <1>1, <2>1
  <2> HIDE DEF x, y, z
  <2>5. 0 - x <= tokens[k] + y
    BY <2>1, <2>2, <2>4 DEF x, y, z
  <2> QED BY <2>3, <2>5 DEF x, y
<1>4. CASE ~(k \in seen /\ tokens[k] + Limit * (now - last[k]) < Full)
  <2>1. Refilled(k, now) = Full
    BY <1>4 DEF Refilled
  <2> QED BY <1>1, <1>2, <2>1
<1> QED BY <1>3, <1>4

(* The clock moves: budgets grow, debts shrink, promises come closer.      *)
LEMMA TickInv == ASSUME IInv, Tick PROVE IInv'
<1>1. Limit \in Nat /\ clock \in Nat /\ clock' = clock + 1
  BY Config DEF Tick, IInv, TypeOK
<1>2. ASSUME NEW k \in seen
      PROVE  0 - Limit * (clock' - last[k]) <= tokens[k] /\ tokens[k] <= Full
  <2>1. /\ tokens[k] \in Int /\ last[k] \in Int /\ tokens[k] <= Full
        /\ 0 - Limit * (clock - last[k]) <= tokens[k]
    BY DEF IInv, TypeOK
  <2>2. Limit * (clock - last[k]) <= Limit * (clock' - last[k])
    BY <1>1, <2>1, RefillGrows
  <2> DEFINE x == Limit * (clock - last[k])
             y == Limit * (clock' - last[k])
  <2>3. x \in Int /\ y \in Int
    BY <1>1, <2>1
  <2> HIDE DEF x, y
  <2>4. 0 - y <= tokens[k]
    BY <2>1, <2>2, <2>3 DEF x, y
  <2> QED BY <2>1, <2>4 DEF y
<1>3. TypeOK'
  BY <1>1, <1>2, TimeAssumption DEF Tick, IInv, TypeOK, TimeAssumption
<1>4. Spent' /\ InWindow' /\ Promise'
  BY DEF Tick, IInv, Spent, InWindow, Promise
<1> QED BY <1>3, <1>4 DEF IInv

(* A request reads the clock, which no bucket notices.                     *)
LEMMA ArriveInv == ASSUME IInv, NEW c \in Conn, Arrive(c) PROVE IInv'
<1>1. TypeOK'
  BY DEF Arrive, IInv, TypeOK
<1>2. Spent' /\ Promise'
  BY DEF Arrive, IInv, Spent, Promise
<1>3. InWindow'
  BY DEF Arrive, IInv, InWindow, TypeOK
<1> QED BY <1>1, <1>2, <1>3 DEF IInv

(* A new window starts with its whole budget.                              *)
LEMMA ObserveInv == ASSUME IInv, Observe PROVE IInv'
<1>1. oldest' \in 0..clock /\ \A c \in Conn : pc[c] = "timed" => oldest' <= stamp[c]
  BY DEF Observe, IInv, TypeOK
<1>2. TypeOK'
  BY <1>1 DEF Observe, IInv, TypeOK
<1>3. Spent' /\ InWindow' /\ Promise'
  BY <1>1 DEF Observe, IInv, Spent, InWindow, Promise
<1> QED BY <1>2, <1>3 DEF IInv

(* An admitted request pays with a token: the window's account stays       *)
(* balanced, and promises made on the key before are void.                 *)
LEMMA AdmitInv == ASSUME KeyAssumption, IInv, NEW c \in Conn, Admit(c) PROVE IInv'
<1> DEFINE k == KeyOf[c]
           s == stamp[c]
           t == Refilled(k, s)
<1>1. /\ Decide(c) /\ Unit <= t
      /\ tokens' = [tokens EXCEPT ![k] = t - Unit]
      /\ admitted' = [admitted EXCEPT ![k] = @ + 1]
      /\ retryAt' = [d \in Conn |-> IF KeyOf[d] = k THEN 0 ELSE retryAt[d]]
  <2>1. t \in Int /\ Unit \in Nat
    BY RefilledFacts, DecideFacts, Config DEF Admit, IInv, TypeOK
  <2> QED BY <2>1 DEF Admit
<1>2. /\ k \in Key /\ s \in 0..clock /\ clock' = clock /\ stamp' = stamp /\ oldest' = oldest
      /\ pc' \in [Conn -> {"idle", "timed"}]
      /\ \A d \in Conn : pc'[d] = "timed" => pc[d] = "timed"
      /\ seen' = seen \cup {k} /\ seen' \in SUBSET Key
      /\ last' \in [Key -> 0..clock]
      /\ last'[k] = s
      /\ \A q \in Key \ {k} : last'[q] = last[q]
  BY <1>1, DecideFacts DEF IInv
<1>3. /\ t \in Int /\ t <= Full
      /\ k \in seen => t <= tokens[k] + Limit * (s - last[k])
  BY <1>2, RefilledFacts DEF IInv, TypeOK
<1>4. Limit \in Nat /\ Unit \in Nat /\ Full \in Nat /\ clock \in Nat /\ oldest \in Nat /\ oldest <= s
  BY <1>1, Config DEF Decide, IInv, TypeOK, InWindow
<1> HIDE DEF k, s, t
<1>5. TypeOK'
  <2>1. ASSUME NEW q \in seen' PROVE 0 - Limit * (clock - last'[q]) <= tokens'[q] /\ tokens'[q] <= Full
    <3>1. CASE q = k
      <4>1. Limit * (clock - s) >= 0
        <5>1. Limit * 0 <= Limit * (clock - s)
          BY <1>2, <1>4, RefillGrows
        <5> QED BY <1>4, <5>1
      <4>2. Limit * (clock - s) \in Int
        BY <1>2, <1>4
      <4>3. tokens'[k] = t - Unit
        BY <1>1, <1>2 DEF IInv, TypeOK
      <4> DEFINE x == Limit * (clock - s)
      <4> HIDE DEF x
      <4>4. 0 - x <= t - Unit /\ t - Unit <= Full
        BY <1>1, <1>3, <1>4, <4>1, <4>2 DEF x
      <4> QED BY <1>2, <3>1, <4>3, <4>4 DEF x
    <3>2. CASE q # k
      BY <1>1, <1>2, <2>1, <3>2 DEF IInv, TypeOK
    <3> QED BY <3>1, <3>2
  <2>2. tokens' \in [Key -> Int] /\ admitted' \in [Key -> Nat] /\ retryAt' \in [Conn -> Nat]
    BY <1>1, <1>2, <1>3, <1>4 DEF IInv, TypeOK
  <2> QED BY <1>2, <2>1, <2>2 DEF IInv, TypeOK
<1>6. Spent'
  <2> SUFFICES ASSUME NEW q \in Key, admitted'[q] # 0
               PROVE  /\ q \in seen'
                      /\ admitted'[q] * Unit + tokens'[q] <= Full + Limit * (last'[q] - oldest)
    BY <1>2 DEF Spent
  <2>1. CASE q # k
    BY <1>1, <1>2, <2>1 DEF IInv, TypeOK, Spent
  <2>2. CASE q = k
    <3> DEFINE a == admitted[k]
               x == Limit * (s - last[k])
               y == Limit * (last[k] - oldest)
               z == Limit * (s - oldest)
    <3>1. /\ a \in Nat /\ tokens[k] \in Int /\ last[k] \in Int
          /\ admitted'[k] = a + 1 /\ tokens'[k] = t - Unit
      BY <1>1, <1>2 DEF IInv, TypeOK
    <3>2. x \in Int /\ y \in Int /\ z \in Int /\ x + y = z
      BY <1>2, <1>4, <3>1, RefillAdds
    <3>3. z >= 0
      <4>1. Limit * 0 <= Limit * (s - oldest)
        BY <1>2, <1>4, RefillGrows
      <4> QED BY <1>4, <4>1
    <3>4. (a + 1) * Unit + (t - Unit) = a * Unit + t
      BY <1>3, <1>4, <3>1
    <3>5. a * Unit + t <= Full + z
      <4>1. CASE a = 0
        BY <1>3, <1>4, <3>2, <3>3, <4>1
      <4>2. CASE a # 0
        <5>1. k \in seen /\ a * Unit + tokens[k] <= Full + y
          BY <1>2, <4>2 DEF IInv, Spent
        <5>2. t <= tokens[k] + x
          BY <1>3, <5>1
        <5> DEFINE b == a * Unit
        <5>3. b \in Int
          BY <1>4, <3>1
        <5> HIDE DEF a, b, x, y, z
        <5>4. b + t <= Full + z
          BY <1>3, <1>4, <3>1, <3>2, <5>1, <5>2, <5>3 DEF b
        <5> QED BY <5>4 DEF b
      <4> QED BY <4>1, <4>2
    <3> QED BY <1>2, <2>2, <3>1, <3>4, <3>5
  <2> QED BY <2>1, <2>2
<1>7. InWindow'
  BY <1>2 DEF IInv, InWindow
<1>8. Promise'
  BY <1>1, <1>2, KeyAssumption DEF IInv, TypeOK, Promise, KeyAssumption
<1> QED BY <1>5, <1>6, <1>7, <1>8 DEF IInv

(* A refused request moves the bucket to its own time and nothing else:    *)
(* what the bucket will hold at any later time is unchanged.               *)
LEMMA RefuseInv == ASSUME KeyAssumption, IInv, NEW c \in Conn, Refuse(c) PROVE IInv'
<1> DEFINE k == KeyOf[c]
           s == stamp[c]
           t == Refilled(k, s)
<1>1. /\ Decide(c) /\ t < Unit
      /\ tokens' = [tokens EXCEPT ![k] = t]
      /\ admitted' = admitted
      /\ retryAt' = [retryAt EXCEPT ![c] = s + Second * Wait(t)]
  BY DEF Refuse, LeftForRefusal
<1>2. /\ k \in Key /\ s \in 0..clock /\ clock' = clock /\ stamp' = stamp /\ oldest' = oldest
      /\ pc' \in [Conn -> {"idle", "timed"}]
      /\ \A d \in Conn : pc'[d] = "timed" => pc[d] = "timed"
      /\ seen' = seen \cup {k} /\ seen' \in SUBSET Key
      /\ last' \in [Key -> 0..clock]
      /\ last'[k] = s
      /\ \A q \in Key \ {k} : last'[q] = last[q]
  BY <1>1, DecideFacts DEF IInv
<1>3. t \in Int /\ t <= Full /\ k \in seen /\ t = tokens[k] + Limit * (s - last[k])
  BY <1>1, <1>2, RefilledFacts DEF IInv, TypeOK
<1>4. 0 - Limit * (clock - s) <= t
  BY <1>2, BalanceAbove DEF IInv
<1>5. /\ Limit \in Nat \ {0} /\ Unit \in Nat /\ Second \in Nat \ {0}
      /\ clock \in Nat /\ oldest \in Nat
      /\ tokens[k] \in Int /\ last[k] \in Int
  BY <1>2, Config, TimeAssumption DEF TimeAssumption, IInv, TypeOK
<1> HIDE DEF k, s, t
<1>6. Wait(t) \in Nat \ {0} /\ Unit - t <= Limit * (Second * Wait(t))
  <2>1. Unit - t \in Nat \ {0} /\ Limit * Second \in Nat \ {0}
    BY <1>1, <1>3, <1>5
  <2>2. Wait(t) \in Nat \ {0} /\ Unit - t <= (Limit * Second) * Wait(t)
    BY <2>1, CeilDivCovers DEF Wait
  <2>3. (Limit * Second) * Wait(t) = Limit * (Second * Wait(t))
    BY <1>5, <2>2
  <2> QED BY <2>2, <2>3
<1>7. TypeOK'
  <2>1. ASSUME NEW q \in seen' PROVE 0 - Limit * (clock - last'[q]) <= tokens'[q] /\ tokens'[q] <= Full
    <3>1. CASE q = k
      BY <1>1, <1>2, <1>3, <1>4, <3>1 DEF IInv, TypeOK
    <3>2. CASE q # k
      BY <1>1, <1>2, <2>1, <3>2 DEF IInv, TypeOK
    <3> QED BY <3>1, <3>2
  <2>2. s + Second * Wait(t) \in Nat
    BY <1>2, <1>5, <1>6
  <2>3. tokens' \in [Key -> Int] /\ admitted' \in [Key -> Nat] /\ retryAt' \in [Conn -> Nat]
    BY <1>1, <1>2, <1>3, <2>2 DEF IInv, TypeOK
  <2> QED BY <1>2, <2>1, <2>3 DEF IInv, TypeOK
<1>8. Spent'
  <2> SUFFICES ASSUME NEW q \in Key, admitted[q] # 0
               PROVE  /\ q \in seen'
                      /\ admitted[q] * Unit + tokens'[q] <= Full + Limit * (last'[q] - oldest)
    BY <1>1, <1>2 DEF Spent
  <2>1. CASE q # k
    BY <1>1, <1>2, <2>1 DEF IInv, TypeOK, Spent
  <2>2. CASE q = k
    <3> DEFINE b == admitted[k] * Unit
               x == Limit * (s - last[k])
               y == Limit * (last[k] - oldest)
               z == Limit * (s - oldest)
    <3>1. b + tokens[k] <= Full + y
      BY <1>2, <2>2 DEF IInv, Spent
    <3>2. x \in Int /\ y \in Int /\ z \in Int /\ x + y = z
      BY <1>2, <1>5, RefillAdds
    <3>3. b \in Int /\ Full \in Int
      BY <1>2, <1>5, Config DEF IInv, TypeOK
    <3>4. t = tokens[k] + x
      BY <1>3
    <3> HIDE DEF b, x, y, z
    <3>5. b + t <= Full + z
      BY <1>3, <1>5, <3>1, <3>2, <3>3, <3>4
    <3>6. tokens'[k] = t
      BY <1>1, <1>2 DEF IInv, TypeOK
    <3> QED BY <1>2, <2>2, <3>5, <3>6 DEF b, z
  <2> QED BY <2>1, <2>2
<1>9. InWindow'
  BY <1>2 DEF IInv, InWindow
<1>10. Promise'
  <2> SUFFICES ASSUME NEW d \in Conn, retryAt'[d] # 0
               PROVE  /\ KeyOf[d] \in seen'
                      /\ Unit <= tokens'[KeyOf[d]] + Limit * (retryAt'[d] - last'[KeyOf[d]])
    BY DEF Promise
  <2>0. KeyOf[d] \in Key /\ tokens'[k] = t
    BY <1>1, <1>2, KeyAssumption DEF KeyAssumption, IInv, TypeOK
  <2>1. CASE d = c
    <3>1. retryAt'[d] = s + Second * Wait(t) /\ KeyOf[d] = k
      BY <1>1, <2>1 DEF IInv, TypeOK, k
    <3>2. (s + Second * Wait(t)) - s = Second * Wait(t) /\ Limit * (Second * Wait(t)) \in Int
      BY <1>2, <1>5, <1>6
    <3>3. Unit <= t + Limit * (Second * Wait(t))
      BY <1>3, <1>5, <1>6, <3>2
    <3> QED BY <1>2, <2>0, <3>1, <3>2, <3>3
  <2>2. CASE d # c /\ KeyOf[d] = k
    <3> DEFINE r == retryAt[d]
               x == Limit * (r - last[k])
               y == Limit * (r - s)
               z == Limit * (s - last[k])
    <3>1. r # 0 /\ retryAt'[d] = r /\ r \in Nat
      BY <1>1, <2>2 DEF IInv, TypeOK
    <3>2. Unit <= tokens[k] + x
      BY <2>2, <3>1 DEF IInv, Promise
    <3>3. x \in Int /\ y \in Int /\ z \in Int /\ y + z = x
      BY <1>2, <1>5, <3>1, RefillAdds
    <3>4. t = tokens[k] + z
      BY <1>3
    <3> HIDE DEF x, y, z
    <3>5. Unit <= t + y
      BY <1>3, <1>5, <3>2, <3>3, <3>4
    <3> QED BY <1>2, <2>0, <2>2, <3>1, <3>5 DEF y
  <2>3. CASE d # c /\ KeyOf[d] # k
    BY <1>1, <1>2, <2>0, <2>3 DEF IInv, TypeOK, Promise
  <2> QED BY <2>1, <2>2, <2>3
<1> QED BY <1>7, <1>8, <1>9, <1>10 DEF IInv

-----------------------------------------------------------------------------
(* The account of every window and the standing promises hold throughout.  *)
THEOREM InductiveInvariant == Spec => []IInv
<1>1. IInv /\ [Next]_vars => IInv'
  <2>1. ASSUME IInv, Next PROVE IInv'
    BY <2>1, TickInv, ArriveInv, ObserveInv, AdmitInv, RefuseInv, KeyAssumption DEF Next
  <2>2. ASSUME IInv, UNCHANGED vars PROVE IInv'
    BY <2>2 DEF vars, IInv, TypeOK, Spent, InWindow, Promise, Refilled
  <2> QED BY <2>1, <2>2
<1> QED BY <1>1, InitInv, PTL DEF Spec

(* The variables keep their types; no bucket overflows the burst.          *)
THEOREM TypeCorrect == Spec => []TypeOK
<1>1. IInv => TypeOK
  BY DEF IInv
<1> QED BY <1>1, InductiveInvariant, PTL

(* In every window a key is admitted at most the burst and the refill.     *)
THEOREM BudgetKept == Spec => []WindowBudget
<1>1. ASSUME IInv PROVE WindowBudget
  <2> SUFFICES ASSUME NEW k \in Key PROVE admitted[k] * Unit <= Full + Limit * (clock - oldest)
    BY DEF WindowBudget
  <2>1. /\ Limit \in Nat /\ Unit \in Nat /\ Full \in Nat /\ clock \in Nat /\ oldest \in 0..clock
        /\ admitted[k] \in Nat /\ tokens[k] \in Int /\ last[k] \in 0..clock
    BY <1>1, Config DEF IInv, TypeOK
  <2> DEFINE b == admitted[k] * Unit
             x == Limit * (clock - last[k])
             y == Limit * (last[k] - oldest)
             z == Limit * (clock - oldest)
  <2>2. b \in Int /\ x \in Int /\ y \in Int /\ z \in Int /\ x + y = z
    BY <2>1, RefillAdds
  <2>3. CASE admitted[k] = 0
    <3>1. Limit * 0 <= Limit * (clock - oldest)
      BY <2>1, RefillGrows
    <3>2. b = 0 /\ 0 <= z
      BY <2>1, <2>3, <3>1
    <3> QED BY <2>1, <2>2, <3>2
  <2>4. CASE admitted[k] # 0
    <3>1. b + tokens[k] <= Full + y /\ 0 - x <= tokens[k]
      BY <1>1, <2>4 DEF IInv, Spent, TypeOK
    <3> HIDE DEF b, x, y, z
    <3>2. b <= Full + z
      BY <2>1, <2>2, <3>1
    <3> QED BY <3>2 DEF b, z
  <2> QED BY <2>3, <2>4
<1> QED BY <1>1, InductiveInvariant, PTL

(* A client that waited as long as it was told finds a token.              *)
THEOREM RetryAfterIsHonest == Spec => []HonestRetryAfter
<1>1. ASSUME IInv PROVE HonestRetryAfter
  <2> SUFFICES ASSUME NEW c \in Conn, pc[c] = "timed", retryAt[c] # 0, stamp[c] >= retryAt[c]
               PROVE  Refilled(KeyOf[c], stamp[c]) >= Unit
    BY DEF HonestRetryAfter
  <2> DEFINE k == KeyOf[c]
  <2>1. /\ k \in Key /\ k \in seen /\ tokens[k] \in Int /\ last[k] \in Int
        /\ retryAt[c] \in Int /\ stamp[c] \in Int /\ Limit \in Nat
        /\ Unit \in Nat /\ Full \in Nat /\ Unit <= Full
        /\ Unit <= tokens[k] + Limit * (retryAt[c] - last[k])
    BY <1>1, Config, KeyAssumption DEF KeyAssumption, IInv, TypeOK, Promise
  <2>2. Limit * (retryAt[c] - last[k]) <= Limit * (stamp[c] - last[k])
    BY <2>1, RefillGrows
  <2> DEFINE x == Limit * (retryAt[c] - last[k])
             y == Limit * (stamp[c] - last[k])
  <2>3. x \in Int /\ y \in Int
    BY <2>1
  <2>4. Refilled(k, stamp[c]) = IF tokens[k] + y < Full THEN tokens[k] + y ELSE Full
    BY <2>1 DEF Refilled
  <2> HIDE DEF k, x, y
  <2>5. Unit <= tokens[k] + y
    BY <2>1, <2>2, <2>3 DEF x, y
  <2>6. Refilled(k, stamp[c]) >= Unit
    BY <2>1, <2>3, <2>4, <2>5
  <2> QED BY <2>6 DEF k
<1> QED BY <1>1, InductiveInvariant, PTL
=============================================================================
