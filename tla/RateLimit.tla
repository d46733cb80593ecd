------------------------------ MODULE RateLimit ------------------------------
(***************************************************************************)
(* The token-bucket middleware (middleware/ratelimit.go).  A request reads *)
(* the time first and takes the mutex of the buckets afterwards, so        *)
(* requests reach a bucket in another order than the one of their clock    *)
(* readings.                                                               *)
(*                                                                         *)
(* Time is counted in ticks, Second of them to a second, and the limit is  *)
(* CfgLimit requests per Per seconds, so that a token is Unit shares and a *)
(* tick refills Limit shares.  The floating-point arithmetic of the code   *)
(* is exact here.                                                          *)
(***************************************************************************)
EXTENDS Integers

CONSTANTS Conn,              \* connections, each with one request at a time
          Key,               \* bucket identities
          KeyOf,             \* KeyOf[c]: what KeyFunc derives for c's requests
          CfgLimit,          \* RatelimitConfig.Limit, in requests per Per seconds
          Per,               \* the denominator of the limit
          CfgBurst,          \* RatelimitConfig.Burst
          Second,            \* ticks in a second
          MaxTime            \* bound: the last tick

DefaultRatelimitLimit == 10

ASSUME KeyAssumption    == KeyOf \in [Conn -> Key]
ASSUME ConfigAssumption == CfgLimit \in Int /\ CfgBurst \in Int
ASSUME TimeAssumption   == Per \in Nat \ {0} /\ Second \in Nat \ {0} /\ MaxTime \in Nat

(* newRatelimitState: zero and negative values mean the defaults. *)
Limit == IF CfgLimit <= 0 THEN DefaultRatelimitLimit * Per ELSE CfgLimit

CeilDiv(a, b) == (a + b - 1) \div b

Burst == IF CfgBurst <= 0 THEN CeilDiv(Limit, Per) ELSE CfgBurst

Unit == Per * Second         \* shares in a token
Full == Burst * Unit         \* a full bucket

VARIABLES
  clock,       \* the time
  pc,          \* pc[c]: "idle", or "timed" between time.Now() and the mutex
  stamp,       \* stamp[c]: the time c's request read
  seen,        \* the keys that have a bucket
  tokens,      \* tokens[k]: bucket.tokens, in shares
  last,        \* last[k]: bucket.last
  oldest,      \* history: the oldest clock reading decided in the observed window
  admitted,    \* history: admitted[k]: requests let through in the window
  retryAt      \* retryAt[c]: when c was told to come back, 0 if not refused

vars == <<clock, pc, stamp, seen, tokens, last, oldest, admitted, retryAt>>

Init == /\ clock = 0
        /\ pc = [c \in Conn |-> "idle"]
        /\ stamp = [c \in Conn |-> 0]
        /\ seen = {}
        /\ tokens = [k \in Key |-> 0]
        /\ last = [k \in Key |-> 0]
        /\ oldest = 0
        /\ admitted = [k \in Key |-> 0]
        /\ retryAt = [c \in Conn |-> 0]

Tick == /\ clock < MaxTime
        /\ clock' = clock + 1
        /\ UNCHANGED <<pc, stamp, seen, tokens, last, oldest, admitted, retryAt>>

(* The handler evaluates time.Now() before it calls allow. *)
Arrive(c) ==
  /\ pc[c] = "idle"
  /\ pc' = [pc EXCEPT ![c] = "timed"]
  /\ stamp' = [stamp EXCEPT ![c] = clock]
  /\ UNCHANGED <<clock, seen, tokens, last, oldest, admitted, retryAt>>

(* (Wrong variant: idle time accumulates beyond the burst.) *)
Uncapped(k, now) == IF k \in seen THEN tokens[k] + Limit * (now - last[k]) ELSE Full

(* The bucket of k when a request of time now looks at it: a first request *)
(* finds it full, a later one finds it refilled up to the burst.  A        *)
(* request older than the last one takes back what that one was refilled.  *)
Refilled(k, now) ==
  LET grown == tokens[k] + Limit * (now - last[k])
  IN  IF k \in seen /\ grown < Full THEN grown ELSE Full

(* Retry-After: the seconds until a whole token is back.  It is at least 1, *)
(* since it is only computed when less than a token is left.               *)
Wait(t) == CeilDiv(Unit - t, Limit * Second)

(* (Wrong variant: allow forgets to move bucket.last.) *)
TouchNothing(c) == UNCHANGED last

Touch(c) == last' = [last EXCEPT ![KeyOf[c]] = stamp[c]]

(* allow, under the mutex, for the request of c. *)
Decide(c) ==
  /\ pc[c] = "timed"
  /\ pc' = [pc EXCEPT ![c] = "idle"]
  /\ seen' = seen \cup {KeyOf[c]}
  /\ Touch(c)
  /\ UNCHANGED <<clock, stamp, oldest>>

(* Others of the same key are no longer promised the token c took. *)
Admit(c) ==
  LET k == KeyOf[c]
      t == Refilled(k, stamp[c])
  IN  /\ Decide(c)
      /\ t >= Unit
      /\ tokens' = [tokens EXCEPT ![k] = t - Unit]
      /\ admitted' = [admitted EXCEPT ![k] = @ + 1]
      /\ retryAt' = [d \in Conn |-> IF KeyOf[d] = k THEN 0 ELSE retryAt[d]]

(* (Wrong variant: a refused request is charged all the same.) *)
ChargedForRefusal(t) == t - Unit

LeftForRefusal(t) == t

Refuse(c) ==
  LET k == KeyOf[c]
      t == Refilled(k, stamp[c])
  IN  /\ Decide(c)
      /\ t < Unit
      /\ tokens' = [tokens EXCEPT ![k] = LeftForRefusal(t)]
      /\ retryAt' = [retryAt EXCEPT ![c] = stamp[c] + Second * Wait(t)]
      /\ UNCHANGED admitted

(* An observer starts to count, at any time and any number of times.       *)
(* Requests that have read the clock but are not decided yet fall into the *)
(* window with the time they read.                                         *)
Observe ==
  /\ oldest' \in {clock} \cup {stamp[c] : c \in {d \in Conn : pc[d] = "timed"}}
  /\ \A c \in Conn : pc[c] = "timed" => oldest' <= stamp[c]
  /\ admitted' = [k \in Key |-> 0]
  /\ UNCHANGED <<clock, pc, stamp, seen, tokens, last, retryAt>>

Next == \/ Tick
        \/ Observe
        \/ \E c \in Conn : Arrive(c) \/ Admit(c) \/ Refuse(c)

Spec == Init /\ [][Next]_vars

-----------------------------------------------------------------------------
(* The type invariant.  Tokens may be owed, by at most what the clock has  *)
(* made up for since the bucket was last looked at, and never exceed the   *)
(* burst.                                                                  *)
TypeOK ==
  /\ clock \in 0..MaxTime
  /\ pc \in [Conn -> {"idle", "timed"}]
  /\ stamp \in [Conn -> 0..clock]
  /\ seen \in SUBSET Key
  /\ tokens \in [Key -> Int]
  /\ last \in [Key -> 0..clock]
  /\ \A k \in seen : 0 - Limit * (clock - last[k]) <= tokens[k] /\ tokens[k] <= Full
  /\ oldest \in 0..clock
  /\ admitted \in [Key -> Nat]
  /\ retryAt \in [Conn -> Nat]

(* "Ratelimit admits at most Limit requests per second per key, tolerating *)
(* bursts up to Burst": in whatever window one counts, a key gets no more  *)
(* than the burst and the refill of the window, where a window reaches     *)
(* back to the oldest clock reading decided in it.                         *)
WindowBudget ==
  \A k \in Key : admitted[k] * Unit <= Full + Limit * (clock - oldest)

(* Retry-After is honest: a refused client that comes back when it was     *)
(* told to is let through unless another request of its key took the token *)
(* meanwhile.  Requests refused in between cost it nothing.                *)
HonestRetryAfter ==
  \A c \in Conn :
    pc[c] = "timed" /\ retryAt[c] # 0 /\ stamp[c] >= retryAt[c]
      => Refilled(KeyOf[c], stamp[c]) >= Unit
=============================================================================
