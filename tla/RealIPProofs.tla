----------------------------- MODULE RealIPProofs -----------------------------
(***************************************************************************)
(* Proofs about RealIP, for any addresses, settings, seeded headers and    *)
(* numbers of proxies: who sends a request cannot choose whom it is        *)
(* attributed to, and a visitor behind trusted hops is found.              *)
(***************************************************************************)
EXTENDS RealIP, FiniteSetTheorems, TLAPS

Entry == Addr \cup {Garbage}
Hop == [hop : Addr, replaced : BOOLEAN]

Hops == {passed[i].hop : i \in DOMAIN passed}
EdgePassed == \E i \in DOMAIN passed : passed[i].hop \in Edges

(* The way so far: its last hop is where the request is.                   *)
OnItsWay == /\ passed \in Seq(Hop)
            /\ forwarded \in Seq(Entry)
            /\ seeded \in Nat /\ seeded <= Len(forwarded)
            /\ passed = <<>> => seeded = Len(forwarded)
            /\ from = IF passed = <<>> THEN sender ELSE Last(passed).hop

(* The entries the sender did not write are its own address and the hops.  *)
OwnEntries == \A i \in (seeded + 1)..Len(forwarded) : forwarded[i] \in {sender} \cup Hops

(* The first of them is the sender's address, unless the sender's entries  *)
(* are gone.                                                               *)
SenderFirst == passed # <<>> => /\ Len(forwarded) # 0
                                /\ seeded # 0 => seeded < Len(forwarded) /\ forwarded[seeded + 1] = sender

(* Without an edge on the way, the last entry is no edge; with one, the    *)
(* CDN's header is the sender's address.                                   *)
EdgesKnown == /\ ~EdgePassed /\ passed # <<>> => forwarded[Len(forwarded)] \notin Edges
              /\ EdgePassed => visitor = sender

(* What the server trusts, and what it made of the request.                *)
Configured == /\ trusted \subseteq Addr /\ cdn \subseteq Edges
              /\ sender \in Visitors \cup Neighbours
              /\ visitor \in Visitors \cup {Garbage}
              /\ phase \in {"boot", "refused", "way", "served"}
              /\ phase \in {"boot", "refused"} => passed = <<>>
Settled == /\ phase = "served" => resolved = ResolveClient(forwarded, visitor)
           /\ phase # "served" => resolved = sender

(* The prefixes the server got are those the setting stands for.           *)
Vouched == phase \notin {"boot", "refused"} => \A addr : addr \in trusted <=> MaySpeak(addr)

IInv == OnItsWay /\ OwnEntries /\ SenderFirst /\ EdgesKnown /\ Configured /\ Settled /\ Vouched

-----------------------------------------------------------------------------
(* A set of positions in a sequence has a last one.                        *)
LEMMA MaxIn ==
  ASSUME NEW n \in Nat, NEW S \in SUBSET (1..n), S # {}
  PROVE  Max(S) \in S /\ \A y \in S : Max(S) >= y
  <1> DEFINE T == {x..n : x \in S}
             R == StrictSubsetOrdering(1..n)
  <1>1. T \subseteq SUBSET (1..n) /\ T # {}
    <2>1. \A x \in S : x..n \subseteq 1..n
      OBVIOUS
    <2>2. PICK x \in S : TRUE
      OBVIOUS
    <2>3. x..n \in T
      OBVIOUS
    <2> QED
      BY <2>1, <2>3, Zenon
  <1>2. IsWellFoundedOn(R, SUBSET (1..n))
    <2>1. IsFiniteSet(1..n)
      BY FS_Interval
    <2> QED
      BY <2>1, FS_StrictSubsetOrderingWellFounded, FS_FiniteSubsetsOfFinite
  <1>3. PICK t \in T : \A u \in T : ~(<<u, t>> \in R)
    <2> HIDE DEF T, R
    <2> QED
      BY <1>1, <1>2, WFMin
  <1>4. PICK x \in S : t = x..n
    OBVIOUS
  <1>5. \A y \in S : x >= y
    <2> SUFFICES ASSUME NEW y \in S, y > x PROVE FALSE
      OBVIOUS
    <2>1. y..n \in T
      OBVIOUS
    <2>2. y..n \subseteq x..n /\ x \in x..n /\ x \notin y..n
      OBVIOUS
    <2>3. <<y..n, x..n>> \in R
      BY <1>1, <1>4, <2>1, <2>2 DEF StrictSubsetOrdering
    <2> QED
      BY <1>3, <1>4, <2>1, <2>3
  <1> QED
    BY <1>5 DEF Max

(* The walk ends at an untrusted hop with none to its right, if any is.    *)
LEMMA WalkEnds ==
  ASSUME NEW hops \in Seq(Entry), Stops(hops) # {}
  PROVE  /\ Max(Stops(hops)) \in 1..Len(hops)
         /\ FirstUntrusted(hops) = hops[Max(Stops(hops))]
         /\ hops[Max(Stops(hops))] \notin trusted
         /\ \A i \in 1..Len(hops) : i > Max(Stops(hops)) => hops[i] \in trusted
  <1>1. Len(hops) \in Nat /\ Stops(hops) \in SUBSET (1..Len(hops))
    BY DEF Stops
  <1>2. Max(Stops(hops)) \in Stops(hops) /\ \A y \in Stops(hops) : Max(Stops(hops)) >= y
    BY <1>1, MaxIn
  <1> HIDE DEF Stops
  <1>3. FirstUntrusted(hops) = hops[Max(Stops(hops))]
    BY DEF FirstUntrusted
  <1>4. Max(Stops(hops)) \in 1..Len(hops) /\ hops[Max(Stops(hops))] \notin trusted
    BY <1>1, <1>2 DEF Stops
  <1>5. ASSUME NEW i \in 1..Len(hops), i > Max(Stops(hops)) PROVE hops[i] \in trusted
    <2>1. i \notin Stops(hops)
      BY <1>2, <1>4, <1>5
    <2> QED
      BY <2>1 DEF Stops
  <1> QED
    BY <1>3, <1>4, <1>5

(* Two walks that see the same from some untrusted hop on end alike.       *)
LEMMA SameEnd ==
  ASSUME NEW hops \in Seq(Entry), NEW k \in Nat, k < Len(hops), hops[k + 1] \notin trusted
  PROVE  LET rest == SubSeq(hops, k + 1, Len(hops)) IN
           /\ rest # <<>>
           /\ FirstUntrusted(rest) = FirstUntrusted(hops)
           /\ \E i \in (k + 1)..Len(hops) : FirstUntrusted(hops) = hops[i]
  <1> DEFINE rest == SubSeq(hops, k + 1, Len(hops))
             n == Len(hops)
             m == Max(Stops(hops))
             r == Max(Stops(rest))
  <1>1. /\ n \in Nat /\ rest \in Seq(Entry) /\ Len(rest) = n - k
        /\ \A i \in 1..(n - k) : rest[i] = hops[k + i]
    OBVIOUS
  <1> HIDE DEF rest
  <1>2. k + 1 \in Stops(hops)
    BY <1>1 DEF Stops
  <1>3. 1 \in Stops(rest)
    BY <1>1 DEF Stops
  <1>4. /\ m \in 1..n /\ FirstUntrusted(hops) = hops[m] /\ hops[m] \notin trusted
        /\ \A i \in 1..n : i > m => hops[i] \in trusted
    BY <1>2, WalkEnds
  <1>5. /\ r \in 1..(n - k) /\ FirstUntrusted(rest) = rest[r] /\ rest[r] \notin trusted
        /\ \A i \in 1..(n - k) : i > r => rest[i] \in trusted
    BY <1>1, <1>3, WalkEnds
  <1> HIDE DEF m, r
  <1>6. m >= k + 1
    BY <1>1, <1>4
  <1>7. m = k + r
    <2>1. ~(k + r > m)
      <3>1. k + r \in 1..n /\ rest[r] = hops[k + r]
        BY <1>1, <1>5
      <3> QED
        BY <1>4, <1>5, <3>1
    <2>2. ~(m - k > r)
      <3> SUFFICES ASSUME m - k > r PROVE FALSE
        OBVIOUS
      <3>1. m - k \in 1..(n - k) /\ k + (m - k) = m
        BY <1>1, <1>4, <1>6
      <3>2. rest[m - k] = hops[m]
        BY <1>1, <3>1
      <3> QED
        BY <1>4, <1>5, <3>1, <3>2
    <2> QED
      BY <1>1, <1>4, <1>5, <2>1, <2>2
  <1>8. FirstUntrusted(rest) = FirstUntrusted(hops)
    BY <1>1, <1>4, <1>5, <1>7
  <1>9. rest # <<>>
    BY <1>1
  <1> QED
    BY <1>1, <1>4, <1>6, <1>8, <1>9 DEF rest

-----------------------------------------------------------------------------
(* The setting is read once.                                               *)
LEMMA SameVouched == Vouched /\ UNCHANGED <<phase, setting, trusted>> => Vouched'
  BY DEF Vouched, MaySpeak, Entries, Meaning

(* A request starts at its sender, with whatever it seeded.                *)
LEMMA InitIInv == Init => IInv
  <1> SUFFICES ASSUME Init PROVE IInv
    OBVIOUS
  <1>1. forwarded \in Seq(Entry) /\ Len(forwarded) \in Nat
    <2>1. PICK m \in 0..MaxSeeded : forwarded \in [1..m -> Entry]
      BY DEF Init, BoundedSeq, SeqOf, Entry
    <2>2. m \in Nat
      BY <2>1, RealIPAssumption
    <2> QED
      BY <2>1, <2>2
  <1>2. OnItsWay /\ OwnEntries /\ SenderFirst /\ EdgesKnown
    BY <1>1 DEF Init, OnItsWay, OwnEntries, SenderFirst, EdgesKnown, EdgePassed
  <1>3. Configured /\ Settled /\ Vouched
    BY DEF Init, Configured, Settled, Vouched
  <1> QED
    BY <1>2, <1>3 DEF IInv

(* What the router ends up with is what the setting says.                  *)
LEMMA Listed == /\ setting = {"none"} => ConfigTrusted(TrustedProxies) = {}
                /\ setting # {"none"} /\ Entries = {} => ConfigTrusted(TrustedProxies) = Private
                /\ setting # {"none"} /\ Entries # {} =>
                     ConfigTrusted(TrustedProxies) = UNION {Meaning(entry) : entry \in Entries}
                /\ \A addr : addr \in ConfigTrusted(TrustedProxies) <=> MaySpeak(addr)
  <1>1. Entries = {} <=> setting = {} \/ setting = {Empty}
    BY DEF Entries
  <1>2. Empty # "none"
    BY DEF Empty
  <1>3. \A s : <<s>>[1] = s /\ <<s>> # <<>>
    OBVIOUS
  <1>4. CASE setting = {"none"}
    <2>1. TrustedProxies = <<{}>>
      BY <1>2, <1>4 DEF TrustedProxies
    <2> QED
      BY <1>3, <1>4, <2>1 DEF ConfigTrusted, MaySpeak
  <1>5. CASE setting = {}
    <2>1. TrustedProxies = <<Private>>
      BY <1>5 DEF TrustedProxies
    <2> QED
      BY <1>1, <1>3, <1>5, <2>1 DEF ConfigTrusted, MaySpeak
  <1>6. CASE setting = {Empty}
    <2>1. TrustedProxies = <<>> /\ setting # {"none"} /\ Entries = {}
      BY <1>1, <1>2, <1>6 DEF TrustedProxies
    <2> QED
      BY <2>1 DEF ConfigTrusted, MaySpeak
  <1>7. CASE setting # {"none"} /\ setting # {} /\ setting # {Empty}
    <2> DEFINE U == UNION {Meaning(entry) : entry \in Entries}
    <2>1. TrustedProxies = <<U>> /\ Entries # {}
      BY <1>1, <1>7 DEF TrustedProxies
    <2>2. \A addr : addr \in U <=> \E entry \in Entries : addr \in Meaning(entry)
      OBVIOUS
    <2> HIDE DEF U
    <2>3. ConfigTrusted(TrustedProxies) = U
      BY <1>3, <2>1 DEF ConfigTrusted
    <2> QED
      BY <1>7, <2>1, <2>2, <2>3 DEF MaySpeak, U
  <1> QED
    BY <1>4, <1>5, <1>6, <1>7

(* The trusted set and the CDN's ranges are sets of addresses.             *)
LEMMA BootStep == IInv /\ (Boot \/ RefuseToBoot) => IInv'
  <1> SUFFICES ASSUME IInv, Boot \/ RefuseToBoot PROVE IInv'
    OBVIOUS
  <1>1. /\ phase = "boot" /\ phase' \in {"way", "refused"}
        /\ UNCHANGED <<sender, from, forwarded, visitor, seeded, passed, resolved>>
    BY DEF Boot, RefuseToBoot
  <1>2. trusted' \subseteq Addr /\ cdn' \subseteq Edges
    <2>1. CASE RefuseToBoot
      BY <2>1 DEF RefuseToBoot, IInv, Configured
    <2>2. CASE Boot
      <3>1. CDN \subseteq Edges
        BY RealIPAssumption DEF CDN
      <3>2. ASSUME NEW entry \in Entries, Parses(entry) PROVE Meaning(entry) \subseteq Addr
        <4>1. CASE entry \in DOMAIN Sets
          <5>1. Sets[entry] \subseteq Addr
            BY <4>1, RealIPAssumption DEF Sets, Addr
          <5> QED
            BY <4>1, <5>1 DEF Meaning
        <4>2. CASE entry \notin DOMAIN Sets
          <5>1. entry \in DOMAIN Literals
            BY <3>2, <4>2 DEF Parses
          <5> QED
            BY <4>2, <5>1, HopAssumption DEF Meaning
        <4> QED
          BY <4>1, <4>2
      <3>3. ConfigTrusted(TrustedProxies) \subseteq Addr
        BY <2>2, <3>2, Listed DEF Boot, Addr
      <3> QED
        BY <2>2, <3>1, <3>3 DEF Boot
    <2> QED
      BY <2>1, <2>2
  <1>3. OnItsWay' /\ OwnEntries' /\ SenderFirst' /\ EdgesKnown'
    BY <1>1 DEF IInv, OnItsWay, OwnEntries, SenderFirst, EdgesKnown, EdgePassed, Hops
  <1>4. Configured' /\ Settled'
    BY <1>1, <1>2 DEF IInv, Configured, Settled
  <1>5. Vouched'
    <2>1. CASE RefuseToBoot
      BY <2>1 DEF RefuseToBoot, Vouched
    <2>2. CASE Boot
      <3>1. trusted' = ConfigTrusted(TrustedProxies) /\ setting' = setting
        BY <2>2 DEF Boot
      <3>2. \A addr : MaySpeak(addr)' <=> MaySpeak(addr)
        BY <3>1 DEF MaySpeak, Entries, Meaning
      <3> QED
        BY <3>1, <3>2, Listed DEF Vouched
    <2> QED
      BY <2>1, <2>2
  <1> QED
    BY <1>3, <1>4, <1>5 DEF IInv

(* Another hop at the end of the way.                                      *)
LEMMA Longer ==
  ASSUME NEW s \in Seq(Hop), NEW h \in Hop
  PROVE  LET t == Append(s, h) IN
           /\ t \in Seq(Hop) /\ t # <<>>
           /\ Last(t) = h
           /\ {t[i].hop : i \in DOMAIN t} = {s[i].hop : i \in DOMAIN s} \cup {h.hop}
  <1> DEFINE t == Append(s, h)
  <1>1. /\ t \in Seq(Hop) /\ Len(t) = Len(s) + 1 /\ t[Len(s) + 1] = h /\ Len(s) \in Nat
        /\ \A i \in 1..Len(s) : t[i] = s[i]
    OBVIOUS
  <1>2. DOMAIN t = 1..(Len(s) + 1) /\ DOMAIN s = 1..Len(s)
    BY <1>1
  <1> HIDE DEF t
  <1>3. t # <<>> /\ Last(t) = h
    BY <1>1 DEF Last
  <1>4. 1..(Len(s) + 1) = 1..Len(s) \cup {Len(s) + 1}
    BY <1>1
  <1>5. {t[i].hop : i \in DOMAIN t} = {s[i].hop : i \in DOMAIN s} \cup {h.hop}
    <2>1. \A i \in DOMAIN s : i \in DOMAIN t /\ t[i] = s[i]
      BY <1>1, <1>2
    <2>2. \A i \in DOMAIN t : i \in DOMAIN s \/ i = Len(s) + 1
      BY <1>2, <1>4
    <2>3. Len(s) + 1 \in DOMAIN t
      BY <1>1, <1>2
    <2> QED
      BY <1>1, <2>1, <2>2, <2>3
  <1> QED
    BY <1>1, <1>3, <1>5 DEF t

(* A hop adds the address the request comes from and is where it is next;  *)
(* a replaced chain holds nothing of the sender's.                         *)
LEMMA HopStep ==
  ASSUME IInv, NEW h \in Hop,
         phase = "way" /\ passed' = Append(passed, h) /\ from' = h.hop,
         UNCHANGED <<phase, setting, trusted, cdn, sender, resolved>>,
         \/ forwarded' = Append(forwarded, from) /\ seeded' = seeded
         \/ forwarded' = <<from>> /\ seeded' = 0,
         \/ h.hop \in Edges /\ passed = <<>> /\ sender \in Visitors /\ visitor' = from
         \/ h.hop \notin Edges /\ visitor' = visitor
  PROVE  IInv'
  <1> USE DEF IInv
  <1>1. /\ passed' \in Seq(Hop) /\ passed' # <<>> /\ Last(passed') = h
        /\ Hops' = Hops \cup {h.hop}
    <2>1. passed \in Seq(Hop)
      BY DEF OnItsWay
    <2> HIDE DEF IInv
    <2> QED
      BY <2>1, Longer DEF Hops
  <1>2. from \in {sender} \cup Hops /\ from \in Addr
    <2>1. CASE passed = <<>>
      BY <2>1 DEF OnItsWay, Configured, Addr, Private
    <2>2. CASE passed # <<>>
      <3>1. Len(passed) \in DOMAIN passed /\ passed[Len(passed)] \in Hop
        BY <2>2 DEF OnItsWay
      <3> QED
        BY <2>2, <3>1 DEF OnItsWay, Last, Hops, Hop
    <2> QED
      BY <2>1, <2>2
  <1>3. EdgePassed <=> \E e \in Hops : e \in Edges
    BY DEF EdgePassed, Hops
  <1>4. EdgePassed' <=> \E e \in Hops' : e \in Edges
    BY DEF EdgePassed, Hops
  <1>5. sender \notin Edges
    BY HopAssumption DEF Configured, Private
  <1>6. /\ forwarded' \in Seq(Entry) /\ Len(forwarded') \in Nat \ {0}
        /\ forwarded'[Len(forwarded')] = from
        /\ seeded' \in Nat /\ seeded' <= Len(forwarded')
    <2>1. from \in Entry /\ forwarded \in Seq(Entry) /\ Len(forwarded) \in Nat
      BY <1>2 DEF OnItsWay, Entry
    <2>2. CASE forwarded' = Append(forwarded, from) /\ seeded' = seeded
      BY <2>1, <2>2 DEF OnItsWay
    <2>3. CASE forwarded' = <<from>> /\ seeded' = 0
      BY <2>1, <2>3
    <2> QED
      BY <2>2, <2>3
  <1>7. OnItsWay'
    BY <1>1, <1>6 DEF OnItsWay
  <1>8. OwnEntries'
    <2> SUFFICES ASSUME NEW i \in (seeded' + 1)..Len(forwarded') PROVE forwarded'[i] \in {sender} \cup Hops'
      BY DEF OwnEntries
    <2>1. CASE i = Len(forwarded')
      BY <1>1, <1>2, <1>6, <2>1
    <2>2. CASE i # Len(forwarded')
      <3>1. forwarded' = Append(forwarded, from) /\ seeded' = seeded
        BY <1>6, <2>2
      <3>2. i \in (seeded + 1)..Len(forwarded) /\ forwarded'[i] = forwarded[i]
        BY <1>2, <2>2, <3>1 DEF OnItsWay
      <3> QED
        BY <1>1, <3>2 DEF OwnEntries
    <2> QED
      BY <2>1, <2>2
  <1>9. SenderFirst'
    <2> SUFFICES ASSUME seeded' # 0 PROVE seeded' < Len(forwarded') /\ forwarded'[seeded' + 1] = sender
      BY <1>6 DEF SenderFirst
    <2>1. forwarded' = Append(forwarded, from) /\ seeded' = seeded /\ seeded # 0
      OBVIOUS
    <2>2. CASE passed = <<>>
      <3>1. seeded = Len(forwarded) /\ from = sender
        BY <2>2 DEF OnItsWay
      <3> QED
        BY <1>2, <2>1, <3>1 DEF OnItsWay, Entry
    <2>3. CASE passed # <<>>
      BY <2>1, <2>3, <1>2 DEF OnItsWay, SenderFirst
    <2> QED
      BY <2>2, <2>3
  <1>10. EdgesKnown'
    <2>1. ~EdgePassed' => from \notin Edges
      BY <1>1, <1>2, <1>4, <1>5
    <2>2. EdgePassed' => visitor' = sender
      <3>1. CASE h.hop \in Edges
        BY <3>1 DEF OnItsWay
      <3>2. CASE h.hop \notin Edges
        BY <1>1, <1>3, <1>4, <3>2 DEF EdgesKnown
      <3> QED
        BY <3>1, <3>2
    <2> QED
      BY <1>6, <2>1, <2>2 DEF EdgesKnown
  <1>11. Configured' /\ Settled' /\ Vouched'
    BY SameVouched DEF Configured, Settled, OnItsWay
  <1> QED
    BY <1>7, <1>8, <1>9, <1>10, <1>11

(* The answer is settled on once.                                          *)
LEMMA ServeStep == IInv /\ Serve => IInv'
  <1> SUFFICES ASSUME IInv, Serve PROVE IInv'
    OBVIOUS
  <1>1. /\ resolved' = ResolveClient(forwarded, visitor) /\ phase = "way" /\ phase' = "served"
        /\ UNCHANGED <<setting, trusted, cdn, sender, from, forwarded, visitor, seeded, passed>>
    BY DEF Serve
  <1>2. ResolveClient(forwarded, visitor)' = ResolveClient(forwarded, visitor)
    BY <1>1 DEF ResolveClient, ClientAddr, FirstUntrusted, Stops, Believed, CameThroughCDN
  <1>3. Settled'
    BY <1>1, <1>2 DEF Settled
  <1>4. OnItsWay' /\ OwnEntries' /\ SenderFirst' /\ EdgesKnown' /\ Configured'
    BY <1>1 DEF IInv, OnItsWay, OwnEntries, SenderFirst, EdgesKnown, EdgePassed, Hops, Configured
  <1>5. Vouched'
    BY <1>1 DEF IInv, Vouched, MaySpeak, Entries, Meaning
  <1> QED
    BY <1>3, <1>4, <1>5 DEF IInv

(* The invariant holds on every way to the server.                         *)
LEMMA Invariance == Spec => []IInv
  <1>1. IInv /\ [Next]_vars => IInv'
    <2> SUFFICES ASSUME IInv, [Next]_vars PROVE IInv'
      OBVIOUS
    <2>1. CASE UNCHANGED vars
      <3>1. UNCHANGED <<phase, setting, trusted, cdn, sender, from, forwarded, visitor, seeded, passed, resolved>>
        BY <2>1 DEF vars
      <3>2. ResolveClient(forwarded, visitor)' = ResolveClient(forwarded, visitor)
        BY <3>1 DEF ResolveClient, ClientAddr, FirstUntrusted, Stops, Believed, CameThroughCDN
      <3>3. Settled' /\ Configured' /\ Vouched'
        BY <3>1, <3>2, SameVouched DEF IInv, Settled, Configured
      <3>4. OnItsWay' /\ OwnEntries' /\ SenderFirst' /\ EdgesKnown'
        BY <3>1 DEF IInv, OnItsWay, OwnEntries, SenderFirst, EdgesKnown, EdgePassed, Hops
      <3> QED
        BY <3>3, <3>4 DEF IInv
    <2>2. CASE Boot \/ RefuseToBoot
      BY <2>2, BootStep
    <2>3. ASSUME NEW edge \in Edges, ThroughCDN(edge) PROVE IInv'
      <3> DEFINE h == [hop |-> edge, replaced |-> FALSE]
      <3>1. h \in Hop /\ h.hop = edge
        BY DEF Hop, Addr
      <3>2. phase = "way" /\ passed' = Append(passed, h) /\ from' = h.hop
        BY <2>3 DEF ThroughCDN
      <3> QED
        BY <2>3, <3>1, <3>2, HopStep DEF ThroughCDN
    <2>4. ASSUME NEW proxy \in Proxies, NEW replaces \in BOOLEAN, ThroughProxy(proxy, replaces) PROVE IInv'
      <3> DEFINE h == [hop |-> proxy, replaced |-> replaces]
      <3>1. h \in Hop /\ h.hop = proxy /\ proxy \notin Edges
        BY HopAssumption DEF Hop, Addr, Private
      <3>2. phase = "way" /\ passed' = Append(passed, h) /\ from' = h.hop
        BY <2>4 DEF ThroughProxy
      <3>3. \/ forwarded' = Append(forwarded, from) /\ seeded' = seeded
            \/ forwarded' = <<from>> /\ seeded' = 0
        BY <2>4 DEF ThroughProxy
      <3>4. UNCHANGED <<phase, setting, trusted, cdn, sender, resolved, visitor>>
        BY <2>4 DEF ThroughProxy
      <3> QED
        BY <3>1, <3>2, <3>3, <3>4, HopStep
    <2>5. CASE Serve
      BY <2>5, ServeStep
    <2> QED
      BY <2>1, <2>2, <2>3, <2>4, <2>5 DEF Next
  <1> QED
    BY <1>1, InitIInv, PTL DEF Spec

(* What the server resolves a request of an untrusted sender to, and from. *)
LEMMA Resolution ==
  ASSUME IInv, sender \notin trusted
  PROVE  /\ ResolveClient(forwarded, visitor) = ResolveClient(Written, WrittenVisitor)
         /\ ResolveClient(forwarded, visitor) \in {sender} \cup Hops
  <1> USE DEF IInv
  <1>1. from \in {sender} \cup Hops
    <2>1. CASE passed # <<>>
      <3>1. Len(passed) \in DOMAIN passed
        BY <2>1 DEF OnItsWay
      <3> QED
        BY <2>1, <3>1 DEF OnItsWay, Last, Hops
    <2> QED
      BY <2>1 DEF OnItsWay
  <1>2. CASE ~Believed
    BY <1>1, <1>2 DEF ResolveClient, ClientAddr, CameThroughCDN
  <1>3. CASE Believed /\ seeded = 0
    <2>1. passed # <<>> /\ Len(forwarded) \in Nat /\ Len(forwarded) # 0
      BY <1>3 DEF Believed, OnItsWay, SenderFirst
    <2>2. Written = forwarded
      BY <1>3, <2>1 DEF Written, OnItsWay
    <2>3. EdgePassed => visitor = sender /\ WrittenVisitor = sender
      BY DEF EdgesKnown, WrittenVisitor, EdgePassed
    <2>4. ~EdgePassed => ~CameThroughCDN(forwarded)
      BY <2>1 DEF EdgesKnown, CameThroughCDN, Last, Configured
    <2>5. ResolveClient(forwarded, visitor) = ResolveClient(Written, WrittenVisitor)
      BY <2>2, <2>3, <2>4 DEF ResolveClient
    <2>6. ClientAddr(forwarded) # Garbage => ClientAddr(forwarded) \in {sender} \cup Hops
      <3> SUFFICES ASSUME Stops(forwarded) # {} PROVE FirstUntrusted(forwarded) \in {sender} \cup Hops
        BY DEF ClientAddr, FirstUntrusted
      <3>1. PICK i \in 1..Len(forwarded) : FirstUntrusted(forwarded) = forwarded[i]
        BY WalkEnds DEF OnItsWay
      <3>2. i \in (seeded + 1)..Len(forwarded)
        BY <1>3, <3>1
      <3> QED
        BY <3>1, <3>2 DEF OwnEntries
    <2>7. ResolveClient(forwarded, visitor) \in {sender} \cup Hops
      BY <1>1, <2>3, <2>4, <2>6 DEF ResolveClient
    <2> QED
      BY <2>5, <2>7
  <1>4. CASE Believed /\ seeded # 0
    <2>1. /\ seeded \in Nat /\ seeded < Len(forwarded) /\ forwarded[seeded + 1] = sender
          /\ forwarded \in Seq(Entry)
      BY <1>4 DEF Believed, OnItsWay, SenderFirst
    <2>2. /\ Written # <<>> /\ FirstUntrusted(Written) = FirstUntrusted(forwarded)
          /\ \E i \in (seeded + 1)..Len(forwarded) : FirstUntrusted(forwarded) = forwarded[i]
      BY <2>1, SameEnd DEF Written
    <2>3. FirstUntrusted(forwarded) \in {sender} \cup Hops
      BY <2>2 DEF OwnEntries
    <2>4. sender # Garbage /\ Garbage \notin Hops
      <3>1. ASSUME NEW i \in DOMAIN passed PROVE passed[i].hop \in Addr
        <4>1. passed[i] \in Hop
          BY DEF OnItsWay
        <4> QED
          BY <4>1 DEF Hop
      <3> QED
        BY <3>1, HopAssumption DEF Hops, Configured, Addr, Private
    <2>5. forwarded # <<>>
      BY <2>1
    <2>6. ClientAddr(forwarded) = FirstUntrusted(forwarded) /\ ClientAddr(Written) = FirstUntrusted(forwarded)
      BY <1>4, <2>2, <2>5 DEF ClientAddr
    <2> QED
      BY <2>3, <2>4, <2>6 DEF ResolveClient
  <1> QED
    BY <1>2, <1>3, <1>4

(* Whatever a sender writes into the headers, the request is attributed as *)
(* if it had written nothing.                                              *)
THEOREM SeededEntriesAreInert == Spec => []SeedsAreInert
  <1>1. IInv => SeedsAreInert
    BY Resolution DEF IInv, Settled, Vouched, SeedsAreInert
  <1> QED
    BY <1>1, Invariance, PTL

(* A request is attributed to its sender or to a hop it passed.            *)
THEOREM NoBystander == Spec => []NeverABystander
  <1>1. IInv => NeverABystander
    BY Resolution DEF IInv, Settled, Vouched, NeverABystander, Hops
  <1> QED
    BY <1>1, Invariance, PTL
-----------------------------------------------------------------------------
(* What VisitorFound needs besides: a chain nobody replaced starts, after  *)
(* the sender's own entries, with the sender, ...                          *)
Extended ==
  passed # <<>> /\ (\A i \in DOMAIN passed : ~passed[i].replaced) =>
    seeded < Len(forwarded) /\ forwarded[seeded + 1] = sender

(* ... the CDN, if it is on the way at all, comes first and extends, ...   *)
EdgeComesFirst ==
  \A i \in DOMAIN passed :
     passed[i].hop \in Proxies \/ (i = 1 /\ passed[i].hop \in Edges /\ ~passed[i].replaced)

(* ... and a replaced chain holds whatever handed the request over.        *)
Replacing == /\ Len(passed) = 1 /\ passed[1].replaced => forwarded = <<sender>>
             /\ Len(passed) = 2 /\ passed[2].replaced => forwarded = <<passed[1].hop>>

VInv == IInv /\ Extended /\ EdgeComesFirst /\ Replacing

(* A hop keeps the three.                                                  *)
LEMMA HopKeeps ==
  ASSUME VInv, NEW h \in Hop, passed' = Append(passed, h), sender' = sender,
         \/ ~h.replaced /\ forwarded' = Append(forwarded, from) /\ seeded' = seeded
         \/ h.replaced /\ forwarded' = <<from>> /\ seeded' = 0,
         h.hop \in Proxies \/ (passed = <<>> /\ h.hop \in Edges /\ ~h.replaced)
  PROVE  Extended' /\ EdgeComesFirst' /\ Replacing'
  <1> DEFINE n == Len(passed)
  <1>1. /\ n \in Nat /\ Len(passed') = n + 1 /\ passed'[n + 1] = h
        /\ \A i \in 1..n : passed'[i] = passed[i]
        /\ DOMAIN passed = 1..n /\ DOMAIN passed' = 1..(n + 1)
        /\ (passed = <<>>) <=> (n = 0)
    BY DEF VInv, IInv, OnItsWay
  <1>2. forwarded \in Seq(Entry) /\ Len(forwarded) \in Nat /\ seeded \in Nat /\ seeded <= Len(forwarded)
    BY DEF VInv, IInv, OnItsWay
  <1>3. n = 0 => from = sender /\ seeded = Len(forwarded)
    BY <1>1 DEF VInv, IInv, OnItsWay
  <1>4. n # 0 => from = passed[n].hop
    BY <1>1 DEF VInv, IInv, OnItsWay, Last
  <1> HIDE DEF n
  <1>entry. from \in Entry
    <2>1. CASE n = 0
      BY <2>1, <1>3 DEF VInv, IInv, Configured, Entry, Addr, Private
    <2>2. CASE n # 0
      <3>1. n \in 1..n
        BY <1>1, <2>2
      <3>2. passed[n] \in Hop
        BY <1>1, <3>1 DEF VInv, IInv, OnItsWay
      <3> QED
        BY <1>4, <2>2, <3>2 DEF Hop, Entry
    <2> QED
      BY <2>1, <2>2
  <1>5. Extended'
    <2> SUFFICES ASSUME \A i \in 1..(n + 1) : ~passed'[i].replaced
                 PROVE  seeded' < Len(forwarded') /\ forwarded'[seeded' + 1] = sender
      BY <1>1 DEF Extended
    <2>1. ~h.replaced /\ \A i \in 1..n : ~passed[i].replaced
      BY <1>1
    <2>2. /\ forwarded' = Append(forwarded, from) /\ seeded' = seeded
          /\ Len(forwarded') = Len(forwarded) + 1
          /\ forwarded'[Len(forwarded) + 1] = from
          /\ \A i \in 1..Len(forwarded) : forwarded'[i] = forwarded[i]
      BY <1>2, <1>entry, <2>1
    <2>3. CASE n = 0
      BY <1>2, <1>3, <2>2, <2>3
    <2>4. CASE n # 0
      <3>1. seeded < Len(forwarded) /\ forwarded[seeded + 1] = sender
        BY <1>1, <2>1, <2>4 DEF VInv, Extended
      <3> QED
        BY <1>2, <2>2, <3>1
    <2> QED
      BY <2>3, <2>4
  <1>6. EdgeComesFirst'
    <2> SUFFICES ASSUME NEW i \in 1..(n + 1)
                 PROVE  \/ passed'[i].hop \in Proxies
                        \/ i = 1 /\ passed'[i].hop \in Edges /\ ~passed'[i].replaced
      BY <1>1 DEF EdgeComesFirst
    <2>1. CASE i = n + 1
      BY <1>1, <2>1
    <2>2. CASE i # n + 1
      <3>1. i \in 1..n
        BY <1>1, <2>2
      <3> QED
        BY <1>1, <3>1 DEF VInv, EdgeComesFirst
    <2> QED
      BY <2>1, <2>2
  <1>7. Replacing'
    <2>1. ASSUME n = 0, h.replaced PROVE forwarded' = <<sender>>
      BY <1>3, <2>1
    <2>2. ASSUME n = 1, h.replaced PROVE forwarded' = <<passed[1].hop>>
      BY <1>4, <2>2
    <2>3. n + 1 = 1 => n = 0 /\ passed'[1] = h
      BY <1>1
    <2>4. n + 1 = 2 => n = 1 /\ passed'[2] = h /\ passed'[1] = passed[1]
      BY <1>1
    <2> QED
      BY <1>1, <2>1, <2>2, <2>3, <2>4 DEF Replacing
  <1> QED
    BY <1>5, <1>6, <1>7

(* The strengthened invariant holds on every way to the server.            *)
LEMMA WayInvariance == Spec => []VInv
  <1>1. Init => Extended /\ EdgeComesFirst /\ Replacing
    BY DEF Init, Extended, EdgeComesFirst, Replacing
  <1>2. VInv /\ IInv' /\ [Next]_vars => VInv'
    <2> SUFFICES ASSUME VInv, [Next]_vars PROVE Extended' /\ EdgeComesFirst' /\ Replacing'
      BY DEF VInv
    <2>1. CASE UNCHANGED vars \/ Boot \/ RefuseToBoot \/ Serve
      <3>1. UNCHANGED <<sender, forwarded, seeded, passed>>
        BY <2>1 DEF vars, Boot, RefuseToBoot, Serve
      <3> QED
        BY <3>1 DEF VInv, Extended, EdgeComesFirst, Replacing
    <2>2. ASSUME NEW edge \in Edges, ThroughCDN(edge) PROVE Extended' /\ EdgeComesFirst' /\ Replacing'
      <3> DEFINE h == [hop |-> edge, replaced |-> FALSE]
      <3>1. h \in Hop /\ h.hop = edge /\ ~h.replaced
        BY DEF Hop, Addr
      <3>2. passed = <<>> /\ passed' = Append(passed, h)
        BY <2>2 DEF ThroughCDN
      <3> HIDE DEF h
      <3> QED
        BY <2>2, <3>1, <3>2, HopKeeps DEF ThroughCDN
    <2>3. ASSUME NEW proxy \in Proxies, NEW replaces \in BOOLEAN, ThroughProxy(proxy, replaces)
          PROVE  Extended' /\ EdgeComesFirst' /\ Replacing'
      <3> DEFINE h == [hop |-> proxy, replaced |-> replaces]
      <3>1. h \in Hop /\ h.hop = proxy /\ h.replaced = replaces
        BY DEF Hop, Addr, Private
      <3>2. passed' = Append(passed, h) /\ sender' = sender
        BY <2>3 DEF ThroughProxy
      <3>3. \/ ~replaces /\ forwarded' = Append(forwarded, from) /\ seeded' = seeded
            \/ replaces /\ forwarded' = <<from>> /\ seeded' = 0
        BY <2>3 DEF ThroughProxy
      <3> HIDE DEF h
      <3> QED
        BY <3>1, <3>2, <3>3, HopKeeps
    <2> QED
      BY <2>1, <2>2, <2>3 DEF Next
  <1> QED
    BY <1>1, <1>2, Invariance, InitIInv, PTL DEF Spec, VInv

(* Believing a chain whose untrusted entries are the sender's finds it.    *)
LEMMA SenderFound ==
  ASSUME IInv, sender \notin trusted, Hops \subseteq trusted, passed # <<>>,
         seeded < Len(forwarded), forwarded[seeded + 1] = sender
  PROVE  ResolveClient(forwarded, visitor) = sender
  <1> USE DEF IInv
  <1>1. /\ forwarded \in Seq(Entry) /\ seeded \in Nat /\ Len(forwarded) \in Nat
        /\ seeded + 1 \in 1..Len(forwarded) /\ forwarded # <<>>
    BY DEF OnItsWay
  <1>2. Believed
    <2>1. Len(passed) \in DOMAIN passed
      BY DEF OnItsWay
    <2> QED
      BY <2>1 DEF OnItsWay, Believed, Last, Hops
  <1>3. seeded + 1 \in Stops(forwarded)
    BY <1>1 DEF Stops
  <1> DEFINE m == Max(Stops(forwarded))
  <1>4. /\ m \in 1..Len(forwarded) /\ FirstUntrusted(forwarded) = forwarded[m]
        /\ forwarded[m] \notin trusted
        /\ \A i \in 1..Len(forwarded) : i > m => forwarded[i] \in trusted
    BY <1>1, <1>3, WalkEnds
  <1> HIDE DEF m
  <1>5. m \in (seeded + 1)..Len(forwarded)
    BY <1>1, <1>4
  <1>6. FirstUntrusted(forwarded) = sender
    BY <1>4, <1>5 DEF OwnEntries
  <1>7. sender # Garbage
    BY HopAssumption DEF Configured, Addr, Private
  <1> QED
    BY <1>1, <1>2, <1>6, <1>7 DEF ResolveClient, ClientAddr

(* Where every hop is trusted, and all of them extended the chain or one   *)
(* proxy stood alone, the visitor is found: from the chain, or, when the   *)
(* one proxy behind the CDN replaced it, from the CDN's own header.        *)
THEOREM VisitorsAreFound == Spec => []VisitorFound
  <1>1. VInv => VisitorFound
    <2> SUFFICES ASSUME VInv, phase = "served", sender \notin trusted,
                        \A i \in DOMAIN passed : passed[i].hop \in trusted, Recoverable
                 PROVE  ResolveClient(forwarded, visitor) = sender
      BY DEF VInv, IInv, Settled, Vouched, VisitorFound
    <2>hops. Hops \subseteq trusted
      BY DEF Hops
    <2>way. /\ passed \in Seq(Hop) /\ Len(passed) \in Nat /\ DOMAIN passed = 1..Len(passed)
            /\ forwarded \in Seq(Entry)
            /\ from = IF passed = <<>> THEN sender ELSE Last(passed).hop
      BY DEF VInv, IInv, OnItsWay
    <2>1. CASE passed = <<>>
      BY <2>1, <2>way DEF ResolveClient, ClientAddr, CameThroughCDN, Believed
    <2>2. CASE passed # <<>> /\ \A i \in DOMAIN passed : ~passed[i].replaced
      BY <2>2, <2>hops, SenderFound DEF VInv, Extended
    <2>3. CASE passed # <<>> /\ \E i \in DOMAIN passed : passed[i].replaced
      <3> DEFINE S == {i \in DOMAIN passed : passed[i].hop \in Proxies}
      <3>1. Cardinality(S) = 1 /\ \A i \in DOMAIN passed : passed[i].hop \in Edges => passed[i].hop \in cdn
        BY <2>3 DEF Recoverable
      <3>2. IsFiniteSet(S)
        <4>1. IsFiniteSet(1..Len(passed))
          BY <2>way, FS_Interval
        <4> QED
          BY <4>1, <2>way, FS_Subset
      <3>3. PICK k : S = {k}
        <4> HIDE DEF S
        <4> QED
          BY <3>1, <3>2, FS_Singleton
      <3>4. k \in 1..Len(passed) /\ passed[k].hop \in Proxies
        BY <3>3, <2>way
      <3>5. \A i \in 1..Len(passed) : i # k => i = 1 /\ passed[i].hop \in Edges /\ ~passed[i].replaced
        BY <3>3, <2>way DEF VInv, EdgeComesFirst
      <3>6. passed[k].replaced
        BY <2>3, <2>way, <3>5
      <3>7. (Len(passed) = 1 /\ k = 1) \/ (Len(passed) = 2 /\ k = 2)
        <4>1. Len(passed) # 0
          BY <2>3, <2>way
        <4>2. CASE k = 1
          <5>1. ~(2 \in 1..Len(passed))
            BY <3>5, <4>2
          <5> QED
            BY <2>way, <3>4, <4>2, <5>1
        <4>3. CASE k # 1
          <5>1. \A i \in 2..Len(passed) : i = k
            BY <2>way, <3>5
          <5>2. 2 \in 2..Len(passed)
            BY <2>way, <3>4, <4>3
          <5>3. k = 2
            BY <5>1, <5>2
          <5>4. ~(3 \in 2..Len(passed))
            BY <5>1, <5>3
          <5> QED
            BY <2>way, <5>2, <5>3, <5>4
        <4> QED
          BY <4>2, <4>3
      <3>8. CASE Len(passed) = 1 /\ k = 1
        <4>1. forwarded = <<sender>>
          BY <3>6, <3>8 DEF VInv, Replacing
        <4>2. seeded = 0 \/ seeded = 1
          BY <4>1 DEF VInv, IInv, OnItsWay
        <4>3. seeded = 0
          BY <2>3, <4>1, <4>2 DEF VInv, IInv, SenderFirst
        <4> QED
          BY <2>3, <2>hops, <4>1, <4>3, SenderFound DEF VInv
      <3>9. CASE Len(passed) = 2 /\ k = 2
        <4> DEFINE e == passed[1].hop
        <4>1. forwarded = <<e>>
          BY <3>6, <3>9 DEF VInv, Replacing
        <4>2. 1 \in DOMAIN passed /\ e \in Edges /\ e \in trusted /\ e \in cdn
          BY <2>way, <3>1, <3>5, <3>9
        <4>3. Believed
          <5>1. from = passed[2].hop
            BY <2>3, <2>way, <3>9 DEF Last
          <5>2. 2 \in DOMAIN passed
            BY <2>way, <3>9
          <5> QED
            BY <5>1, <5>2 DEF Believed
        <4>4. EdgePassed
          BY <4>2 DEF EdgePassed
        <4> HIDE DEF e
        <4>5. Len(forwarded) = 1 /\ forwarded[1] = e /\ Last(forwarded) = e /\ forwarded # <<>>
          BY <4>1 DEF Last
        <4>6. Stops(forwarded) = {}
          BY <2>way, <4>2, <4>5 DEF Stops
        <4>7. ClientAddr(forwarded) = Garbage
          BY <4>6 DEF ClientAddr, FirstUntrusted
        <4>8. CameThroughCDN(forwarded)
          BY <4>2, <4>3, <4>5 DEF CameThroughCDN
        <4>9. visitor = sender /\ sender # Garbage
          BY <4>4, HopAssumption DEF VInv, IInv, EdgesKnown, Configured, Addr, Private
        <4> QED
          BY <4>7, <4>8, <4>9 DEF ResolveClient
      <3> QED
        BY <3>7, <3>8, <3>9
    <2> QED
      BY <2>1, <2>2, <2>3
  <1> QED
    BY <1>1, WayInvariance, PTL
=============================================================================
