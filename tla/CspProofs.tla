------------------------------ MODULE CspProofs ------------------------------
(***************************************************************************)
(* Proofs about Csp, for any configurations and any number of layers, of   *)
(* an application in which no other middleware writes in front of the      *)
(* chassis or reports below an enforcing one (Mixed = FALSE): a response   *)
(* carries the sum of its layers, and what other middlewares wrote is left *)
(* alone.                                                                  *)
(***************************************************************************)
EXTENDS Csp, TLAPS

IsSeq(s) == \E S : s \in Seq(S)

IsValue(v) == v = [by |-> v.by, policy |-> v.policy]

(* The chassis's policies come first; while it only reports, the first     *)
(* reported policy is its own, and once it enforces, none is.              *)
Heads ==
  /\ IsSeq(enforced) /\ IsSeq(reportOnly)
  /\ layers # <<>> => enforced # <<>> /\ IsValue(enforced[1])
  /\ layers # <<>> /\ ~Enforcing => reportOnly # <<>> /\ IsValue(reportOnly[1])
  /\ \A i \in 2..Len(reportOnly) : reportOnly[i].by = "foreign"
  /\ Enforcing => \A i \in 1..Len(reportOnly) : reportOnly[i].by = "foreign"
  /\ layers = <<>> => enforced = <<>> /\ reportOnly = <<>>

(* X-Frame-Options is there while no layer opened framing.                 *)
DenyUntilOpened ==
  layers # <<>> => (frameDeny <=> \A i \in DOMAIN layers : ~FramingOpened(layers[i].sources))

(* What stands beside the policy.                                          *)
FeaturesAddUp ==
  layers # <<>> => granted = UNION {layers[i].allow : i \in DOMAIN layers} /\ IsLastOpener

IInv == IsSeq(layers) /\ Heads /\ PolicyAddsUp /\ DenyUntilOpened /\ FeaturesAddUp

-----------------------------------------------------------------------------
(* Merging sources into a list adds them to its effect.                    *)
LEMMA MergeEffective ==
  ASSUME NEW p, NEW w, NEW e, Effective(p) = Effective(w)
  PROVE  Effective(MergeSources(p, e)) = Effective(w \cup e)
  <1>1. p = {None} <=> w = {None}
    BY DEF Effective
  <1>2. CASE e = {}
    <2>1. MergeSources(p, e) = p /\ w \cup e = w
      BY <1>2 DEF MergeSources
    <2> QED
      BY <2>1
  <1>3. CASE e # {} /\ p = {None}
    <2>1. MergeSources(p, e) = e /\ w = {None}
      BY <1>1, <1>3 DEF MergeSources
    <2>2. CASE e = {None}
      BY <2>1, <2>2
    <2>3. CASE e # {None}
      <3>1. w \cup e # {None} /\ (w \cup e) \ {None} = e \ {None}
        BY <1>3, <2>1, <2>3
      <3> QED
        BY <2>1, <2>3, <3>1 DEF Effective
    <2> QED
      BY <2>2, <2>3
  <1>4. CASE e # {} /\ p # {None}
    <2>1. MergeSources(p, e) = p \cup e
      BY <1>4 DEF MergeSources
    <2>2. p \ {None} = w \ {None} /\ w # {None}
      BY <1>1, <1>4 DEF Effective
    <2>3. p \cup e = {None} <=> w \cup e = {None}
      <3>1. ASSUME NEW a, NEW b, a \ {None} = b \ {None}, a # {None}, b # {None}, a \cup e = {None}
            PROVE  b \cup e = {None}
        <4>1. a = {} /\ e = {None}
          BY <3>1, <1>4
        <4>2. b = {}
          BY <3>1, <4>1
        <4> QED
          BY <4>1, <4>2
      <3> QED
        BY <1>4, <2>2, <3>1
    <2>4. (p \cup e) \ {None} = (w \cup e) \ {None}
      BY <2>2
    <2> QED
      BY <2>1, <2>3, <2>4 DEF Effective
  <1> QED
    BY <1>2, <1>3, <1>4

(* Another layer.                                                          *)
LEMMA Grown ==
  ASSUME NEW cfg, IsSeq(layers), layers' = Append(layers, cfg)
  PROVE  /\ IsSeq(layers') /\ layers' # <<>>
         /\ \A name : Wanted(name)' = Wanted(name) \cup Sources(cfg.sources, name)
         /\ Named' = Named \cup DOMAIN cfg.sources
         /\ Enforcing' <=> Enforcing \/ cfg.enforce
         /\ (\A i \in DOMAIN layers' : ~FramingOpened(layers'[i].sources))
              <=> (\A i \in DOMAIN layers : ~FramingOpened(layers[i].sources)) /\ ~FramingOpened(cfg.sources)
  <1>1. PICK S : layers \in Seq(S)
    BY DEF IsSeq
  <1>2. layers \in Seq(S \cup {cfg})
    BY <1>1
  <1>3. /\ layers' \in Seq(S \cup {cfg}) /\ layers' # <<>>
        /\ Len(layers') = Len(layers) + 1 /\ Len(layers) \in Nat
        /\ layers'[Len(layers) + 1] = cfg
        /\ \A i \in 1..Len(layers) : layers'[i] = layers[i]
    BY <1>2
  <1>4. DOMAIN layers' = 1..(Len(layers) + 1) /\ DOMAIN layers = 1..Len(layers)
    BY <1>1, <1>3
  <1>5. DOMAIN layers' = DOMAIN layers \cup {Len(layers) + 1}
    BY <1>3, <1>4
  <1>6. \A i \in DOMAIN layers : layers'[i] = layers[i]
    BY <1>3, <1>4
  <1> HIDE <1>4
  <1>7. \A name : Applied(name)' = Applied(name) \cup Sources(cfg.sources, name)
    BY <1>3, <1>5, <1>6 DEF Applied
  <1>8. \A name : Wanted(name)' = Wanted(name) \cup Sources(cfg.sources, name)
    BY <1>7 DEF Wanted
  <1>9. Named' = Named \cup DOMAIN cfg.sources
    BY <1>3, <1>5, <1>6 DEF Named
  <1>10. Enforcing' <=> Enforcing \/ cfg.enforce
    BY <1>3, <1>5, <1>6 DEF Enforcing
  <1>11. (\A i \in DOMAIN layers' : ~FramingOpened(layers'[i].sources))
              <=> (\A i \in DOMAIN layers : ~FramingOpened(layers[i].sources)) /\ ~FramingOpened(cfg.sources)
    BY <1>3, <1>5, <1>6
  <1>12. IsSeq(layers')
    BY <1>3 DEF IsSeq
  <1> QED
    BY <1>3, <1>8, <1>9, <1>10, <1>11, <1>12

(* A policy that is the sum so far, extended by a layer's sources, is the  *)
(* sum with that layer.                                                    *)
LEMMA SumExtended ==
  ASSUME NEW cfg, IsSeq(layers), layers' = Append(layers, cfg),
         NEW policy, NEW names, NEW addNew \in BOOLEAN, IsSum(policy, names),
         addNew => names = Named
  PROVE  LET q == ExtendDirectives(policy, cfg.sources, addNew) IN
           /\ DOMAIN q = IF addNew THEN Named' ELSE names
           /\ \A name \in DOMAIN q : Effective(q[name]) = Effective(Wanted(name)')
  <1> DEFINE q == ExtendDirectives(policy, cfg.sources, addNew)
  <1>1. /\ DOMAIN q = names \cup (IF addNew THEN DOMAIN cfg.sources ELSE {})
        /\ \A name \in DOMAIN q : q[name] = MergeSources(Sources(policy, name), Sources(cfg.sources, name))
    BY DEF ExtendDirectives, IsSum
  <1>2. DOMAIN q = IF addNew THEN Named' ELSE names
    BY <1>1, Grown
  <1>3. ASSUME NEW name \in DOMAIN q PROVE Effective(Sources(policy, name)) = Effective(Wanted(name))
    <2>1. CASE name \in names
      BY <2>1 DEF IsSum, Sources
    <2>2. CASE name \notin names
      <3>1. name \notin Named
        BY <1>1, <2>2, <1>3
      <3>2. Wanted(name) = {}
        <4>1. Sources(DefaultCSP, name) = {}
          BY <3>1 DEF Named, Sources
        <4>2. \A i \in DOMAIN layers : Sources(layers[i].sources, name) = {}
          BY <3>1 DEF Named, Sources
        <4> QED
          BY <4>1, <4>2 DEF Wanted, Applied
      <3>3. Sources(policy, name) = {}
        BY <2>2 DEF IsSum, Sources
      <3> QED
        BY <3>2, <3>3
    <2> QED
      BY <2>1, <2>2
  <1> HIDE DEF q
  <1>4. ASSUME NEW name \in DOMAIN q PROVE Effective(q[name]) = Effective(Wanted(name)')
    <2>1. Effective(MergeSources(Sources(policy, name), Sources(cfg.sources, name)))
            = Effective(Wanted(name) \cup Sources(cfg.sources, name))
      BY <1>3, <1>4, MergeEffective
    <2>2. Wanted(name)' = Wanted(name) \cup Sources(cfg.sources, name)
      BY Grown
    <2> QED
      BY <1>1, <1>4, <2>1, <2>2
  <1> QED
    BY <1>2, <1>4 DEF q

-----------------------------------------------------------------------------
(* A header with another first value.                                      *)
LEMMA Headed ==
  ASSUME NEW s, IsSeq(s), s # <<>>, NEW x
  PROVE  LET t == <<x>> \o Tail(s) IN
           /\ IsSeq(t) /\ t # <<>> /\ t[1] = x
           /\ Len(t) = Len(s)
           /\ \A i \in 2..Len(s) : t[i] = s[i]
  <1> DEFINE t == <<x>> \o Tail(s)
  <1>1. PICK S : s \in Seq(S)
    BY DEF IsSeq
  <1>2. s \in Seq(S \cup {x}) /\ <<x>> \in Seq(S \cup {x})
    BY <1>1
  <1>3. /\ Tail(s) \in Seq(S \cup {x}) /\ Len(s) \in Nat \ {0} /\ Len(Tail(s)) = Len(s) - 1
        /\ \A i \in 1..(Len(s) - 1) : Tail(s)[i] = s[i + 1]
    BY <1>2
  <1>4. /\ t \in Seq(S \cup {x}) /\ Len(t) = Len(s) /\ t[1] = x
        /\ \A i \in 2..Len(s) : t[i] = Tail(s)[i - 1]
    BY <1>2, <1>3
  <1>5. \A i \in 2..Len(s) : i - 1 \in 1..(Len(s) - 1) /\ (i - 1) + 1 = i
    BY <1>3
  <1> HIDE DEF t
  <1>6. \A i \in 2..Len(s) : t[i] = s[i]
    BY <1>3, <1>4, <1>5
  <1>7. IsSeq(t) /\ t # <<>>
    BY <1>3, <1>4 DEF IsSeq
  <1> QED
    BY <1>4, <1>6, <1>7 DEF t

(* A header of one value.                                                  *)
LEMMA Alone == ASSUME NEW x PROVE IsSeq(<<x>>) /\ <<x>> # <<>> /\ <<x>>[1] = x /\ Len(<<x>>) = 1
  <1>1. <<x>> \in Seq({x})
    OBVIOUS
  <1> QED
    BY <1>1 DEF IsSeq

(* A header without its first value.                                       *)
LEMMA Headless ==
  ASSUME NEW s, IsSeq(s), s # <<>>
  PROVE  /\ IsSeq(Tail(s)) /\ Len(Tail(s)) = Len(s) - 1 /\ Len(s) \in Nat
         /\ \A i \in 1..(Len(s) - 1) : Tail(s)[i] = s[i + 1]
  <1>1. PICK S : s \in Seq(S)
    BY DEF IsSeq
  <1>2. /\ Tail(s) \in Seq(S) /\ Len(Tail(s)) = Len(s) - 1 /\ Len(s) \in Nat
        /\ \A i \in 1..(Len(s) - 1) : Tail(s)[i] = s[i + 1]
    BY <1>1
  <1> QED
    BY <1>2 DEF IsSeq

(* A header with a value behind the others.                                *)
LEMMA Followed ==
  ASSUME NEW s, IsSeq(s), NEW x
  PROVE  LET t == Append(s, x) IN
           /\ IsSeq(t) /\ t # <<>> /\ Len(t) = Len(s) + 1 /\ Len(s) \in Nat
           /\ t[Len(s) + 1] = x
           /\ \A i \in 1..Len(s) : t[i] = s[i]
  <1> DEFINE t == Append(s, x)
  <1>1. PICK S : s \in Seq(S)
    BY DEF IsSeq
  <1>2. s \in Seq(S \cup {x})
    BY <1>1
  <1>3. /\ t \in Seq(S \cup {x}) /\ Len(t) = Len(s) + 1 /\ Len(s) \in Nat
        /\ t[Len(s) + 1] = x /\ \A i \in 1..Len(s) : t[i] = s[i]
    BY <1>2
  <1>4. IsSeq(t) /\ t # <<>>
    BY <1>3 DEF IsSeq
  <1> QED
    BY <1>3, <1>4

(* The chassis's value, extended.                                          *)
LEMMA Extended ==
  ASSUME NEW s, IsSeq(s), s # <<>>, IsValue(s[1]), NEW extra, NEW addNew \in BOOLEAN
  PROVE  LET t == ExtendFirst(s, extra, addNew) IN
           /\ IsSeq(t) /\ t # <<>> /\ IsValue(t[1])
           /\ t[1].policy = ExtendDirectives(s[1].policy, extra, addNew)
           /\ Len(t) = Len(s)
           /\ \A i \in 2..Len(s) : t[i] = s[i]
  <1> DEFINE x == [s[1] EXCEPT !.policy = ExtendDirectives(@, extra, addNew)]
             q == ExtendDirectives(s[1].policy, extra, addNew)
  <1>1. x = [by |-> s[1].by, policy |-> q]
    <2> HIDE DEF q
    <2>1. s[1] = [by |-> s[1].by, policy |-> s[1].policy]
      BY DEF IsValue
    <2>2. x = [s[1] EXCEPT !.policy = q]
      BY DEF q
    <2> QED
      BY <2>1, <2>2
  <1>2. x.policy = q /\ IsValue(x)
    <2> HIDE DEF q, x
    <2> QED
      BY <1>1 DEF IsValue
  <1>3. ExtendFirst(s, extra, addNew) = <<x>> \o Tail(s)
    BY DEF ExtendFirst
  <1> HIDE DEF x, q
  <1>4. /\ IsSeq(<<x>> \o Tail(s)) /\ <<x>> \o Tail(s) # <<>> /\ (<<x>> \o Tail(s))[1] = x
        /\ Len(<<x>> \o Tail(s)) = Len(s)
        /\ \A i \in 2..Len(s) : (<<x>> \o Tail(s))[i] = s[i]
    BY Headed
  <1> QED
    BY <1>2, <1>3, <1>4 DEF q

(* It stays whose it was.                                                  *)
LEMMA ExtendedBy ==
  ASSUME NEW s, IsSeq(s), s # <<>>, IsValue(s[1]), NEW extra, NEW addNew \in BOOLEAN
  PROVE  ExtendFirst(s, extra, addNew)[1].by = s[1].by
  <1> DEFINE q == ExtendDirectives(s[1].policy, extra, addNew)
             x == [s[1] EXCEPT !.policy = q]
  <1>1. ExtendFirst(s, extra, addNew) = <<x>> \o Tail(s)
    BY DEF ExtendFirst
  <1>2. x.by = s[1].by
    <2> HIDE DEF q
    <2>1. s[1] = [by |-> s[1].by, policy |-> s[1].policy]
      BY DEF IsValue
    <2> QED
      BY <2>1
  <1> HIDE DEF x, q
  <1>3. (<<x>> \o Tail(s))[1] = x
    BY Headed
  <1> QED
    BY <1>1, <1>2, <1>3

(* Another layer beside the policy.                                        *)
LEMMA FeaturesGrown ==
  ASSUME NEW cfg, IsSeq(layers), layers' = Append(layers, cfg),
         granted = UNION {layers[i].allow : i \in DOMAIN layers},
         granted' = granted \cup cfg.allow,
         cfg.opener = Unset => opener' = opener /\ IsLastOpener,
         cfg.opener # Unset => opener' = cfg.opener
  PROVE  FeaturesAddUp'
  <1>1. PICK S : layers \in Seq(S)
    BY DEF IsSeq
  <1> DEFINE n == Len(layers)
  <1>2. layers \in Seq(S \cup {cfg})
    BY <1>1
  <1>3. /\ n \in Nat /\ DOMAIN layers = 1..n /\ DOMAIN layers' = 1..(n + 1)
        /\ layers'[n + 1] = cfg /\ \A i \in 1..n : layers'[i] = layers[i]
    BY <1>1, <1>2
  <1> HIDE DEF n
  <1>4. DOMAIN layers' = DOMAIN layers \cup {n + 1} /\ n + 1 \notin DOMAIN layers
    BY <1>3
  <1>5. \A i \in DOMAIN layers : layers'[i] = layers[i] /\ i < n + 1 /\ ~(n + 1 < i)
    BY <1>3
  <1>6. granted' = UNION {layers'[i].allow : i \in DOMAIN layers'}
    BY <1>3, <1>4, <1>5
  <1>7. CASE cfg.opener # Unset
    <2>1. n + 1 \in DOMAIN layers' /\ opener' = layers'[n + 1].opener /\ opener' # Unset
      BY <1>3, <1>4, <1>7
    <2>2. \A j \in DOMAIN layers' : ~(j > n + 1)
      BY <1>3
    <2> QED
      BY <1>6, <2>1, <2>2 DEF FeaturesAddUp, IsLastOpener
  <1>8. CASE cfg.opener = Unset
    <2>1. CASE opener = "same-origin" /\ \A i \in DOMAIN layers : layers[i].opener = Unset
      BY <1>3, <1>4, <1>5, <1>6, <1>8, <2>1 DEF FeaturesAddUp, IsLastOpener
    <2>2. CASE \E i \in DOMAIN layers :
                 /\ opener = layers[i].opener /\ opener # Unset
                 /\ \A j \in DOMAIN layers : j > i => layers[j].opener = Unset
      <3>1. PICK i \in DOMAIN layers :
                 /\ opener = layers[i].opener /\ opener # Unset
                 /\ \A j \in DOMAIN layers : j > i => layers[j].opener = Unset
        BY <2>2
      <3>2. i \in DOMAIN layers' /\ opener' = layers'[i].opener /\ opener' # Unset
        BY <1>4, <1>5, <1>8, <3>1
      <3>3. \A j \in DOMAIN layers' : j > i => layers'[j].opener = Unset
        BY <1>3, <1>4, <1>5, <1>8, <3>1
      <3> QED
        BY <1>6, <3>2, <3>3 DEF FeaturesAddUp, IsLastOpener
    <2> QED
      BY <1>8, <2>1, <2>2 DEF IsLastOpener
  <1> QED
    BY <1>7, <1>8

-----------------------------------------------------------------------------
(* A policy that is the sum after a step.                                  *)
NextSum(policy, names) == /\ DOMAIN policy = names
                          /\ \A name \in names : Effective(policy[name]) = Effective(Wanted(name)')

(* There is nothing before the first layer.                                *)
LEMMA InitIInv == Init => IInv
  <1> SUFFICES ASSUME Init PROVE IInv
    OBVIOUS
  <1>1. <<>> \in Seq({})
    OBVIOUS
  <1>2. IsSeq(enforced) /\ IsSeq(reportOnly) /\ IsSeq(layers)
    BY <1>1 DEF Init, IsSeq
  <1>3. ~Enforcing /\ Len(reportOnly) = 0
    BY DEF Init, Enforcing
  <1>4. Heads
    BY <1>2, <1>3 DEF Init, Heads
  <1> QED
    BY <1>2, <1>4 DEF Init, IInv, PolicyAddsUp, DenyUntilOpened, FeaturesAddUp

(* The app's layer writes the first sum.                                   *)
LEMMA AppStep == ASSUME IInv, NEW cfg \in AppLayers, SecurityHeaders(cfg) PROVE IInv'
  <1> USE DEF IInv
  <1> DEFINE full == ExtendDirectives(DefaultCSP, cfg.sources, TRUE)
  <1>1. layers = <<>> /\ layers' = Append(layers, cfg) /\ frameDeny' = ~FramingOpened(cfg.sources)
    BY DEF SecurityHeaders
  <1>2. IsSum(DefaultCSP, Named)
    <2>0. DOMAIN layers = {}
      BY <1>1
    <2>1. Named = DOMAIN DefaultCSP
      BY <2>0 DEF Named
    <2>2. \A name : Applied(name) = {}
      BY <2>0 DEF Applied
    <2>3. \A name \in Named : Wanted(name) = DefaultCSP[name]
      BY <2>1, <2>2 DEF Wanted, Sources
    <2> QED
      BY <2>1, <2>3 DEF IsSum
  <1>3. /\ DOMAIN full = Named'
        /\ \A name \in Named' : Effective(full[name]) = Effective(Wanted(name)')
    BY <1>1, <1>2, SumExtended
  <1>4. FramingNames \subseteq Named'
    BY DEF Named, DefaultCSP
  <1>5. Enforcing' <=> cfg.enforce
    BY <1>1, Grown DEF Enforcing
  <1>6. DenyUntilOpened'
    <2>1. DOMAIN layers = {}
      BY <1>1
    <2> QED
      BY <1>1, <2>1, Grown DEF DenyUntilOpened
  <1>7. /\ IF cfg.enforce
            THEN enforced' = <<Chassis(full)>> /\ reportOnly' = <<>>
            ELSE enforced' = <<Chassis(FramingPolicy(full))>> /\ reportOnly' = <<Chassis(full)>>
        /\ IsSeq(layers') /\ layers' # <<>>
    BY <1>1, Grown DEF SecurityHeaders, SetIfAbsent, Heads
  <1>13. FeaturesAddUp'
    <2>1. DOMAIN layers = {} /\ layers' = <<cfg>> /\ granted' = cfg.allow
          /\ opener' = IF cfg.opener = Unset THEN "same-origin" ELSE cfg.opener
      BY <1>1 DEF SecurityHeaders, GrantFeatures, OpenerPolicy
    <2>2. DOMAIN layers' = {1} /\ layers'[1] = cfg /\ ~(1 > 1)
      BY <2>1
    <2> QED
      BY <2>1, <2>2 DEF FeaturesAddUp, IsLastOpener
  <1> HIDE DEF full
  <1>8. \A p : Chassis(p).policy = p /\ IsValue(Chassis(p))
    BY DEF Chassis, IsValue
  <1>9. IsSum(full, Named)'
    BY <1>3 DEF IsSum
  <1>10. IsSum(FramingPolicy(full), FramingNames)'
    BY <1>3, <1>4 DEF IsSum, FramingPolicy
  <1>11. CASE cfg.enforce
    <2>1. /\ IsSeq(enforced') /\ enforced' # <<>> /\ enforced'[1] = Chassis(full)
          /\ IsSeq(reportOnly') /\ Len(reportOnly') = 0
      <3>1. <<>> \in Seq({})
        OBVIOUS
      <3> QED
        BY <1>7, <1>11, <3>1, Alone DEF IsSeq
    <2>2. Heads'
      BY <1>5, <1>7, <1>8, <1>11, <2>1 DEF Heads
    <2>3. PolicyAddsUp'
      BY <1>5, <1>8, <1>9, <1>11, <2>1 DEF PolicyAddsUp
    <2> QED
      BY <1>6, <1>7, <1>13, <2>2, <2>3
  <1>12. CASE ~cfg.enforce
    <2>1. /\ IsSeq(enforced') /\ enforced' # <<>> /\ enforced'[1] = Chassis(FramingPolicy(full))
          /\ IsSeq(reportOnly') /\ reportOnly' # <<>> /\ reportOnly'[1] = Chassis(full)
          /\ Len(reportOnly') = 1
      BY <1>7, <1>12, Alone
    <2>2. Heads'
      BY <1>5, <1>7, <1>8, <1>12, <2>1 DEF Heads
    <2>3. PolicyAddsUp'
      BY <1>5, <1>8, <1>9, <1>10, <1>12, <2>1 DEF PolicyAddsUp
    <2> QED
      BY <1>6, <1>7, <1>13, <2>2, <2>3
  <1> QED
    BY <1>11, <1>12

(* Another middleware's value comes behind the chassis's.                  *)
LEMMA ForeignStep == ASSUME IInv, ~Mixed, NEW other, AddForeign(other) PROVE IInv'
  <1> USE DEF IInv
  <1>1. /\ layers # <<>> /\ UNCHANGED <<frameDeny, layers>>
        /\ \/ enforced' = Append(enforced, Foreign(other)) /\ UNCHANGED reportOnly
           \/ reportOnly' = Append(reportOnly, Foreign(other)) /\ UNCHANGED enforced
    BY DEF AddForeign
  <1>2. (Enforcing' <=> Enforcing) /\ enforced # <<>> /\ IsValue(enforced[1])
    BY <1>1 DEF Enforcing, Heads
  <1>3. IsSeq(layers') /\ DenyUntilOpened' /\ FeaturesAddUp'
    <2>1. UNCHANGED <<granted, opener>>
      BY DEF AddForeign
    <2> QED
      BY <1>1, <2>1 DEF DenyUntilOpened, FeaturesAddUp, IsLastOpener
  <1>4. /\ \A p : IsSum(p, Named)' <=> IsSum(p, Named)
        /\ \A p : IsSum(p, FramingNames)' <=> IsSum(p, FramingNames)
    BY <1>1 DEF IsSum, Named, Wanted, Applied
  <1>5. CASE enforced' = Append(enforced, Foreign(other)) /\ UNCHANGED reportOnly
    <2>1. IsSeq(enforced') /\ enforced' # <<>> /\ enforced'[1] = enforced[1]
      <3>1. IsSeq(enforced) /\ Len(enforced) # 0
        BY <1>2 DEF Heads, IsSeq
      <3> QED
        BY <1>5, <3>1, Followed
    <2>2. Heads'
      BY <1>1, <1>2, <1>5, <2>1 DEF Heads
    <2>3. PolicyAddsUp'
      BY <1>1, <1>2, <1>4, <1>5, <2>1 DEF PolicyAddsUp
    <2> QED
      BY <1>3, <2>2, <2>3
  <1>6. CASE reportOnly' = Append(reportOnly, Foreign(other)) /\ UNCHANGED enforced
    <2>1. /\ IsSeq(reportOnly') /\ reportOnly' # <<>> /\ Len(reportOnly') = Len(reportOnly) + 1
          /\ Len(reportOnly) \in Nat /\ reportOnly'[Len(reportOnly) + 1] = Foreign(other)
          /\ \A i \in 1..Len(reportOnly) : reportOnly'[i] = reportOnly[i]
      BY <1>6, Followed DEF Heads
    <2>2. Foreign(other).by = "foreign"
      BY DEF Foreign
    <2>3. \A i \in 1..Len(reportOnly') : i \in 1..Len(reportOnly) \/ i = Len(reportOnly) + 1
      BY <2>1
    <2>4. ~Enforcing => 1 \in 1..Len(reportOnly)
      <3>1. reportOnly # <<>> => Len(reportOnly) # 0
        BY DEF Heads, IsSeq
      <3> QED
        BY <1>1, <2>1, <3>1 DEF Heads
    <2>5. ~Enforcing => reportOnly'[1] = reportOnly[1]
      BY <2>1, <2>4
    <2>6. \A i \in 2..Len(reportOnly') : reportOnly'[i].by = "foreign"
      <3> SUFFICES ASSUME NEW i \in 2..Len(reportOnly') PROVE reportOnly'[i].by = "foreign"
        OBVIOUS
      <3>1. CASE i = Len(reportOnly) + 1
        BY <2>1, <2>2, <3>1
      <3>2. CASE i # Len(reportOnly) + 1
        <4>1. i \in 2..Len(reportOnly) /\ i \in 1..Len(reportOnly)
          BY <2>1, <3>2
        <4> QED
          BY <2>1, <4>1 DEF Heads
      <3> QED
        BY <3>1, <3>2
    <2>7. Enforcing => \A i \in 1..Len(reportOnly') : reportOnly'[i].by = "foreign"
      BY <2>1, <2>2, <2>3 DEF Heads
    <2>8. Heads'
      BY <1>1, <1>2, <1>6, <2>1, <2>5, <2>6, <2>7 DEF Heads
    <2>9. PolicyAddsUp'
      BY <1>1, <1>2, <1>4, <1>6, <2>5 DEF PolicyAddsUp
    <2> QED
      BY <1>3, <2>8, <2>9
  <1> QED
    BY <1>1, <1>5, <1>6

(* A nested layer extends the sum, and promotes it when it enforces.       *)
LEMMA OverrideStep ==
  ASSUME IInv, ~Mixed, NEW cfg \in RouteLayers, Mounted, SecurityOverride(cfg)
  PROVE  IInv'
  <1> USE DEF IInv
  <1>1. /\ layers # <<>> /\ layers' = Append(layers, cfg)
        /\ frameDeny' = (frameDeny /\ ~FramingOpened(cfg.sources))
        /\ ApplyCSP(cfg)
    BY DEF SecurityOverride
  <1>2. /\ IsSeq(layers') /\ layers' # <<>> /\ (Enforcing' <=> Enforcing \/ cfg.enforce)
        /\ DenyUntilOpened' /\ FeaturesAddUp'
    <2>1. FeaturesAddUp'
      BY <1>1, FeaturesGrown DEF SecurityOverride, GrantFeatures, FeaturesAddUp
    <2> QED
      BY <1>1, <2>1, Grown DEF DenyUntilOpened
  <1>3. ASSUME NEW policy, IsSum(policy, Named)
        PROVE  NextSum(ExtendDirectives(policy, cfg.sources, TRUE), Named')
    BY <1>1, <1>3, SumExtended DEF NextSum
  <1>4. ASSUME NEW policy, IsSum(policy, FramingNames)
        PROVE  NextSum(ExtendDirectives(policy, cfg.sources, FALSE), FramingNames)
    <2>1. FALSE \in BOOLEAN /\ (FALSE => FramingNames = Named)
      OBVIOUS
    <2> QED
      BY <1>1, <1>4, <2>1, SumExtended DEF NextSum
  <1>5. IsSeq(enforced) /\ enforced # <<>> /\ IsValue(enforced[1]) /\ IsSeq(reportOnly)
    BY <1>1 DEF Heads
  <1>6. CASE Enforcing
    <2>1. reportOnly = <<>>
      <3>1. \A i \in DOMAIN reportOnly : i \in 1..Len(reportOnly)
        BY <1>5 DEF IsSeq
      <3>2. DOMAIN reportOnly = {}
        BY <1>6, <3>1 DEF Mounted, Heads, OthersAt
      <3> QED
        BY <1>5, <3>2 DEF IsSeq
    <2>2. enforced' = ExtendFirst(enforced, cfg.sources, TRUE) /\ reportOnly' = <<>>
      BY <1>1, <2>1 DEF ApplyCSP
    <2>3. /\ IsSeq(enforced') /\ enforced' # <<>> /\ IsValue(enforced'[1])
          /\ enforced'[1].policy = ExtendDirectives(enforced[1].policy, cfg.sources, TRUE)
      BY <1>5, <2>2, Extended
    <2>4. Heads'
      BY <1>2, <1>5, <1>6, <2>1, <2>2, <2>3 DEF Heads
    <2>5. NextSum(enforced'[1].policy, Named')
      BY <1>1, <1>3, <1>6, <2>3 DEF PolicyAddsUp
    <2>6. PolicyAddsUp'
      BY <1>2, <1>6, <2>5 DEF PolicyAddsUp, IsSum, NextSum
    <2> QED
      BY <1>2, <2>4, <2>6
  <1>7. CASE ~Enforcing
    <2> DEFINE extended == ExtendFirst(reportOnly, cfg.sources, TRUE)
    <2>1. reportOnly # <<>> /\ IsValue(reportOnly[1]) /\ IsSum(reportOnly[1].policy, Named)
          /\ IsSum(enforced[1].policy, FramingNames)
      BY <1>1, <1>7 DEF Heads, PolicyAddsUp
    <2>2. /\ IsSeq(extended) /\ extended # <<>> /\ IsValue(extended[1])
          /\ extended[1].policy = ExtendDirectives(reportOnly[1].policy, cfg.sources, TRUE)
          /\ Len(extended) = Len(reportOnly)
          /\ \A i \in 2..Len(reportOnly) : extended[i] = reportOnly[i]
      BY <1>5, <2>1, Extended
    <2>3. NextSum(extended[1].policy, Named')
      BY <1>3, <2>1, <2>2
    <2>4. IF cfg.enforce
            THEN reportOnly' = Tail(reportOnly) /\ enforced' = Promote(extended[1])
            ELSE reportOnly' = extended /\ enforced' = ExtendFirst(enforced, cfg.sources, FALSE)
      BY <1>1, <2>1 DEF ApplyCSP
    <2> HIDE DEF extended
    <2>5. CASE cfg.enforce
      <3>1. enforced' = <<extended[1]>> \o Tail(enforced)
        BY <1>5, <2>4, <2>5 DEF Promote
      <3>2. IsSeq(enforced') /\ enforced' # <<>> /\ enforced'[1] = extended[1]
        BY <1>5, <3>1, Headed
      <3>3. /\ IsSeq(reportOnly') /\ Len(reportOnly') = Len(reportOnly) - 1 /\ Len(reportOnly) \in Nat
            /\ \A i \in 1..(Len(reportOnly) - 1) : reportOnly'[i] = reportOnly[i + 1]
        BY <1>5, <2>1, <2>4, <2>5, Headless
      <3>4. ASSUME NEW i \in 1..Len(reportOnly') PROVE reportOnly'[i].by = "foreign"
        <4>1. i + 1 \in 2..Len(reportOnly) /\ i \in 1..(Len(reportOnly) - 1)
          BY <3>3
        <4> QED
          BY <3>3, <4>1 DEF Heads
      <3>5. \A i \in 2..Len(reportOnly') : i \in 1..Len(reportOnly')
        BY <3>3
      <3>6. Heads'
        BY <1>2, <2>2, <2>5, <3>2, <3>3, <3>4, <3>5 DEF Heads
      <3>7. PolicyAddsUp'
        BY <1>2, <2>3, <2>5, <3>2 DEF PolicyAddsUp, IsSum, NextSum
      <3> QED
        BY <1>2, <3>6, <3>7
    <2>6. CASE ~cfg.enforce
      <3>1. /\ IsSeq(enforced') /\ enforced' # <<>> /\ IsValue(enforced'[1])
            /\ enforced'[1].policy = ExtendDirectives(enforced[1].policy, cfg.sources, FALSE)
        BY <1>5, <2>4, <2>6, Extended
      <3>2. NextSum(enforced'[1].policy, FramingNames)
        BY <1>4, <2>1, <3>1
      <3>4. Heads'
        BY <1>2, <1>7, <2>2, <2>4, <2>6, <3>1 DEF Heads
      <3>5. PolicyAddsUp'
        BY <1>2, <1>7, <2>3, <2>4, <2>6, <3>2 DEF PolicyAddsUp, IsSum, NextSum
      <3> QED
        BY <1>2, <3>4, <3>5
    <2> QED
      BY <2>5, <2>6
  <1> QED
    BY <1>6, <1>7

(* The invariant holds under any layers.                                   *)
LEMMA Invariance == ASSUME ~Mixed PROVE Spec => []IInv
  <1>1. IInv /\ [Next]_vars => IInv'
    <2> SUFFICES ASSUME IInv, [Next]_vars PROVE IInv'
      OBVIOUS
    <2>1. CASE UNCHANGED vars
      <3>1. UNCHANGED <<enforced, reportOnly, frameDeny, granted, opener, layers>>
        BY <2>1 DEF vars
      <3>2. IsSeq(layers)' /\ Heads' /\ DenyUntilOpened' /\ FeaturesAddUp'
        BY <3>1 DEF IInv, Heads, Enforcing, DenyUntilOpened, FeaturesAddUp, IsLastOpener
      <3>3. PolicyAddsUp'
        BY <3>1 DEF IInv, PolicyAddsUp, Enforcing, IsSum, Named, Wanted, Applied
      <3> QED
        BY <3>2, <3>3 DEF IInv
    <2>2. CASE Next
      BY <2>2, AppStep, ForeignStep, OverrideStep DEF Next
    <2> QED
      BY <2>1, <2>2
  <1> QED
    BY <1>1, InitIInv, PTL DEF Spec

(* Any number of layers, enforcing or not, in any order: the full policy   *)
(* is the default extended by all of them, as is the Permissions-Policy,   *)
(* and the opener policy is the last one set.                              *)
THEOREM PolicyIsTheSum == ASSUME ~Mixed PROVE Spec => []LayersAddUp
  <1>1. IInv => LayersAddUp
    BY DEF IInv, LayersAddUp, FeaturesAddUp
  <1> QED
    BY <1>1, Invariance, PTL

(* X-Frame-Options says what the enforced frame-ancestors says.            *)
THEOREM FramingHeadersAgree == ASSUME ~Mixed PROVE Spec => []FramingAgrees
  <1>1. IInv => FramingAgrees
    <2> SUFFICES ASSUME IInv, layers # <<>>
                 PROVE  frameDeny <=> Effective(enforced[1].policy["frame-ancestors"]) = {None}
      BY DEF FramingAgrees
    <2> DEFINE name == "frame-ancestors"
    <2>1. Effective(enforced[1].policy[name]) = Effective(Wanted(name))
      <3>1. name \in FramingNames /\ name \in Named
        BY DEF FramingNames, Named, DefaultCSP
      <3> QED
        BY <3>1 DEF IInv, PolicyAddsUp, IsSum
    <2>2. Wanted(name) = {None} \cup Applied(name)
      BY DEF Wanted, Sources, DefaultCSP, FramingNames
    <2>3. frameDeny <=> \A i \in DOMAIN layers : \A source \in Sources(layers[i].sources, name) : source = None
      BY DEF IInv, DenyUntilOpened, FramingOpened
    <2>4. frameDeny <=> Applied(name) \subseteq {None}
      BY <2>3 DEF Applied
    <2>5. Effective(Wanted(name)) = {None} <=> Applied(name) \subseteq {None}
      BY <2>2 DEF Effective
    <2> QED
      BY <2>1, <2>4, <2>5
  <1> QED
    BY <1>1, Invariance, PTL

-----------------------------------------------------------------------------
(* What other middlewares wrote. *)

(* The values the overrides extend are the chassis's own.                  *)
Owned ==
  layers # <<>> => /\ enforced[1].by = "chassis"
                   /\ ~Enforcing => reportOnly[1].by = "chassis"

(* Of a header whose positions move forward by d, d first values of the    *)
(* chassis gone, every other value stays, in its place among them.         *)
LEMMA Shift ==
  ASSUME NEW s, NEW t, NEW d \in {0, 1},
         OthersAt(s) \subseteq Int, OthersAt(t) \subseteq Int,
         \A i \in OthersAt(s) : i - d \in OthersAt(t) /\ t[i - d] = s[i],
         \A i \in OthersAt(s) : \A j \in OthersAt(t) : j < i - d => j + d \in OthersAt(s)
  PROVE  Kept(s, t)
  <1> DEFINE at == [i \in OthersAt(s) |-> i - d]
  <1>1. at \in [OthersAt(s) -> OthersAt(t)]
    OBVIOUS
  <1>2. ASSUME NEW i \in OthersAt(s), NEW j \in OthersAt(t)
        PROVE  j < at[i] <=> \E h \in OthersAt(s) : h < i /\ at[h] = j
    <2>1. ASSUME j < at[i] PROVE \E h \in OthersAt(s) : h < i /\ at[h] = j
      <3>1. j < i - d /\ i \in Int /\ j \in Int
        BY <2>1
      <3>2. j + d \in OthersAt(s) /\ j + d < i /\ (j + d) - d = j
        BY <3>1
      <3>3. at[j + d] = j
        BY <3>2
      <3> QED
        BY <3>2, <3>3
    <2>2. ASSUME NEW h \in OthersAt(s), h < i, at[h] = j PROVE j < at[i]
      <3>1. j = h - d /\ at[i] = i - d /\ h \in Int /\ i \in Int
        BY <2>2
      <3> QED
        BY <2>2, <3>1
    <2> QED
      BY <2>1, <2>2
  <1>3. \A i \in OthersAt(s) : t[at[i]] = s[i]
    OBVIOUS
  <1> HIDE DEF at
  <1> QED
    BY <1>1, <1>2, <1>3 DEF Kept

(* The positions of a header.                                              *)
LEMMA Positions ==
  ASSUME NEW s, IsSeq(s)
  PROVE  /\ Len(s) \in Nat /\ DOMAIN s = 1..Len(s) /\ OthersAt(s) \subseteq Int
         /\ s # <<>> => Len(s) \in Nat \ {0}
  BY DEF IsSeq, OthersAt

(* A header nobody wrote to keeps its values.                              *)
LEMMA Untouched == ASSUME NEW s, IsSeq(s) PROVE Kept(s, s)
  <1>1. \A i \in OthersAt(s) : i - 0 \in OthersAt(s) /\ s[i - 0] = s[i]
    <2>1. \A i \in OthersAt(s) : i - 0 = i
      BY Positions
    <2> QED
      BY <2>1
  <1>2. \A j \in OthersAt(s) : j + 0 \in OthersAt(s)
    <2>1. \A j \in OthersAt(s) : j + 0 = j
      BY Positions
    <2> QED
      BY <2>1
  <1> QED
    BY <1>1, <1>2, Positions, Shift

(* So does one that gets another value behind them.                        *)
LEMMA Appended == ASSUME NEW s, IsSeq(s), NEW x PROVE Kept(s, Append(s, x))
  <1> DEFINE t == Append(s, x)
  <1>1. /\ IsSeq(t) /\ Len(t) = Len(s) + 1 /\ Len(s) \in Nat
        /\ \A i \in 1..Len(s) : t[i] = s[i]
    BY Followed
  <1> HIDE DEF t
  <1>2. DOMAIN s = 1..Len(s) /\ DOMAIN t = 1..(Len(s) + 1)
    BY <1>1, Positions
  <1>3. \A i \in OthersAt(s) : i \in 1..Len(s) /\ i \in OthersAt(t) /\ i - 0 = i /\ t[i] = s[i]
    BY <1>1, <1>2 DEF OthersAt
  <1>4. ASSUME NEW i \in OthersAt(s), NEW j \in OthersAt(t), j < i - 0 PROVE j + 0 \in OthersAt(s)
    <2>1. j + 0 = j /\ j \in 1..Len(s)
      BY <1>1, <1>2, <1>3, <1>4 DEF OthersAt
    <2> QED
      BY <1>1, <1>2, <2>1 DEF OthersAt
  <1> QED
    BY <1>1, <1>3, <1>4, Positions, Shift DEF t

(* So does one whose first value, not another's, is written anew.          *)
LEMMA Rewritten ==
  ASSUME NEW s, NEW t, IsSeq(s), IsSeq(t), s # <<>>, s[1].by # "foreign", t[1].by # "foreign",
         Len(t) = Len(s), \A i \in 2..Len(s) : t[i] = s[i]
  PROVE  Kept(s, t)
  <1>1. DOMAIN s = 1..Len(s) /\ DOMAIN t = 1..Len(s) /\ Len(s) \in Nat
    BY Positions
  <1>2. \A i \in OthersAt(s) : i \in 2..Len(s) /\ i \in OthersAt(t) /\ i - 0 = i /\ t[i] = s[i]
    <2> TAKE i \in OthersAt(s)
    <2>1. i \in 1..Len(s) /\ i # 1 /\ s[i].by = "foreign"
      BY <1>1 DEF OthersAt
    <2>2. i \in 2..Len(s) /\ i - 0 = i /\ i \in DOMAIN t
      BY <1>1, <2>1
    <2> QED
      BY <2>1, <2>2 DEF OthersAt
  <1>3. \A j \in OthersAt(t) : j + 0 \in OthersAt(s)
    <2> TAKE j \in OthersAt(t)
    <2>1. j \in 1..Len(s) /\ j # 1 /\ t[j].by = "foreign"
      BY <1>1 DEF OthersAt
    <2>2. j \in 2..Len(s) /\ j + 0 = j /\ j \in DOMAIN s
      BY <1>1, <2>1
    <2> QED
      BY <2>1, <2>2 DEF OthersAt
  <1> QED
    BY <1>2, <1>3, Positions, Shift

(* So does one whose first value, not another's, is taken away.            *)
LEMMA Beheaded ==
  ASSUME NEW s, IsSeq(s), s # <<>>, s[1].by # "foreign"
  PROVE  Kept(s, Tail(s))
  <1> DEFINE t == Tail(s)
  <1>1. /\ IsSeq(t) /\ Len(t) = Len(s) - 1 /\ Len(s) \in Nat
        /\ \A i \in 1..(Len(s) - 1) : t[i] = s[i + 1]
    BY Headless
  <1> HIDE DEF t
  <1>2. DOMAIN s = 1..Len(s) /\ DOMAIN t = 1..(Len(s) - 1)
    BY <1>1, Positions
  <1>3. \A i \in OthersAt(s) : i - 1 \in OthersAt(t) /\ t[i - 1] = s[i]
    <2> TAKE i \in OthersAt(s)
    <2>1. i \in 1..Len(s) /\ i # 1 /\ s[i].by = "foreign"
      BY <1>2 DEF OthersAt
    <2>2. i - 1 \in 1..(Len(s) - 1) /\ (i - 1) + 1 = i
      BY <1>1, <2>1
    <2>3. t[i - 1] = s[i]
      BY <1>1, <2>2
    <2> QED
      BY <1>2, <2>1, <2>2, <2>3 DEF OthersAt
  <1>4. \A j \in OthersAt(t) : j + 1 \in OthersAt(s)
    <2> TAKE j \in OthersAt(t)
    <2>1. j \in 1..(Len(s) - 1) /\ t[j].by = "foreign"
      BY <1>2 DEF OthersAt
    <2>2. j + 1 \in 1..Len(s) /\ t[j] = s[j + 1]
      BY <1>1, <2>1
    <2> QED
      BY <1>2, <2>1, <2>2 DEF OthersAt
  <1> QED
    BY <1>1, <1>3, <1>4, Positions, Shift DEF t

(* What one step leaves of the headers.                                    *)
Leaves == Owned' /\ Kept(enforced, enforced') /\ Kept(reportOnly, reportOnly')

(* Before the chassis there is nothing to keep.                            *)
LEMMA AppLeaves == ASSUME IInv, NEW cfg \in AppLayers, SecurityHeaders(cfg) PROVE Leaves
  <1>1. layers = <<>> /\ enforced = <<>> /\ reportOnly = <<>>
    BY DEF SecurityHeaders, IInv, Heads
  <1>2. \A t : Kept(<<>>, t)
    <2> TAKE t
    <2>1. OthersAt(<<>>) = {}
      BY DEF OthersAt
    <2>2. [i \in {} |-> i] \in [{} -> OthersAt(t)]
      OBVIOUS
    <2> QED
      BY <2>1, <2>2 DEF Kept
  <1>3. Owned'
    <2> DEFINE full == ExtendDirectives(DefaultCSP, cfg.sources, TRUE)
    <2>1. IF cfg.enforce
            THEN enforced' = <<Chassis(full)>> /\ reportOnly' = <<>>
            ELSE enforced' = <<Chassis(FramingPolicy(full))>> /\ reportOnly' = <<Chassis(full)>>
      BY <1>1 DEF SecurityHeaders, SetIfAbsent
    <2> HIDE DEF full
    <2>2. \A p : Chassis(p).by = "chassis"
      BY DEF Chassis
    <2>3. Enforcing' <=> cfg.enforce
      <3>1. layers' = Append(layers, cfg) /\ IsSeq(layers) /\ ~Enforcing
        BY <1>1 DEF SecurityHeaders, IInv, Enforcing
      <3> QED
        BY <3>1, Grown
    <2> QED
      BY <2>1, <2>2, <2>3, Alone DEF Owned
  <1> QED
    BY <1>1, <1>2, <1>3 DEF Leaves

(* Another value comes behind those there are.                             *)
LEMMA ForeignLeaves ==
  ASSUME IInv, Owned, ~Mixed, NEW other, AddForeign(other)
  PROVE  Leaves
  <1>1. /\ layers # <<>> /\ UNCHANGED layers
        /\ \/ enforced' = Append(enforced, Foreign(other)) /\ UNCHANGED reportOnly
           \/ reportOnly' = Append(reportOnly, Foreign(other)) /\ UNCHANGED enforced
    BY DEF AddForeign
  <1>2. (Enforcing' <=> Enforcing) /\ IsSeq(enforced) /\ IsSeq(reportOnly)
    BY <1>1 DEF Enforcing, IInv, Heads
  <1>3. \A s : IsSeq(s) /\ s # <<>> => Append(s, Foreign(other))[1] = s[1]
    <2> TAKE s
    <2> HAVE IsSeq(s) /\ s # <<>>
    <2>1. 1 \in 1..Len(s)
      BY Positions
    <2> QED
      BY <2>1, Followed
  <1>4. enforced # <<>> /\ (~Enforcing => reportOnly # <<>>)
    BY <1>1 DEF IInv, Heads
  <1>5. Owned'
    BY <1>1, <1>2, <1>3, <1>4 DEF Owned
  <1> QED
    BY <1>1, <1>2, <1>5, Appended, Untouched DEF Leaves

(* An override writes the chassis's values and no other.                   *)
LEMMA OverrideLeaves ==
  ASSUME IInv, Owned, ~Mixed, NEW cfg \in RouteLayers, Mounted, SecurityOverride(cfg)
  PROVE  Leaves
  <1>1. layers # <<>> /\ layers' = Append(layers, cfg) /\ ApplyCSP(cfg)
    BY DEF SecurityOverride
  <1>2. (Enforcing' <=> Enforcing \/ cfg.enforce) /\ layers' # <<>>
    BY <1>1, Grown DEF IInv
  <1>3. /\ IsSeq(enforced) /\ enforced # <<>> /\ IsValue(enforced[1]) /\ IsSeq(reportOnly)
        /\ enforced[1].by = "chassis"
    BY <1>1 DEF IInv, Heads, Owned
  <1>4. ASSUME NEW s, IsSeq(s), s # <<>>, IsValue(s[1]), s[1].by = "chassis", NEW addNew \in BOOLEAN
        PROVE  LET t == ExtendFirst(s, cfg.sources, addNew) IN
                 IsSeq(t) /\ t # <<>> /\ t[1].by = "chassis" /\ Kept(s, t)
    <2> DEFINE t == ExtendFirst(s, cfg.sources, addNew)
    <2>1. IsSeq(t) /\ t # <<>> /\ Len(t) = Len(s) /\ \A i \in 2..Len(s) : t[i] = s[i]
      BY <1>4, Extended
    <2>2. t[1].by = "chassis"
      BY <1>4, ExtendedBy
    <2> HIDE DEF t
    <2>3. Kept(s, t)
      BY <1>4, <2>1, <2>2, Rewritten
    <2> QED
      BY <2>1, <2>2, <2>3 DEF t
  <1>5. CASE Enforcing
    <2>1. reportOnly = <<>>
      <3>1. DOMAIN reportOnly = 1..Len(reportOnly) /\ Len(reportOnly) \in Nat
        BY <1>3, Positions
      <3>2. DOMAIN reportOnly = {}
        BY <1>5, <3>1 DEF Mounted, OthersAt, IInv, Heads
      <3> QED
        BY <1>3, <3>2 DEF IsSeq
    <2>2. enforced' = ExtendFirst(enforced, cfg.sources, TRUE) /\ UNCHANGED reportOnly
      BY <1>1, <2>1 DEF ApplyCSP
    <2>3. enforced'[1].by = "chassis" /\ Kept(enforced, enforced')
      BY <1>3, <1>4, <2>2
    <2> QED
      BY <1>2, <1>3, <1>5, <2>2, <2>3, Untouched DEF Leaves, Owned
  <1>6. CASE ~Enforcing
    <2> DEFINE extended == ExtendFirst(reportOnly, cfg.sources, TRUE)
    <2>1. reportOnly # <<>> /\ IsValue(reportOnly[1]) /\ reportOnly[1].by = "chassis"
      BY <1>1, <1>6 DEF IInv, Heads, Owned
    <2>2. extended[1].by = "chassis" /\ Kept(reportOnly, extended)
      BY <1>3, <1>4, <2>1
    <2>3. IF cfg.enforce
            THEN reportOnly' = Tail(reportOnly) /\ enforced' = Promote(extended[1])
            ELSE reportOnly' = extended /\ enforced' = ExtendFirst(enforced, cfg.sources, FALSE)
      BY <1>1, <2>1 DEF ApplyCSP
    <2> HIDE DEF extended
    <2>4. CASE cfg.enforce
      <3>1. enforced' = <<extended[1]>> \o Tail(enforced)
        BY <1>3, <2>3, <2>4 DEF Promote
      <3>2. /\ IsSeq(enforced') /\ enforced'[1] = extended[1] /\ Len(enforced') = Len(enforced)
            /\ \A i \in 2..Len(enforced) : enforced'[i] = enforced[i]
        BY <1>3, <3>1, Headed
      <3>3. Kept(enforced, enforced')
        BY <1>3, <2>2, <3>2, Rewritten
      <3>4. Kept(reportOnly, reportOnly')
        BY <1>3, <2>1, <2>3, <2>4, Beheaded
      <3> QED
        BY <1>2, <2>2, <2>4, <3>2, <3>3, <3>4 DEF Leaves, Owned
    <2>5. CASE ~cfg.enforce
      <3>1. enforced'[1].by = "chassis" /\ Kept(enforced, enforced')
        BY <1>3, <1>4, <2>3, <2>5
      <3> QED
        BY <2>2, <2>3, <2>5, <3>1 DEF Leaves, Owned
    <2> QED
      BY <2>4, <2>5
  <1> QED
    BY <1>5, <1>6

(* No layer loses, changes, reorders or moves what another middleware      *)
(* wrote, where none writes in front of the chassis or reports below an    *)
(* enforcing one.                                                          *)
THEOREM OthersAreLeftAlone == ASSUME ~Mixed PROVE Spec => ForeignKept
  <1>1. Init => Owned
    BY DEF Init, Owned
  <1>2. IInv /\ Owned /\ [Next]_vars
          => Owned' /\ [Kept(enforced, enforced') /\ Kept(reportOnly, reportOnly')]_vars
    <2> SUFFICES ASSUME IInv, Owned, [Next]_vars
                 PROVE  Owned' /\ [Kept(enforced, enforced') /\ Kept(reportOnly, reportOnly')]_vars
      OBVIOUS
    <2>1. CASE UNCHANGED vars
      BY <2>1 DEF vars, Owned, Enforcing
    <2>2. CASE Next
      <3>1. Leaves
        BY <2>2, AppLeaves, ForeignLeaves, OverrideLeaves DEF Next
      <3> QED
        BY <3>1 DEF Leaves
    <2> QED
      BY <2>1, <2>2
  <1> QED
    BY <1>1, <1>2, Invariance, PTL DEF Spec, ForeignKept
=============================================================================
