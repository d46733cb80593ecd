---------------------------- MODULE OpenApiProofs -----------------------------
(***************************************************************************)
(* Proofs about OpenApi and Coverage, for any types, registries, fields    *)
(* and routers: every reference of a finished document finds a finished    *)
(* schema, its components are the named structs that its bodies mention,   *)
(* and the drift test reports the routes that it lacks.                    *)
(***************************************************************************)
EXTENDS Coverage, FiniteSetTheorems, WellFoundedInduction, TLAPS

(* A struct whose fields are being visited.                                *)
Visit == [type : Type, next : Nat \ {0}]

(* A document is finished between two bodies, never inside of one.         *)
FinishedIdle == Done => Idle

(* A reference is only written to a name that is taken.                    *)
RefsTaken == refs \subseteq DOMAIN schemas

(* The input stays what was given.                                         *)
Given == fields \in Fields /\ registry \in Registries

IInv == TypeOK /\ Given /\ FinishedIdle /\ RefsTaken /\ PlaceholdersPending

(* A document begins with nothing on the stack.                            *)
LEMMA InitIInv == Init => IInv
  <1> SUFFICES ASSUME Init PROVE IInv
    OBVIOUS
  <1> USE TypeAssumption, RegistryAssumption DEF Init, Begin, Lists
  <1>1. TypeOK
    BY DEF TypeOK
  <1>2. Given /\ FinishedIdle /\ RefsTaken /\ PlaceholdersPending
    BY DEF Given, FinishedIdle, Idle, RefsTaken, PlaceholdersPending
  <1> QED
    BY <1>1, <1>2 DEF IInv

(* Converting a route: no struct is being visited.                         *)
LEMMA RouteStep == IInv /\ (Response \/ Request \/ Store) => IInv'
  <1> SUFFICES ASSUME IInv, Response \/ Request \/ Store PROVE IInv'
    OBVIOUS
  <1> USE TypeAssumption, RegistryAssumption DEF IInv, TypeOK, Given, Lists
  <1>1. Converting /\ Idle /\ UNCHANGED <<input, stack, schemas, refs>>
    BY DEF Response, Request, Store
  <1>2. route \in 1..Len(registry)
    BY <1>1 DEF Converting
  <1>3. TypeOK'
    <2>1. Len(registry) \in Nat
      OBVIOUS
    <2>2. at' \in Type \cup {NoType}
      BY <1>1, <1>2 DEF Response, Request, Store
    <2>3. route' \in 1..(Len(registry) + 1) /\ part' \in {"response", "request", "store"}
      BY <1>2, <2>1 DEF Response, Request, Store
    <2>4. \A p \in paths' : \E i \in 1..Len(registry) : p = <<registry[i].path, registry[i].method>>
      BY <1>2 DEF Response, Request, Store
    <2> QED
      BY <1>1, <2>2, <2>3, <2>4 DEF input
  <1>4. FinishedIdle'
    BY <1>1, <1>2 DEF FinishedIdle, Done, Converting, Idle, Response, Request, Store, input
  <1>5. Given' /\ RefsTaken' /\ PlaceholdersPending'
    BY <1>1 DEF RefsTaken, PlaceholdersPending, input
  <1> QED
    BY <1>3, <1>4, <1>5

(* Describing a type that is no new struct.                                *)
LEMMA TypeStep == IInv /\ (Element \/ Plain \/ Refer) => IInv'
  <1> SUFFICES ASSUME IInv, Element \/ Plain \/ Refer PROVE IInv'
    OBVIOUS
  <1> USE TypeAssumption, RegistryAssumption DEF IInv, TypeOK, Given, Lists
  <1>1. at # NoType /\ at \in Type /\ UNCHANGED <<input, route, part, stack, schemas, paths>>
    BY DEF Element, Plain, Refer
  <1>2. Converting
    BY <1>1 DEF FinishedIdle, Done, Idle
  <1>3. at' \in Type \cup {NoType}
    BY <1>1 DEF Element, Plain, Refer
  <1>4. refs' \subseteq DOMAIN schemas /\ refs' \subseteq Named
    BY <1>1 DEF Element, Plain, Refer, Seen, RefsTaken
  <1>5. TypeOK' /\ Given'
    BY <1>1, <1>3, <1>4 DEF input
  <1>6. FinishedIdle' /\ RefsTaken' /\ PlaceholdersPending'
    BY <1>1, <1>2, <1>4 DEF input, FinishedIdle, Done, Converting, RefsTaken, PlaceholdersPending
  <1> QED
    BY <1>5, <1>6

(* Entering a struct takes its name and puts it on the stack.              *)
LEMMA EnterStep == IInv /\ Enter => IInv'
  <1> SUFFICES ASSUME IInv, Enter PROVE IInv'
    OBVIOUS
  <1> USE TypeAssumption, RegistryAssumption DEF IInv, TypeOK, Given, Lists
  <1> DEFINE n == Name[at]
  <1>1. /\ at \in Type /\ at # NoType
        /\ stack' = Append(stack, [type |-> at, next |-> 1])
        /\ at' = NoType
        /\ UNCHANGED <<input, route, part, refs, paths>>
    BY DEF Enter
  <1>2. Converting
    BY <1>1 DEF FinishedIdle, Done, Idle
  <1>3. stack' \in Seq(Visit)
    BY <1>1 DEF Visit
  <1>4. CASE n = Anonymous
    <2>1. schemas' = schemas
      BY <1>4 DEF Enter, Reserve
    <2>2. PlaceholdersPending'
      <3> SUFFICES ASSUME NEW m \in DOMAIN schemas, schemas[m].of = NoType
                   PROVE  \E i \in DOMAIN stack' : Name[stack'[i].type] = m
        BY <2>1 DEF PlaceholdersPending
      <3>1. PICK i \in DOMAIN stack : Name[stack[i].type] = m
        BY DEF PlaceholdersPending
      <3>2. i \in DOMAIN stack' /\ stack'[i] = stack[i]
        BY <1>1, <3>1
      <3> QED
        BY <3>1, <3>2
    <2> QED
      BY <1>1, <1>2, <1>3, <2>1, <2>2
      DEF Visit, input, FinishedIdle, Done, Converting, RefsTaken
  <1>5. CASE n # Anonymous
    <2>1. /\ schemas' = Put(n, Placeholder)
          /\ n \in Named
      BY <1>1, <1>5 DEF Enter, Reserve, Named
    <2>2. /\ DOMAIN schemas' = DOMAIN schemas \cup {n}
          /\ schemas'[n].of = NoType
          /\ \A m \in DOMAIN schemas : m # n => schemas'[m] = schemas[m]
      BY <2>1 DEF Placeholder, Put
    <2>3. PlaceholdersPending'
      <3> SUFFICES ASSUME NEW m \in DOMAIN schemas', schemas'[m].of = NoType
                   PROVE  \E i \in DOMAIN stack' : Name[stack'[i].type] = m
        BY DEF PlaceholdersPending
      <3>1. CASE m = n
        <4>1. Len(stack) + 1 \in DOMAIN stack' /\ stack'[Len(stack) + 1].type = at
          BY <1>1
        <4> QED
          BY <3>1, <4>1
      <3>2. CASE m # n
        <4>1. PICK i \in DOMAIN stack : Name[stack[i].type] = m
          BY <2>2, <3>2 DEF PlaceholdersPending
        <4>2. i \in DOMAIN stack' /\ stack'[i] = stack[i]
          BY <1>1, <4>1
        <4> QED
          BY <4>1, <4>2
      <3> QED
        BY <3>1, <3>2
    <2>4. TypeOK'
      BY <1>1, <1>3, <2>1, <2>2 DEF Visit, input
    <2> QED
      BY <1>1, <1>2, <2>2, <2>3, <2>4
      DEF input, FinishedIdle, Done, Converting, RefsTaken
  <1> QED
    BY <1>4, <1>5

(* The stack without its top.                                              *)
LEMMA Stacked ==
  ASSUME NEW s \in Seq(Visit), s # <<>>
  PROVE  /\ Len(s) \in Nat \ {0}
         /\ s[Len(s)] \in Visit
         /\ SubSeq(s, 1, Len(s) - 1) \in Seq(Visit)
         /\ Len(SubSeq(s, 1, Len(s) - 1)) = Len(s) - 1
         /\ \A i \in 1..(Len(s) - 1) : SubSeq(s, 1, Len(s) - 1)[i] = s[i]
  <1>1. Len(s) \in Nat \ {0}
    OBVIOUS
  <1>2. s[Len(s)] \in Visit
    BY <1>1
  <1> QED
    BY <1>1, <1>2

(* The top of the stack, with the next field.                               *)
LEMMA NextField ==
  ASSUME NEW v \in Visit
  PROVE  [v EXCEPT !.next = @ + 1] \in Visit /\ [v EXCEPT !.next = @ + 1].type = v.type
  BY DEF Visit

(* The stack with another top.                                             *)
LEMMA Replaced ==
  ASSUME NEW s \in Seq(Visit), s # <<>>, NEW v \in Visit
  PROVE  LET r == Append(SubSeq(s, 1, Len(s) - 1), v) IN
           /\ r \in Seq(Visit)
           /\ Len(r) = Len(s)
           /\ r[Len(s)] = v
           /\ \A i \in 1..(Len(s) - 1) : r[i] = s[i]
  <1> DEFINE b == SubSeq(s, 1, Len(s) - 1)
  <1>1. b \in Seq(Visit) /\ Len(b) = Len(s) - 1 /\ Len(s) \in Nat \ {0} /\ \A i \in 1..(Len(s) - 1) : b[i] = s[i]
    BY Stacked
  <1> HIDE DEF b
  <1>2. Append(b, v) \in Seq(Visit) /\ Len(Append(b, v)) = Len(s) /\ Append(b, v)[Len(s)] = v
    BY <1>1
  <1>3. \A i \in 1..(Len(s) - 1) : Append(b, v)[i] = s[i]
    BY <1>1
  <1> QED
    BY <1>2, <1>3 DEF b

(* Going on to the next field.                                             *)
LEMMA FieldStep == IInv /\ Field => IInv'
  <1> SUFFICES ASSUME IInv, Field PROVE IInv'
    OBVIOUS
  <1> USE TypeAssumption, RegistryAssumption DEF IInv, TypeOK, Given, Lists
  <1>1. /\ stack # <<>>
        /\ Top.next \in Visited(Top.type)
        /\ stack' = Append(Below, [Top EXCEPT !.next = @ + 1])
        /\ UNCHANGED <<input, route, part, schemas, refs, paths>>
    BY DEF Field
  <1>2. stack \in Seq(Visit)
    BY DEF Visit
  <1>3. Len(stack) \in Nat \ {0} /\ Top \in Visit
    BY <1>1, <1>2, Stacked DEF Top
  <1>4. [Top EXCEPT !.next = @ + 1] \in Visit /\ [Top EXCEPT !.next = @ + 1].type = Top.type
    BY <1>3, NextField
  <1>5. /\ stack' \in Seq(Visit)
        /\ Len(stack') = Len(stack)
        /\ \A i \in 1..Len(stack) : stack'[i].type = stack[i].type
    <2>1. /\ stack' \in Seq(Visit) /\ Len(stack') = Len(stack)
          /\ stack'[Len(stack)].type = Top.type
          /\ \A i \in 1..(Len(stack) - 1) : stack'[i] = stack[i]
      BY <1>1, <1>2, <1>4, Replaced DEF Below
    <2>2. \A i \in 1..Len(stack) : i = Len(stack) \/ i \in 1..(Len(stack) - 1)
      BY <1>3
    <2>3. stack[Len(stack)] = Top
      BY DEF Top
    <2> QED
      BY <2>1, <2>2, <2>3
  <1>6. at' \in Type \cup {NoType}
    BY <1>1, <1>3 DEF Field, Visited, Visit
  <1>7. Converting
    BY <1>1 DEF FinishedIdle, Done, Idle
  <1>8. PlaceholdersPending'
    <2> SUFFICES ASSUME NEW m \in DOMAIN schemas, schemas[m].of = NoType
                 PROVE  \E i \in DOMAIN stack' : Name[stack'[i].type] = m
      BY <1>1 DEF PlaceholdersPending
    <2>1. PICK i \in DOMAIN stack : Name[stack[i].type] = m
      BY DEF PlaceholdersPending
    <2>2. i \in 1..Len(stack) /\ i \in DOMAIN stack'
      BY <1>2, <1>5, <2>1
    <2> QED
      BY <1>5, <2>1, <2>2
  <1>9. TypeOK' /\ Given'
    BY <1>1, <1>5, <1>6 DEF input, Visit
  <1> QED
    BY <1>1, <1>7, <1>8, <1>9 DEF input, FinishedIdle, Done, Converting, RefsTaken

(* Leaving a struct finishes its name.                                     *)
LEMMA LeaveStep == IInv /\ Leave => IInv'
  <1> SUFFICES ASSUME IInv, Leave PROVE IInv'
    OBVIOUS
  <1> USE TypeAssumption, RegistryAssumption DEF IInv, TypeOK, Given, Lists
  <1> DEFINE t == Top.type
             n == Name[t]
  <1>1. /\ stack # <<>>
        /\ schemas' = Complete(n, t)
        /\ refs' = refs \cup ({n} \ {Anonymous})
        /\ stack' = Below
        /\ UNCHANGED <<input, route, part, at, paths>>
    BY DEF Leave
  <1>2. Len(stack) \in Nat \ {0} /\ t \in Type
    <2>1. stack \in Seq(Visit)
      BY DEF Visit
    <2> QED
      BY <1>1, <2>1, Stacked DEF Top, Visit
  <1>3. /\ stack' \in Seq(Visit)
        /\ Len(stack') = Len(stack) - 1
        /\ \A i \in 1..(Len(stack) - 1) : stack'[i] = stack[i]
    <2>1. stack \in Seq(Visit)
      BY DEF Visit
    <2> QED
      BY <1>1, <2>1, Stacked DEF Below
  <1> HIDE DEF t
  <1>4. Converting
    BY <1>1 DEF FinishedIdle, Done, Idle
  <1>5. /\ DOMAIN schemas' = DOMAIN schemas \cup ({n} \ {Anonymous})
        /\ n # Anonymous => schemas'[n].of = t
        /\ \A m \in DOMAIN schemas : m # n => schemas'[m] = schemas[m]
    <2>1. CASE n = Anonymous
      BY <1>1, <2>1 DEF Complete
    <2>2. CASE n # Anonymous
      <3>1. schemas' = Put(n, [of |-> t, properties |-> Properties(t)])
        BY <1>1, <2>2 DEF Complete
      <3>2. /\ DOMAIN schemas' = DOMAIN schemas \cup {n}
            /\ schemas'[n] = [of |-> t, properties |-> Properties(t)]
            /\ \A m \in DOMAIN schemas : m # n => schemas'[m] = schemas[m]
        BY <3>1 DEF Put
      <3> QED
        BY <2>2, <3>2
    <2> QED
      BY <2>1, <2>2
  <1>6. ({n} \ {Anonymous}) \subseteq Named
    BY <1>2 DEF Named
  <1>7. PlaceholdersPending'
    <2> SUFFICES ASSUME NEW m \in DOMAIN schemas', schemas'[m].of = NoType
                 PROVE  \E i \in DOMAIN stack' : Name[stack'[i].type] = m
      BY DEF PlaceholdersPending
    <2>1. m # Anonymous
      BY <1>5, <1>6 DEF Named
    <2>2. m # n
      BY <1>2, <1>5, <2>1
    <2>3. m \in DOMAIN schemas /\ schemas[m].of = NoType
      BY <1>5, <2>2
    <2>4. PICK i \in DOMAIN stack : Name[stack[i].type] = m
      BY <2>3 DEF PlaceholdersPending
    <2>5. i # Len(stack)
      BY <2>2, <2>4 DEF Top, t
    <2>6. i \in 1..(Len(stack) - 1)
      BY <1>2, <2>4, <2>5
    <2>7. DOMAIN stack' = 1..(Len(stack) - 1)
      BY <1>3
    <2>8. i \in DOMAIN stack' /\ stack'[i] = stack[i]
      BY <1>3, <2>6, <2>7
    <2> QED
      BY <2>4, <2>8
  <1>8. \A m \in DOMAIN schemas' : schemas'[m].of \in Type \cup {NoType}
    <2> SUFFICES ASSUME NEW m \in DOMAIN schemas' PROVE schemas'[m].of \in Type \cup {NoType}
      OBVIOUS
    <2>1. CASE m \in DOMAIN schemas /\ m # n
      BY <1>5, <2>1
    <2>2. CASE m = n /\ n # Anonymous
      BY <1>2, <1>5, <2>2
    <2>3. CASE m = n /\ n = Anonymous
      BY <1>5, <2>3 DEF Named
    <2> QED
      BY <1>5, <2>1, <2>2, <2>3
  <1>9. TypeOK' /\ Given'
    BY <1>1, <1>3, <1>5, <1>6, <1>8 DEF input, Visit
  <1>10. RefsTaken' /\ FinishedIdle'
    BY <1>1, <1>4, <1>5 DEF input, FinishedIdle, Done, Converting, RefsTaken
  <1> QED
    BY <1>7, <1>9, <1>10

(* The invariant holds whatever is documented.                             *)
LEMMA Invariance == Spec => []IInv
  <1>1. IInv /\ [Next]_vars => IInv'
    <2> SUFFICES ASSUME IInv, [Next]_vars PROVE IInv'
      OBVIOUS
    <2>1. CASE UNCHANGED vars
      BY <2>1 DEF vars, input, IInv, TypeOK, Given, FinishedIdle, Done, Converting, Idle, RefsTaken,
         PlaceholdersPending
    <2>2. CASE Next
      BY <2>2, RouteStep, TypeStep, EnterStep, FieldStep, LeaveStep DEF Next
    <2> QED
      BY <2>1, <2>2
  <1> QED
    BY <1>1, InitIInv, PTL DEF Spec

(* What is on the builder's stack, in its schemas and behind its           *)
(* references are always types and names of the application.               *)
THEOREM TypeCorrect == Spec => []TypeOK
  <1>1. IInv => TypeOK
    BY DEF IInv
  <1> QED
    BY <1>1, Invariance, PTL

(* Every $ref of a finished document finds a finished schema, however the  *)
(* types refer to each other and whichever of them share a name.           *)
THEOREM ReferencesResolve == Spec => []RefsResolve
  <1>1. IInv => RefsResolve
    <2> SUFFICES ASSUME IInv, Done, NEW n \in refs
                 PROVE  n \in DOMAIN schemas /\ schemas[n].of # NoType
      BY DEF RefsResolve
    <2>1. stack = <<>>
      BY DEF IInv, FinishedIdle, Idle
    <2>2. n \in DOMAIN schemas
      BY DEF IInv, RefsTaken
    <2> QED
      BY <2>1, <2>2 DEF IInv, PlaceholdersPending
  <1> QED
    BY <1>1, Invariance, PTL
-----------------------------------------------------------------------------
(* The types whose description has begun and not ended.                    *)
InProgress == ({at} \ {NoType}) \cup {stack[i].type : i \in DOMAIN stack}

IsComponent(t) == Kind[t] = "struct" /\ Name[t] # Anonymous

(* Nothing is described that the bodies do not mention, and a finished     *)
(* component is a struct of its name with that struct's properties.        *)
Sound ==
  /\ schemas = [n \in DOMAIN schemas |-> schemas[n]]
  /\ InProgress \subseteq Mentioned
  /\ \A i \in DOMAIN stack : Kind[stack[i].type] = "struct"
  /\ \A n \in DOMAIN schemas : schemas[n].of # NoType =>
       /\ schemas[n].of \in Components(Mentioned) /\ Name[schemas[n].of] = n
       /\ schemas[n] = [of |-> schemas[n].of, properties |-> Exported(schemas[n].of)]

(* A set U that the description has been through: it has the bodies of the *)
(* routes so far, ...                                                      *)
ResponseOf(i) == IF registry[i].status = NoContent THEN NoType ELSE registry[i].response
BodyIn(U, t) == t = NoType \/ t \in U

BodiesIn(U) ==
  \A i \in DOMAIN registry :
     /\ i < route \/ (i = route /\ part # "response") => BodyIn(U, ResponseOf(i))
     /\ i < route \/ (i = route /\ part = "store") => BodyIn(U, registry[i].request)

(* ... the fields visited so far of the structs on the stack, ...          *)
FieldsIn(U) ==
  \A i \in DOMAIN stack : LET t == stack[i].type IN
     \A j \in DOMAIN fields[t] : j < stack[i].next /\ ~fields[t][j].hidden => fields[t][j].type \in U

(* ... what each type mentions whose description has ended, ...            *)
Described(u, U) == Mentions(u) \subseteq U /\ (IsComponent(u) => Name[u] \in DOMAIN schemas)

DescribedIn(U) == \A u \in U \ InProgress : Described(u, U)

(* ... and what each finished component mentions.                          *)
FinishedIn(U) == \A n \in DOMAIN schemas : schemas[n].of # NoType => Mentions(schemas[n].of) \subseteq U

Explores(U) == InProgress \subseteq U /\ BodiesIn(U) /\ FieldsIn(U) /\ DescribedIn(U) /\ FinishedIn(U)

CInv == /\ IInv
        /\ Sound
        /\ Distinct(Components(Mentioned)) => \E U \in SUBSET Type : Explores(U)

-----------------------------------------------------------------------------
(* What is mentioned are types, and the mentioned types are closed.        *)
LEMMA MentionedIsClosed ==
  ASSUME IInv
  PROVE  /\ \A t \in Type : Mentions(t) \subseteq Type
         /\ Mentioned \subseteq Type
         /\ Closed(Mentioned)
         /\ \A S \in SUBSET Type : Closed(S) => Mentioned \subseteq S
  <1> USE TypeAssumption, RegistryAssumption DEF IInv, Given, Lists
  <1>1. ASSUME NEW t \in Type PROVE Mentions(t) \subseteq Type
    <2>1. Elem[t] \in Type
      OBVIOUS
    <2>2. \A i \in DOMAIN fields[t] : fields[t][i].type \in Type
      OBVIOUS
    <2> QED
      BY <2>1, <2>2 DEF Mentions, MentionsIn
  <1>2. Bodies \ {NoType} \subseteq Type
    BY DEF Bodies
  <1>3. Mentioned \subseteq Type /\ \A S \in SUBSET Type : Closed(S) => Mentioned \subseteq S
    BY DEF Mentioned
  <1>4. Bodies \ {NoType} \subseteq Mentioned
    BY <1>2 DEF Mentioned, Closed
  <1>5. ASSUME NEW t \in Mentioned, NEW u \in Mentions(t) PROVE u \in Mentioned
    <2>1. u \in Type
      BY <1>1, <1>3
    <2>2. ASSUME NEW S \in SUBSET Type, Closed(S) PROVE u \in S
      BY <1>3, <2>2 DEF Closed
    <2> QED
      BY <2>1, <2>2 DEF Mentioned
  <1> QED
    BY <1>1, <1>3, <1>4, <1>5 DEF Closed

(* What the input says does not change.                                    *)
LEMMA SameInput ==
  ASSUME UNCHANGED input
  PROVE  /\ \A t : Mentions(t)' = Mentions(t) /\ Exported(t)' = Exported(t)
         /\ Bodies' = Bodies /\ Mentioned' = Mentioned
         /\ Components(Mentioned)' = Components(Mentioned)
         /\ Distinct(Components(Mentioned))' = Distinct(Components(Mentioned))
         /\ \A i : ResponseOf(i)' = ResponseOf(i)
  <1>1. fields' = fields /\ registry' = registry
    BY DEF input
  <1>2. \A t : Mentions(t)' = Mentions(t) /\ Exported(t)' = Exported(t)
    BY <1>1 DEF Mentions, MentionsIn, Exported
  <1>3. Bodies' = Bodies
    BY <1>1 DEF Bodies
  <1>4. \A S : Closed(S)' = Closed(S)
    BY <1>2, <1>3 DEF Closed
  <1>5. Mentioned' = Mentioned
    BY <1>4 DEF Mentioned
  <1>6. \A i : ResponseOf(i)' = ResponseOf(i)
    BY <1>1 DEF ResponseOf
  <1> QED
    BY <1>2, <1>3, <1>5, <1>6 DEF Components, Distinct

(* Where a step leaves what has been described: it may describe a new type *)
(* and take new names, and has described what it takes from those in       *)
(* progress.                                                               *)
LEMMA Carry ==
  ASSUME UNCHANGED input, NEW U, NEW W, DescribedIn(U),
         U \subseteq W, W \subseteq U \cup InProgress',
         DOMAIN schemas \subseteq (DOMAIN schemas)',
         \A u \in InProgress : u \in InProgress' \/ Described(u, W)'
  PROVE  DescribedIn(W)'
  <1> SUFFICES ASSUME NEW u \in W, u \notin InProgress' PROVE Described(u, W)'
    BY DEF DescribedIn
  <1>1. u \in U
    OBVIOUS
  <1>2. CASE u \in InProgress
    BY <1>2
  <1>3. CASE u \notin InProgress
    <2>1. Described(u, U)
      BY <1>1, <1>3 DEF DescribedIn
    <2>2. Mentions(u)' = Mentions(u)
      BY SameInput
    <2> QED
      BY <2>1, <2>2 DEF Described, IsComponent
  <1> QED
    BY <1>2, <1>3

(* A document begins with nothing described.                               *)
LEMMA InitExplores == Init => CInv
  <1> SUFFICES ASSUME Init PROVE CInv
    OBVIOUS
  <1>1. IInv
    BY InitIInv
  <1>2. InProgress = {} /\ DOMAIN schemas = {} /\ DOMAIN stack = {}
    BY DEF Init, Begin, InProgress
  <1>3. Sound
    BY <1>2 DEF Sound
  <1>4. BodiesIn({})
    BY RegistryAssumption DEF Init, Begin, BodiesIn, Lists
  <1>5. Explores({})
    BY <1>2, <1>4 DEF Explores, FieldsIn, DescribedIn, FinishedIn
  <1>6. {} \in SUBSET Type
    OBVIOUS
  <1> QED
    BY <1>1, <1>3, <1>5, <1>6 DEF CInv

(* Converting a route begins with a body of it.                            *)
LEMMA RouteExplores ==
  ASSUME CInv, Response \/ Request \/ Store
  PROVE  /\ Sound'
         /\ \A U \in SUBSET Type : Explores(U) => \E W \in SUBSET Type : Explores(W)'
  <1> USE DEF CInv
  <1>1. /\ Converting /\ Idle /\ UNCHANGED <<input, stack, schemas, refs>>
        /\ stack' = <<>> /\ fields' = fields /\ registry' = registry
    BY DEF Response, Request, Store, Idle, input
  <1>2. route \in DOMAIN registry /\ DOMAIN registry = 1..Len(registry) /\ Len(registry) \in Nat
    BY <1>1, RegistryAssumption DEF IInv, TypeOK, Given, Converting, Lists
  <1>3. BodyIn({at'}, at') /\ at' \in Bodies \cup {NoType} /\ at' \in Type \cup {NoType}
    <2>1. at' \in Bodies \cup {NoType}
      BY <1>1, <1>2 DEF Response, Request, Store, Idle, Bodies
    <2> QED
      BY <2>1, <1>2, RegistryAssumption DEF BodyIn, Bodies, IInv, Given, Lists
  <1>4. InProgress = {} /\ InProgress' = {at'} \ {NoType}
    BY <1>1 DEF InProgress, Idle
  <1>5. Sound'
    <2>1. at' \in Mentioned \cup {NoType}
      BY <1>3, MentionedIsClosed DEF Closed
    <2> QED
      BY <1>1, <1>4, <2>1, SameInput DEF Sound
  <1>6. ASSUME NEW U \in SUBSET Type, Explores(U) PROVE \E W \in SUBSET Type : Explores(W)'
    <2> PICK W \in SUBSET Type : W = U \cup ({at'} \ {NoType})
      BY <1>3
    <2>1. U \subseteq W /\ InProgress' \subseteq W /\ BodyIn(W, at')
      BY <1>3, <1>4, <1>6 DEF BodyIn
    <2>2. W \subseteq U \cup InProgress'
      BY <1>4
    <2>3. BodiesIn(W)'
      <3> SUFFICES ASSUME NEW i \in DOMAIN registry
                   PROVE  /\ i < route' \/ (i = route' /\ part' # "response") => BodyIn(W, ResponseOf(i))
                          /\ i < route' \/ (i = route' /\ part' = "store") => BodyIn(W, registry[i].request)
        BY <1>1, SameInput DEF BodiesIn, BodyIn
      <3>1. /\ i < route \/ (i = route /\ part # "response") => BodyIn(U, ResponseOf(i))
            /\ i < route \/ (i = route /\ part = "store") => BodyIn(U, registry[i].request)
        BY <1>6 DEF Explores, BodiesIn
      <3>2. \A t : BodyIn(U, t) => BodyIn(W, t)
        BY <2>1 DEF BodyIn
      <3>3. i \in Nat /\ route \in Nat
        BY <1>2
      <3>4. CASE Response
        <4>1. at' = ResponseOf(route) /\ part = "response" /\ part' = "request" /\ route' = route
          BY <3>4 DEF Response, ResponseOf
        <4> QED
          BY <2>1, <3>1, <3>2, <3>3, <4>1
      <3>5. CASE Request
        <4>1. at' = registry[route].request /\ part = "request" /\ part' = "store" /\ route' = route
          BY <3>5 DEF Request
        <4> QED
          BY <2>1, <3>1, <3>2, <3>3, <4>1
      <3>6. CASE Store
        <4>1. part = "store" /\ part' = "response" /\ route' = route + 1
          BY <3>6 DEF Store
        <4>2. i < route' <=> (i < route \/ i = route)
          BY <3>3, <4>1
        <4> QED
          BY <3>1, <3>2, <4>1, <4>2
      <3> QED
        BY <3>4, <3>5, <3>6
    <2>4. DescribedIn(W)'
      BY <1>1, <1>4, <1>6, <2>1, <2>2, Carry DEF Explores
    <2>5. FieldsIn(W)'
      BY <1>1 DEF FieldsIn
    <2>6. FinishedIn(W)'
      BY <1>1, <1>6, <2>1, SameInput DEF Explores, FinishedIn
    <2>7. Explores(W)'
      BY <2>1, <2>3, <2>4, <2>5, <2>6 DEF Explores
    <2> QED
      BY <2>1, <2>7
  <1> QED
    BY <1>5, <1>6
(* Describing a type that is no new struct ends with what it mentions, or  *)
(* finds that its name stands for the same struct.                         *)
LEMMA TypeExplores ==
  ASSUME CInv, Element \/ Plain \/ Refer
  PROVE  /\ Sound'
         /\ \A U \in SUBSET Type : Explores(U) /\ Distinct(Components(Mentioned)) =>
               \E W \in SUBSET Type : Explores(W)'
  <1> USE DEF CInv
  <1>1. /\ at \in Type /\ at # NoType /\ at \in InProgress
        /\ UNCHANGED <<input, route, part, stack, schemas, paths>>
        /\ fields' = fields /\ registry' = registry
    BY DEF Element, Plain, Refer, IInv, TypeOK, InProgress, input
  <1>2. at' \in {NoType} \cup Mentions(at) /\ at' \in Type \cup {NoType}
    <2>1. at' \in {NoType} \cup Mentions(at)
      BY DEF Element, Plain, Refer, Mentions, MentionsIn
    <2> QED
      BY <1>1, <2>1, MentionedIsClosed
  <1>3. /\ InProgress' = ({at'} \ {NoType}) \cup {stack[i].type : i \in DOMAIN stack}
        /\ InProgress \subseteq InProgress' \cup {at}
    BY <1>1 DEF InProgress
  <1>4. Sound'
    <2>1. at' \in Mentioned \cup {NoType}
      BY <1>1, <1>2, MentionedIsClosed DEF Sound, Closed
    <2>2. InProgress' \subseteq Mentioned
      BY <1>3, <2>1 DEF Sound, InProgress
    <2> QED
      BY <1>1, <2>2, SameInput DEF Sound
  <1>5. ASSUME NEW U \in SUBSET Type, Explores(U), Distinct(Components(Mentioned))
        PROVE  \E W \in SUBSET Type : Explores(W)'
    <2> PICK W \in SUBSET Type : W = U \cup ({at'} \ {NoType})
      BY <1>2
    <2>1. U \subseteq W /\ InProgress' \subseteq W /\ W \subseteq U \cup InProgress'
      BY <1>3, <1>5 DEF Explores, InProgress
    <2> PICK t \in Type : t = at
      BY <1>1
    <2>2. t \in InProgress' \/ Described(t, W)'
      <3>0. Mentions(t)' = Mentions(at)
        BY <1>1, SameInput
      <3>1. CASE Element
        <4>1. Mentions(at) = {at'} /\ ~IsComponent(at) /\ at' # NoType
          BY <1>1, <3>1, TypeAssumption DEF Element, Mentions, MentionsIn, IsComponent
        <4> QED
          BY <1>1, <3>0, <4>1 DEF Described, IsComponent
      <3>2. CASE Plain
        <4>1. Mentions(at) = {} /\ ~IsComponent(at)
          BY <3>2 DEF Plain, Mentions, MentionsIn, IsComponent
        <4> QED
          BY <1>1, <3>0, <4>1 DEF Described, IsComponent
      <3>3. CASE Refer
        <4>1. /\ Kind[at] = "struct" /\ Name[at] # Anonymous /\ Name[at] \in DOMAIN schemas
              /\ at \in Components(Mentioned)
          BY <1>1, <3>3 DEF Refer, Seen, Components, Sound
        <4>2. CASE schemas[Name[at]].of = NoType
          <5>1. PICK i \in DOMAIN stack : Name[stack[i].type] = Name[at]
            BY <4>1, <4>2 DEF IInv, PlaceholdersPending
          <5>2. stack[i].type \in Components(Mentioned)
            BY <4>1, <5>1 DEF Sound, InProgress, Components
          <5>3. stack[i].type = at
            BY <1>5, <4>1, <5>1, <5>2 DEF Distinct
          <5> QED
            BY <1>3, <5>3
        <4>3. CASE schemas[Name[at]].of # NoType
          <5>1. schemas[Name[at]].of = at
            BY <1>5, <4>1, <4>3 DEF Sound, Distinct
          <5>2. Mentions(at) \subseteq U
            BY <1>5, <4>1, <4>3, <5>1 DEF Explores, FinishedIn
          <5> QED
            BY <1>1, <2>1, <3>0, <4>1, <5>2 DEF Described, IsComponent
        <4> QED
          BY <4>2, <4>3
      <3> QED
        BY <3>1, <3>2, <3>3
    <2>3. DescribedIn(W)'
      <3>1. \A u \in InProgress : u \in InProgress' \/ Described(u, W)'
        BY <1>3, <2>2
      <3> QED
        BY <1>1, <1>5, <2>1, <3>1, Carry DEF Explores
    <2>4. BodiesIn(W)'
      BY <1>1, <1>5, <2>1, SameInput DEF Explores, BodiesIn, BodyIn
    <2>5. FieldsIn(W)' /\ FinishedIn(W)'
      BY <1>1, <1>5, <2>1, SameInput DEF Explores, FieldsIn, FinishedIn
    <2>6. Explores(W)'
      BY <2>1, <2>3, <2>4, <2>5 DEF Explores
    <2> QED
      BY <2>6
  <1> QED
    BY <1>4, <1>5

(* A struct that is entered stays in progress, with none of its fields     *)
(* visited.                                                                *)
LEMMA EnterExplores ==
  ASSUME CInv, Enter
  PROVE  Sound' /\ \A U \in SUBSET Type : Explores(U) => Explores(U)'
  <1> USE DEF CInv
  <1> DEFINE n == Name[at]
  <1>1. /\ at \in Type /\ at # NoType /\ at \in InProgress /\ Kind[at] = "struct"
        /\ stack' = Append(stack, [type |-> at, next |-> 1]) /\ at' = NoType
        /\ UNCHANGED <<input, route, part, refs, paths>>
        /\ fields' = fields /\ registry' = registry
    BY DEF Enter, IInv, TypeOK, InProgress, input
  <1>2. /\ DOMAIN schemas \subseteq (DOMAIN schemas)'
        /\ \A m \in (DOMAIN schemas)' : schemas'[m].of = NoType \/ (m \in DOMAIN schemas /\ schemas'[m] = schemas[m])
    <2>1. schemas' = schemas \/ schemas' = Put(n, Placeholder)
      BY DEF Enter, Reserve
    <2> QED
      BY <2>1 DEF Put, Placeholder
  <1>3. /\ DOMAIN stack = 1..Len(stack) /\ Len(stack) \in Nat
        /\ DOMAIN stack' = 1..(Len(stack) + 1)
        /\ \A i \in 1..Len(stack) : stack'[i] = stack[i]
        /\ stack'[Len(stack) + 1] = [type |-> at, next |-> 1]
    <2>1. stack \in Seq(Visit) /\ [type |-> at, next |-> 1] \in Visit
      BY <1>1 DEF IInv, TypeOK, Visit
    <2> QED
      BY <1>1, <2>1
  <1>4. InProgress' = InProgress
    <2>1. \A i \in DOMAIN stack' : i \in DOMAIN stack \/ i = Len(stack) + 1
      BY <1>3
    <2>2. stack'[Len(stack) + 1].type = at /\ Len(stack) + 1 \in DOMAIN stack'
      BY <1>3
    <2>3. \A i \in DOMAIN stack : i \in DOMAIN stack' /\ stack'[i].type = stack[i].type
      BY <1>3
    <2>4. {stack'[i].type : i \in DOMAIN stack'} = {at} \cup {stack[i].type : i \in DOMAIN stack}
      BY <1>3, <2>1, <2>2, <2>3
    <2> QED
      BY <1>1, <2>4 DEF InProgress
  <1>5. Sound'
    <2>1. \A i \in DOMAIN stack' : Kind[stack'[i].type] = "struct"
      <3> SUFFICES ASSUME NEW i \in DOMAIN stack' PROVE Kind[stack'[i].type] = "struct"
        OBVIOUS
      <3>1. CASE i \in 1..Len(stack)
        BY <1>3, <3>1 DEF Sound
      <3>2. CASE i = Len(stack) + 1
        BY <1>1, <1>3, <3>2
      <3> QED
        BY <1>3, <3>1, <3>2
    <2>2. InProgress' \subseteq Mentioned'
      BY <1>1, <1>4, SameInput DEF Sound
    <2>3. ASSUME NEW m \in (DOMAIN schemas)', schemas'[m].of # NoType
          PROVE  /\ schemas'[m].of \in Components(Mentioned) /\ Name[schemas'[m].of] = m
                 /\ schemas'[m] = [of |-> schemas'[m].of, properties |-> Exported(schemas'[m].of)]
      BY <1>2, <2>3 DEF Sound
    <2>4. schemas' = [m \in (DOMAIN schemas)' |-> schemas'[m]]
      <3>1. schemas' = schemas \/ schemas' = Put(n, Placeholder)
        BY DEF Enter, Reserve
      <3>2. CASE schemas' = schemas
        BY <3>2 DEF Sound
      <3>3. CASE schemas' = Put(n, Placeholder)
        BY <3>3 DEF Put
      <3> QED
        BY <3>1, <3>2, <3>3
    <2> QED
      BY <1>1, <2>1, <2>2, <2>3, <2>4, SameInput DEF Sound
  <1>6. ASSUME NEW U \in SUBSET Type, Explores(U) PROVE Explores(U)'
    <2>1. DescribedIn(U)'
      BY <1>1, <1>2, <1>4, <1>6, Carry DEF Explores
    <2>2. BodiesIn(U)'
      BY <1>1, <1>6, SameInput DEF Explores, BodiesIn, BodyIn
    <2>3. FieldsIn(U)'
      <3> SUFFICES ASSUME NEW i \in DOMAIN stack', NEW j \in DOMAIN fields[stack'[i].type],
                          j < stack'[i].next, ~fields[stack'[i].type][j].hidden
                   PROVE  fields[stack'[i].type][j].type \in U
        BY <1>1 DEF FieldsIn
      <3>1. CASE i \in 1..Len(stack)
        BY <1>3, <1>6, <3>1 DEF Explores, FieldsIn
      <3>2. CASE i = Len(stack) + 1
        <4>1. stack'[i].next = 1 /\ stack'[i].type = at
          BY <1>3, <3>2
        <4>2. j \in 1..Len(fields[at]) /\ Len(fields[at]) \in Nat
          BY <1>1, <4>1, RegistryAssumption DEF IInv, Given, Lists
        <4> QED
          BY <4>1, <4>2
      <3> QED
        BY <1>3, <3>1, <3>2
    <2>4. FinishedIn(U)'
      BY <1>1, <1>2, <1>6, SameInput DEF Explores, FinishedIn
    <2> QED
      BY <1>4, <1>6, <2>1, <2>2, <2>3, <2>4 DEF Explores
  <1> QED
    BY <1>5, <1>6
(* Going on to a field describes its type.                                 *)
LEMMA FieldExplores ==
  ASSUME CInv, Field
  PROVE  /\ Sound'
         /\ \A U \in SUBSET Type : Explores(U) => \E W \in SUBSET Type : Explores(W)'
  <1> USE DEF CInv
  <1>1. /\ at = NoType /\ stack \in Seq(Visit) /\ stack # <<>>
        /\ Top.next \in DOMAIN fields[Top.type]
        /\ stack' = Append(Below, [Top EXCEPT !.next = @ + 1])
        /\ UNCHANGED <<input, route, part, schemas, refs, paths>>
        /\ fields' = fields /\ registry' = registry
    BY DEF Field, Visited, IInv, TypeOK, Visit, input
  <1>2. Len(stack) \in Nat \ {0} /\ Top \in Visit /\ Top = stack[Len(stack)]
    BY <1>1, Stacked DEF Top
  <1> DEFINE n == Len(stack)
             t == Top.type
             k == Top.next
  <1>3. /\ [Top EXCEPT !.next = @ + 1] \in Visit
        /\ [Top EXCEPT !.next = @ + 1].type = t /\ [Top EXCEPT !.next = @ + 1].next = k + 1
    BY <1>2 DEF Visit
  <1>4. /\ DOMAIN stack = 1..n /\ DOMAIN stack' = 1..n
        /\ stack'[n].type = t /\ stack'[n].next = k + 1
        /\ \A i \in 1..(n - 1) : stack'[i] = stack[i]
    BY <1>1, <1>3, Replaced DEF Below
  <1>5. t \in Type /\ k \in Nat /\ k \in DOMAIN fields[t] /\ DOMAIN fields[t] \subseteq Nat
    BY <1>1, <1>2, RegistryAssumption DEF Visit, IInv, Given, Lists
  <1>6. at' = IF fields[t][k].hidden THEN NoType ELSE fields[t][k].type
    BY DEF Field
  <1>7. at' \in Type \cup {NoType} /\ at' \in Mentions(t) \cup {NoType}
    <2>1. t \in {stack[i].type : i \in DOMAIN stack}
      BY <1>2, <1>4
    <2>2. Kind[t] = "struct"
      BY <1>2, <1>4 DEF Sound
    <2>3. at' \in Mentions(t) \cup {NoType}
      BY <1>5, <1>6, <2>2 DEF Mentions, MentionsIn
    <2> QED
      BY <1>5, <2>3, MentionedIsClosed
  <1> HIDE DEF n, t, k
  <1>len. n \in Nat \ {0}
    BY <1>2 DEF n
  <1>types. \A i \in 1..n : stack'[i].type = stack[i].type
    <2>1. n \in Nat \ {0} /\ stack[n].type = t
      BY <1>2 DEF n, t
    <2>2. \A i \in 1..n : i = n \/ i \in 1..(n - 1)
      BY <2>1
    <2> QED
      BY <1>4, <2>1, <2>2
  <1>8. InProgress' = InProgress \cup ({at'} \ {NoType})
    <2>1. \A x : (\E i \in 1..n : stack'[i].type = x) <=> (\E i \in 1..n : stack[i].type = x)
      BY <1>types
    <2>2. {stack'[i].type : i \in DOMAIN stack'} = {stack[i].type : i \in DOMAIN stack}
      BY <1>4, <2>1
    <2> QED
      BY <1>1, <2>2 DEF InProgress, Field
  <1>9. Sound'
    <2>1. t \in Mentioned
      BY <1>2, <1>4 DEF Sound, InProgress, n, t
    <2>2. InProgress' \subseteq Mentioned
      BY <1>7, <1>8, <2>1, MentionedIsClosed DEF Sound, Closed
    <2>3. \A i \in DOMAIN stack' : Kind[stack'[i].type] = "struct"
      BY <1>4, <1>types DEF Sound
    <2> QED
      BY <1>1, <2>2, <2>3, SameInput DEF Sound
  <1>10. ASSUME NEW U \in SUBSET Type, Explores(U) PROVE \E W \in SUBSET Type : Explores(W)'
    <2> PICK W \in SUBSET Type : W = U \cup ({at'} \ {NoType})
      BY <1>7
    <2>1. U \subseteq W /\ InProgress' \subseteq W /\ W \subseteq U \cup InProgress'
      BY <1>8, <1>10 DEF Explores
    <2>2. DescribedIn(W)'
      BY <1>1, <1>8, <1>10, <2>1, Carry DEF Explores
    <2>3. BodiesIn(W)'
      BY <1>1, <1>10, <2>1, SameInput DEF Explores, BodiesIn, BodyIn
    <2>4. FinishedIn(W)'
      BY <1>1, <1>10, <2>1, SameInput DEF Explores, FinishedIn
    <2>5. FieldsIn(W)'
      <3> SUFFICES ASSUME NEW i \in 1..n, NEW j \in DOMAIN fields[stack'[i].type],
                          j < stack'[i].next, ~fields[stack'[i].type][j].hidden
                   PROVE  fields[stack'[i].type][j].type \in W
        BY <1>1, <1>4 DEF FieldsIn
      <3>1. stack'[i].type = stack[i].type
        BY <1>types
      <3>2. j < stack[i].next => fields[stack[i].type][j].type \in U
        BY <1>4, <1>10, <3>1 DEF Explores, FieldsIn
      <3>3. CASE i # n
        <4>1. i \in 1..(n - 1)
          BY <1>len, <3>3
        <4>2. stack'[i] = stack[i]
          BY <1>4, <4>1
        <4> QED
          BY <2>1, <3>2, <4>2
      <3>4. CASE i = n
        <4>1. stack[i].type = t /\ stack[i].next = k /\ stack'[i].next = k + 1
          BY <1>2, <1>4, <3>4 DEF n, t, k
        <4>2. j \in Nat /\ (j < k \/ j = k)
          BY <1>5, <3>1, <4>1
        <4>3. CASE j < k
          BY <2>1, <3>1, <3>2, <4>1, <4>3
        <4>4. CASE j = k
          <5>1. at' = fields[t][k].type
            BY <1>6, <3>1, <4>1, <4>4
          <5>2. fields[t][k].type \in Type
            BY <1>5, RegistryAssumption DEF IInv, Given
          <5> QED
            BY <3>1, <4>1, <4>4, <5>1, <5>2, TypeAssumption
        <4> QED
          BY <4>2, <4>3, <4>4
      <3> QED
        BY <3>3, <3>4
    <2>6. Explores(W)'
      BY <2>1, <2>2, <2>3, <2>4, <2>5 DEF Explores
    <2> QED
      BY <2>6
  <1> QED
    BY <1>9, <1>10

(* A struct that is left has all its fields visited, and its name is its   *)
(* own for good.                                                           *)
LEMMA LeaveExplores ==
  ASSUME CInv, Leave
  PROVE  Sound' /\ \A U \in SUBSET Type : Explores(U) => Explores(U)'
  <1> USE DEF CInv
  <1>1. /\ at = NoType /\ stack \in Seq(Visit) /\ stack # <<>>
        /\ Top.next \notin DOMAIN fields[Top.type]
        /\ schemas' = Complete(Name[Top.type], Top.type)
        /\ stack' = Below
        /\ UNCHANGED <<input, route, part, at, paths>>
        /\ fields' = fields /\ registry' = registry
    BY DEF Leave, Visited, IInv, TypeOK, Visit, input
  <1>2. PICK n \in Nat \ {0} : n = Len(stack)
    BY <1>1
  <1>3. Top \in Visit /\ Top = stack[n]
    BY <1>1, <1>2, Stacked DEF Top
  <1>4. PICK t \in Type : t = Top.type
    BY <1>3 DEF Visit
  <1>5. /\ DOMAIN stack = 1..n /\ DOMAIN stack' = 1..(n - 1)
        /\ \A i \in 1..(n - 1) : stack'[i] = stack[i]
    BY <1>1, <1>2, Stacked DEF Below
  <1>6. \A j \in DOMAIN fields[t] : j < stack[n].next
    <2>1. DOMAIN fields[t] = 1..Len(fields[t]) /\ Len(fields[t]) \in Nat
      BY RegistryAssumption DEF IInv, Given, Lists
    <2>2. stack[n].next \in Nat \ {0} /\ stack[n].next \notin DOMAIN fields[t]
      BY <1>1, <1>3, <1>4 DEF Visit
    <2> QED
      BY <2>1, <2>2
  <1>7. t \in Mentioned /\ Kind[t] = "struct" /\ t # NoType
    BY <1>3, <1>4, <1>5, TypeAssumption DEF Sound, InProgress
  <1>8. /\ (DOMAIN schemas)' = DOMAIN schemas \cup ({Name[t]} \ {Anonymous})
        /\ Name[t] # Anonymous => schemas'[Name[t]] = [of |-> t, properties |-> Exported(t)]
        /\ \A m \in DOMAIN schemas : m # Name[t] \/ Name[t] = Anonymous => schemas'[m] = schemas[m]
    <2>1. CASE Name[t] = Anonymous
      BY <1>1, <1>4, <2>1 DEF Complete
    <2>2. CASE Name[t] # Anonymous
      <3>1. schemas' = Put(Name[t], [of |-> t, properties |-> Exported(t)])
        BY <1>1, <1>4, <2>2 DEF Complete, Properties, Exported, Visited
      <3> QED
        BY <2>2, <3>1 DEF Put
    <2> QED
      BY <2>1, <2>2
  <1>9. /\ InProgress' = {stack[i].type : i \in 1..(n - 1)}
        /\ InProgress = InProgress' \cup {t}
    <2>1. InProgress' = {stack[i].type : i \in 1..(n - 1)}
      BY <1>1, <1>5 DEF InProgress
    <2>2. \A i \in 1..n : i = n \/ i \in 1..(n - 1)
      OBVIOUS
    <2> QED
      BY <1>1, <1>3, <1>4, <1>5, <2>1, <2>2 DEF InProgress
  <1>10. Sound'
    <2>1. InProgress' \subseteq Mentioned
      BY <1>9 DEF Sound
    <2>2. \A i \in DOMAIN stack' : Kind[stack'[i].type] = "struct"
      BY <1>5 DEF Sound
    <2>3. ASSUME NEW m \in (DOMAIN schemas)', schemas'[m].of # NoType
          PROVE  /\ schemas'[m].of \in Components(Mentioned) /\ Name[schemas'[m].of] = m
                 /\ schemas'[m] = [of |-> schemas'[m].of, properties |-> Exported(schemas'[m].of)]
      <3>1. CASE m = Name[t] /\ m # Anonymous
        <4>1. schemas'[m] = [of |-> t, properties |-> Exported(t)]
          BY <1>8, <3>1
        <4>2. schemas'[m].of = t
          BY <4>1
        <4> QED
          BY <1>7, <3>1, <4>1, <4>2 DEF Components
      <3>2. CASE m # Name[t] \/ Name[t] = Anonymous
        <4>1. m \in DOMAIN schemas /\ schemas'[m] = schemas[m]
          BY <1>8, <3>2
        <4> QED
          BY <2>3, <4>1 DEF Sound
      <3> QED
        BY <3>1, <3>2
    <2>4. schemas' = [m \in (DOMAIN schemas)' |-> schemas'[m]]
      <3>1. CASE schemas' = schemas
        BY <3>1 DEF Sound
      <3>2. CASE schemas' = Put(Name[t], [of |-> t, properties |-> Properties(t)])
        BY <3>2 DEF Put
      <3> QED
        BY <1>1, <1>4, <3>1, <3>2 DEF Complete
    <2> QED
      BY <1>1, <2>1, <2>2, <2>3, <2>4, SameInput DEF Sound
  <1>11. ASSUME NEW U \in SUBSET Type, Explores(U) PROVE Explores(U)'
    <2>1. InProgress' \subseteq U
      BY <1>9, <1>11 DEF Explores
    <2>2. Mentions(t) \subseteq U
      <3>1. \A j \in DOMAIN fields[t] : ~fields[t][j].hidden => fields[t][j].type \in U
        BY <1>3, <1>4, <1>5, <1>6, <1>11 DEF Explores, FieldsIn
      <3> QED
        BY <1>7, <3>1 DEF Mentions, MentionsIn
    <2>3. Described(t, U)'
      BY <1>1, <1>8, <2>2, SameInput DEF Described, IsComponent
    <2>4. DescribedIn(U)'
      <3>1. \A u \in InProgress : u \in InProgress' \/ Described(u, U)'
        BY <1>9, <2>3
      <3> QED
        BY <1>1, <1>8, <1>11, <3>1, Carry DEF Explores
    <2>5. BodiesIn(U)'
      BY <1>1, <1>11, SameInput DEF Explores, BodiesIn, BodyIn
    <2>6. FieldsIn(U)'
      BY <1>1, <1>5, <1>11 DEF Explores, FieldsIn
    <2>7. FinishedIn(U)'
      <3> SUFFICES ASSUME NEW m \in (DOMAIN schemas)', schemas'[m].of # NoType
                   PROVE  Mentions(schemas'[m].of) \subseteq U
        BY <1>1, SameInput DEF FinishedIn
      <3>1. CASE m = Name[t] /\ m # Anonymous
        BY <1>8, <2>2, <3>1
      <3>2. CASE m # Name[t] \/ Name[t] = Anonymous
        BY <1>8, <1>11, <3>2 DEF Explores, FinishedIn
      <3> QED
        BY <3>1, <3>2
    <2> QED
      BY <2>1, <2>4, <2>5, <2>6, <2>7 DEF Explores
  <1> QED
    BY <1>10, <1>11

(* The strengthened invariant holds whatever is documented.                *)
LEMMA Exploration == Spec => []CInv
  <1>1. CInv /\ IInv' /\ [Next]_vars => CInv'
    <2> SUFFICES ASSUME CInv, IInv', [Next]_vars PROVE CInv'
      OBVIOUS
    <2>input. UNCHANGED input
      BY DEF vars, Next, Response, Request, Store, Element, Plain, Refer, Enter, Field, Leave
    <2>1. /\ Sound'
          /\ \A U \in SUBSET Type : Explores(U) /\ Distinct(Components(Mentioned)) =>
                \E W \in SUBSET Type : Explores(W)'
      <3>1. CASE UNCHANGED vars
        <4>1. Sound'
          BY <2>input, <3>1, SameInput DEF CInv, Sound, InProgress, vars
        <4>2. \A U : Explores(U) => Explores(U)'
          BY <2>input, <3>1, SameInput
          DEF Explores, BodiesIn, BodyIn, FieldsIn, DescribedIn, Described, IsComponent, FinishedIn,
              InProgress, vars, input
        <4> QED
          BY <4>1, <4>2
      <3>2. CASE Response \/ Request \/ Store
        BY <3>2, RouteExplores
      <3>3. CASE Element \/ Plain \/ Refer
        BY <3>3, TypeExplores
      <3>4. CASE Enter
        BY <3>4, EnterExplores
      <3>5. CASE Field
        BY <3>5, FieldExplores
      <3>6. CASE Leave
        BY <3>6, LeaveExplores
      <3> QED
        BY <3>1, <3>2, <3>3, <3>4, <3>5, <3>6 DEF Next
    <2>2. Distinct(Components(Mentioned))' = Distinct(Components(Mentioned))
      BY <2>input, SameInput
    <2> QED
      BY <2>1, <2>2 DEF CInv
  <1> QED
    BY <1>1, InitExplores, Invariance, PTL DEF Spec

(* Where a document is finished, what it has been through is closed.       *)
LEMMA DoneExplored ==
  ASSUME IInv, Done, NEW U \in SUBSET Type, Explores(U)
  PROVE  /\ Mentioned \subseteq U
         /\ \A t \in Components(Mentioned) : Name[t] \in DOMAIN schemas
  <1>1. InProgress = {}
    BY DEF IInv, FinishedIdle, Idle, InProgress
  <1>2. Bodies \ {NoType} \subseteq U
    <2>1. DOMAIN registry = 1..Len(registry) /\ Len(registry) \in Nat
      BY RegistryAssumption DEF IInv, Given, Lists
    <2>2. \A i \in DOMAIN registry : i < route
      BY <2>1 DEF Done, Converting, IInv, TypeOK
    <2>3. \A i \in DOMAIN registry : BodyIn(U, ResponseOf(i)) /\ BodyIn(U, registry[i].request)
      BY <2>2 DEF Explores, BodiesIn
    <2> QED
      BY <2>3 DEF Bodies, BodyIn, ResponseOf
  <1>3. \A u \in U : Described(u, U)
    BY <1>1 DEF Explores, DescribedIn
  <1>4. Mentioned \subseteq U
    BY <1>2, <1>3, MentionedIsClosed DEF Closed, Described
  <1> QED
    BY <1>3, <1>4 DEF Described, IsComponent, Components

(* The components of a finished document are structs of their names that   *)
(* the bodies mention; where no two of those share a name, they are all of *)
(* them, each with its own properties.                                     *)
THEOREM ComponentsAreTheirOwn == Spec => []ComponentsAreOwn
  <1>1. CInv => ComponentsAreOwn
    <2> SUFFICES ASSUME CInv, Done PROVE ComponentsAreOwn
      BY DEF ComponentsAreOwn
    <2> DEFINE own == Components(Mentioned)
    <2>1. ASSUME NEW n \in DOMAIN schemas
          PROVE  /\ schemas[n].of \in own /\ Name[schemas[n].of] = n
                 /\ schemas[n] = [of |-> schemas[n].of, properties |-> Exported(schemas[n].of)]
      <3>1. schemas[n].of # NoType
        BY DEF CInv, IInv, PlaceholdersPending, FinishedIdle, Idle
      <3> QED
        BY <3>1 DEF CInv, Sound
    <2>2. ASSUME Distinct(own)
          PROVE  schemas = [n \in {Name[t] : t \in own} |->
                              LET t == CHOOSE u \in own : Name[u] = n
                              IN [of |-> t, properties |-> Exported(t)]]
      <3>1. \A t \in own : Name[t] \in DOMAIN schemas
        BY <2>2, DoneExplored DEF CInv
      <3> HIDE DEF own
      <3>2. DOMAIN schemas = {Name[t] : t \in own}
        BY <2>1, <3>1
      <3>3. ASSUME NEW n \in DOMAIN schemas
            PROVE  schemas[n] = LET t == CHOOSE u \in own : Name[u] = n
                                IN [of |-> t, properties |-> Exported(t)]
        <4>1. PICK t \in own : t = CHOOSE u \in own : Name[u] = n
          BY <2>1
        <4>2. Name[t] = n
          BY <2>1, <4>1
        <4>3. schemas[n].of = t
          BY <2>1, <2>2, <4>2 DEF Distinct
        <4>4. schemas[n] = [of |-> t, properties |-> Exported(t)]
          BY <2>1, <4>3
        <4> QED
          BY <4>1, <4>4
      <3>4. schemas = [n \in DOMAIN schemas |-> schemas[n]]
        BY DEF CInv, Sound
      <3>5. schemas = [n \in DOMAIN schemas |->
                         LET t == CHOOSE u \in own : Name[u] = n
                         IN [of |-> t, properties |-> Exported(t)]]
        BY <3>3, <3>4
      <3> QED
        BY <3>2, <3>5
    <2> QED
      BY <2>1, <2>2 DEF ComponentsAreOwn
  <1> QED
    BY <1>1, Exploration, PTL

-----------------------------------------------------------------------------
(* The recursion. *)

(* The loose types that the description of t goes through, as long as it   *)
(* meets no named struct: the least set that has what t mentions and what  *)
(* each of its types mentions.                                             *)
Gathers(t, S) == /\ Mentions(t) \cap Loose \subseteq S
                 /\ \A v \in S : Mentions(v) \cap Loose \subseteq S

Under(t) == {u \in Loose : \A S \in SUBSET Loose : Gathers(t, S) => u \in S}

(* No loose type is under itself.                                          *)
LEMMA UnderFacts ==
  ASSUME IInv
  PROVE  /\ \A t \in Type : Gathers(t, Under(t))
         /\ \A t \in Type : \A u \in Under(t) : Under(u) \subseteq Under(t)
         /\ \A t \in Loose : t \notin Under(t)
  <1>1. \A t \in Type : Mentions(t) \subseteq Type
    BY MentionedIsClosed
  <1>2. \A t : Under(t) \in SUBSET Loose /\ Under(t) \subseteq Type
    BY DEF Under, Loose
  <1>3. ASSUME NEW t \in Type PROVE Gathers(t, Under(t))
    BY DEF Under, Gathers
  <1>4. ASSUME NEW t \in Type, NEW S \in SUBSET Loose, Gathers(t, S) PROVE Under(t) \subseteq S
    BY <1>4 DEF Under
  <1>5. ASSUME NEW t \in Type, NEW u \in Under(t) PROVE Under(u) \subseteq Under(t)
    <2>1. Gathers(u, Under(t))
      BY <1>3 DEF Gathers
    <2> QED
      BY <1>2, <1>4, <2>1
  <1>6. ASSUME NEW t \in Loose PROVE t \notin Under(t)
    <2> DEFINE C == {u \in Loose : u \in Under(u)}
    <2> SUFFICES ASSUME C # {} PROVE FALSE
      OBVIOUS
    <2>1. PICK u \in C : Mentions(u) \cap C = {}
      <3>1. fields \in Fields
        BY DEF IInv, Given
      <3>2. C \in SUBSET Loose
        OBVIOUS
      <3> HIDE DEF C
      <3> QED
        BY <3>1, <3>2, RecursionAssumption DEF Mentions
    <2>2. u \in Type /\ u \in Loose /\ u \in Under(u)
      BY DEF Loose
    <2> DEFINE M == Mentions(u) \cap Loose
               S == M \cup UNION {Under(m) : m \in M}
    <2>3. M \subseteq Type /\ M \subseteq Under(u)
      BY <1>3, <2>2 DEF Gathers, Loose
    <2>4. S \in SUBSET Loose /\ Gathers(u, S)
      <3>1. S \in SUBSET Loose
        BY <1>2
      <3>2. ASSUME NEW v \in S PROVE Mentions(v) \cap Loose \subseteq S
        <4>1. CASE v \in M
          <5>1. Mentions(v) \cap Loose \subseteq Under(v)
            BY <1>3, <2>3, <4>1 DEF Gathers
          <5> QED
            BY <4>1, <5>1
        <4>2. CASE v \notin M
          <5>1. PICK m \in M : v \in Under(m)
            BY <4>2
          <5>2. Mentions(v) \cap Loose \subseteq Under(m)
            BY <1>3, <2>3, <5>1 DEF Gathers
          <5> QED
            BY <5>1, <5>2
        <4> QED
          BY <4>1, <4>2
      <3> QED
        BY <3>1, <3>2 DEF Gathers
    <2>5. u \in S
      BY <1>4, <2>2, <2>4
    <2>6. CASE u \in M
      BY <2>1, <2>6
    <2>7. CASE u \notin M
      <3>1. PICK m \in M : u \in Under(m)
        BY <2>5, <2>7
      <3>2. m \in Under(m)
        BY <1>5, <2>3, <3>1
      <3>3. m \in Loose /\ m \in Mentions(u)
        OBVIOUS
      <3> QED
        BY <2>1, <3>2, <3>3
    <2> QED
      BY <2>6, <2>7
  <1> QED
    BY <1>3, <1>5, <1>6

(* Between two named structs, each struct on the stack is under the ones   *)
(* before it, and no named struct is there twice.                          *)
Descending ==
  /\ \A i \in DOMAIN stack : Kind[stack[i].type] = "struct"
  /\ \A i, j \in DOMAIN stack :
       i < j /\ (\A k \in (i + 1)..j : stack[k].type \in Loose) => stack[j].type \in Under(stack[i].type)
  /\ \A i, j \in DOMAIN stack :
       IsComponent(stack[j].type) /\ stack[i].type = stack[j].type => i = j
  /\ \A i \in DOMAIN stack : IsComponent(stack[i].type) => Name[stack[i].type] \in DOMAIN schemas
  /\ at \in Loose /\ stack # <<>> => at \in Under(Top.type)

(* A type is loose or a named struct.                                      *)
LEMMA LooseOrNamed == \A t \in Type : t \in Loose <=> ~IsComponent(t)
  BY DEF Loose, Components, IsComponent

(* Where the stack stays or loses its last struct.                         *)
LEMMA StaysDescending ==
  ASSUME IInv, Descending, UNCHANGED input, NEW n \in Nat, n <= Len(stack),
         stack' \in Seq(Visit), Len(stack') = n,
         \A i \in 1..n : stack'[i].type = stack[i].type,
         DOMAIN schemas \subseteq DOMAIN schemas',
         at' \in Loose /\ stack' # <<>> => at' \in Under(stack'[n].type)
  PROVE  Descending'
  <1>1. DOMAIN stack' = 1..n /\ DOMAIN stack = 1..Len(stack) /\ Len(stack) \in Nat
    BY DEF IInv, TypeOK, Visit
  <1>2. \A i \in 1..n : i \in DOMAIN stack
    BY <1>1
  <1>3. \A t : Under(t)' = Under(t)
    BY SameInput DEF Under, Gathers
  <1>4. stack' # <<>> => Top' = stack'[n]
    BY DEF Top
  <1>5. \A i \in 1..n, j \in 1..n : \A k \in (i + 1)..j : k \in 1..n
    BY <1>1
  <1>6. (\A i, j \in DOMAIN stack :
           i < j /\ (\A k \in (i + 1)..j : stack[k].type \in Loose) => stack[j].type \in Under(stack[i].type))'
    <2> SUFFICES ASSUME NEW i \in 1..n, NEW j \in 1..n, i < j, \A k \in (i + 1)..j : stack'[k].type \in Loose
                 PROVE  stack'[j].type \in Under(stack'[i].type)
      BY <1>1, <1>3
    <2>1. \A k \in (i + 1)..j : stack[k].type \in Loose
      BY <1>5
    <2> QED
      BY <1>2, <2>1 DEF Descending
  <1> QED
    BY <1>1, <1>2, <1>3, <1>4, <1>6 DEF Descending, IsComponent

(* Another struct on the stack is new, if it is named, and else under the  *)
(* last.                                                                   *)
LEMMA EnterDescends == ASSUME IInv, Descending, Enter PROVE Descending'
  <1> DEFINE n == Len(stack) + 1
  <1>1. /\ at \in Type /\ Kind[at] = "struct" /\ ~Seen(Name[at]) /\ at' = NoType /\ UNCHANGED input
        /\ stack' = Append(stack, [type |-> at, next |-> 1]) /\ stack \in Seq(Visit)
    BY DEF Enter, IInv, TypeOK, Visit
  <1>2. /\ Len(stack) \in Nat /\ DOMAIN stack = 1..Len(stack) /\ DOMAIN stack' = 1..n
        /\ stack'[n].type = at /\ \A i \in 1..Len(stack) : stack'[i] = stack[i]
    BY <1>1 DEF Visit
  <1>3. \A i \in 1..n : i = n \/ i \in 1..Len(stack)
    BY <1>2
  <1>4. \A t : Under(t)' = Under(t)
    BY <1>1, SameInput DEF Under, Gathers
  <1>5. NoType \notin Loose
    BY TypeAssumption DEF Loose
  <1>6. DOMAIN schemas' = DOMAIN schemas \cup ({Name[at]} \ {Anonymous})
    BY <1>1 DEF Enter, Reserve, Put
  <1>7. ASSUME NEW i \in DOMAIN stack', NEW j \in DOMAIN stack', i < j,
               \A k \in (i + 1)..j : stack'[k].type \in Loose
        PROVE  stack'[j].type \in Under(stack'[i].type)
    <2>1. i \in 1..Len(stack) /\ j \in 1..n /\ stack'[i] = stack[i]
      BY <1>2, <1>7
    <2>2. CASE j \in 1..Len(stack)
      <3>1. \A k \in (i + 1)..j : k \in 1..Len(stack)
        BY <1>2, <2>1, <2>2
      <3>2. \A k \in (i + 1)..j : stack[k].type \in Loose
        BY <1>2, <1>7, <3>1
      <3> QED
        BY <1>2, <1>7, <2>1, <2>2, <3>2 DEF Descending
    <2>3. CASE j = n
      <3>1. at \in Loose /\ n \in (i + 1)..n
        BY <1>2, <1>7, <2>1, <2>3
      <3>2. stack # <<>> /\ Top = stack[Len(stack)] /\ at \in Under(Top.type)
        BY <1>2, <2>1, <3>1 DEF Descending, Top
      <3>3. CASE i = Len(stack)
        BY <1>2, <2>1, <2>3, <3>2, <3>3
      <3>4. CASE i # Len(stack)
        <4>1. /\ i < Len(stack) /\ Len(stack) \in 1..Len(stack)
              /\ \A k \in (i + 1)..Len(stack) : k \in (i + 1)..n /\ k \in 1..Len(stack)
          BY <1>2, <2>1, <3>4
        <4>2. \A k \in (i + 1)..Len(stack) : stack[k].type \in Loose
          BY <1>2, <1>7, <2>3, <4>1
        <4>3. Top.type \in Under(stack[i].type)
          BY <1>2, <2>1, <3>2, <4>1, <4>2 DEF Descending
        <4>4. stack[i].type \in Type
          <5>1. stack[i] \in Visit
            BY <1>1, <2>1
          <5> QED
            BY <5>1 DEF Visit
        <4>5. Under(Top.type) \subseteq Under(stack[i].type)
          BY <4>3, <4>4, UnderFacts
        <4> QED
          BY <1>2, <2>1, <2>3, <3>2, <4>5
      <3> QED
        BY <3>3, <3>4
    <2> QED
      BY <1>2, <2>1, <2>2, <2>3
  <1>8. ASSUME NEW i \in DOMAIN stack', NEW j \in DOMAIN stack',
               IsComponent(stack'[j].type), stack'[i].type = stack'[j].type
        PROVE  i = j
    <2>1. \A k \in 1..Len(stack) : IsComponent(stack[k].type) => stack[k].type # at
      <3>1. IsComponent(at) => Name[at] \notin DOMAIN schemas
        BY <1>1 DEF Seen, IsComponent
      <3> QED
        BY <1>2, <3>1 DEF Descending
    <2>2. CASE i \in 1..Len(stack) /\ j \in 1..Len(stack)
      BY <1>2, <1>8, <2>2 DEF Descending
    <2>3. CASE i = n /\ j \in 1..Len(stack)
      BY <1>2, <1>8, <2>1, <2>3
    <2>4. CASE j = n /\ i \in 1..Len(stack)
      BY <1>2, <1>8, <2>1, <2>4
    <2> QED
      BY <1>2, <1>3, <2>2, <2>3, <2>4
  <1>9. \A i \in DOMAIN stack' : Kind[stack'[i].type] = "struct"
    BY <1>1, <1>2, <1>3 DEF Descending
  <1>10. \A i \in DOMAIN stack' : IsComponent(stack'[i].type) => Name[stack'[i].type] \in DOMAIN schemas'
    <2>1. IsComponent(at) => Name[at] \in DOMAIN schemas'
      BY <1>6 DEF IsComponent
    <2> QED
      BY <1>2, <1>3, <1>6, <2>1 DEF Descending
  <1> HIDE DEF n
  <1> QED
    BY <1>1, <1>4, <1>5, <1>7, <1>8, <1>9, <1>10 DEF Descending, IsComponent

(* The recursion descends.                                                 *)
LEMMA Descent == Spec => [](IInv /\ Descending)
  <1>1. Init => Descending
    BY DEF Init, Begin, Descending
  <1>2. IInv /\ IInv' /\ Descending /\ [Next]_vars => Descending'
    <2> SUFFICES ASSUME IInv, IInv', Descending, [Next]_vars PROVE Descending'
      OBVIOUS
    <2>1. /\ stack \in Seq(Visit) /\ stack' \in Seq(Visit) /\ Len(stack) \in Nat
          /\ DOMAIN stack = 1..Len(stack) /\ UNCHANGED input
      <3>1. UNCHANGED input
        BY DEF vars, Next, Response, Request, Store, Element, Plain, Refer, Enter, Field, Leave
      <3> QED
        BY <3>1 DEF IInv, TypeOK, Visit
    <2>2. NoType \notin Loose
      BY TypeAssumption DEF Loose
    <2>3. stack # <<>> => Top = stack[Len(stack)] /\ Len(stack) \in 1..Len(stack) /\ Top.type \in Type
      <3>1. stack # <<>> => Top = stack[Len(stack)] /\ Len(stack) \in 1..Len(stack) /\ Top \in Visit
        BY <2>1 DEF Top
      <3> QED
        BY <3>1 DEF Visit
    <2>4. CASE UNCHANGED <<stack, schemas>> /\ (at' \in Loose /\ stack # <<>> => at' \in Under(Top.type))
      <3> DEFINE n == Len(stack)
      <3>1. /\ n \in Nat /\ n <= Len(stack) /\ Len(stack') = n /\ DOMAIN schemas \subseteq DOMAIN schemas'
            /\ \A i \in 1..n : stack'[i].type = stack[i].type
        BY <2>1, <2>4
      <3>2. at' \in Loose /\ stack' # <<>> => at' \in Under(stack'[n].type)
        BY <2>3, <2>4
      <3> HIDE DEF n
      <3> QED
        BY <2>1, <3>1, <3>2, StaysDescending
    <2>5. CASE Response \/ Request \/ Store \/ Plain \/ Refer \/ UNCHANGED vars
      <3>1. at' \in Loose /\ stack # <<>> => at' \in Under(Top.type)
        BY <2>2, <2>5 DEF Response, Request, Store, Plain, Refer, vars, Idle, Descending
      <3> QED
        BY <2>4, <2>5, <3>1 DEF Response, Request, Store, Plain, Refer, vars
    <2>6. CASE Element
      <3>1. /\ at \in Type /\ at' \in Mentions(at) /\ UNCHANGED <<stack, schemas>> /\ at \in Loose
        BY <2>6 DEF Element, IInv, TypeOK, Mentions, MentionsIn, Loose, Components
      <3>2. at' \in Loose /\ stack # <<>> => at' \in Under(Top.type)
        BY <2>3, <3>1, UnderFacts DEF Descending, Gathers
      <3> QED
        BY <2>4, <3>1, <3>2
    <2>7. CASE Field
      <3> DEFINE t == Top.type
                 n == Len(stack)
      <3>1. /\ stack # <<>> /\ t \in Type /\ Kind[t] = "struct"
            /\ stack' = Append(Below, [Top EXCEPT !.next = @ + 1])
            /\ schemas' = schemas
        BY <2>1, <2>3, <2>7 DEF Field, Descending
      <3>2. /\ Len(stack') = n /\ \A i \in 1..n : stack'[i].type = stack[i].type
        <4>1. Top \in Visit
          BY <2>1, <2>3, <3>1
        <4>2. [Top EXCEPT !.next = @ + 1].type = t
          BY <4>1 DEF Visit
        <4>3. n \in Nat \ {0}
          BY <2>1, <2>3, <3>1
        <4> DEFINE v == [Top EXCEPT !.next = @ + 1]
        <4>4. v \in Visit
          BY <4>1, NextField
        <4> HIDE DEF v
        <4>5. /\ Len(Append(Below, v)) = n /\ Append(Below, v)[n] = v
              /\ \A i \in 1..(n - 1) : Append(Below, v)[i] = stack[i]
          BY <2>1, <3>1, <4>4, Replaced DEF Below
        <4> HIDE DEF n
        <4>6. \A i \in 1..n : i = n \/ i \in 1..(n - 1)
          BY <4>3
        <4>7. stack[n].type = t
          BY <2>3, <3>1 DEF n
        <4> QED
          BY <3>1, <4>2, <4>5, <4>6, <4>7 DEF v
      <3>3. at' \in Loose => at' \in Under(t)
        <4>1. at' = NoType \/ at' \in Mentions(t)
          BY <2>7, <3>1 DEF Field, Mentions, MentionsIn, Visited
        <4> QED
          BY <2>2, <3>1, <4>1, UnderFacts DEF Gathers
      <3>4. stack'[n].type = t
        BY <2>3, <3>1, <3>2
      <3> HIDE DEF t
      <3> QED
        BY <2>1, <3>1, <3>2, <3>3, <3>4, StaysDescending
    <2>8. CASE Leave
      <3> DEFINE n == Len(stack) - 1
      <3>1. stack # <<>> /\ stack' = Below /\ at' = NoType /\ n \in Nat /\ n <= Len(stack)
        BY <2>1, <2>3, <2>8 DEF Leave
      <3>2. Len(stack') = n /\ \A i \in 1..n : stack'[i] = stack[i]
        BY <2>1, <2>3, <3>1 DEF Below
      <3>3. DOMAIN schemas \subseteq DOMAIN schemas'
        BY <2>8 DEF Leave, Complete, Put
      <3> HIDE DEF n
      <3> QED
        BY <2>1, <2>2, <3>1, <3>2, <3>3, StaysDescending
    <2>9. CASE Enter
      BY <2>9, EnterDescends
    <2> QED
      BY <2>5, <2>6, <2>7, <2>8, <2>9 DEF Next
  <1> QED
    BY <1>1, <1>2, Invariance, PTL DEF Spec

(* The structs reflectStruct is in are never more than MaxDepth, whatever  *)
(* recursive types there are: the recursion never runs away, and the bound *)
(* in Enter takes no behaviour from the builder.                           *)
THEOREM RecursionIsBounded == Spec => []RecursionBounded
  <1>1. IInv /\ Descending => RecursionBounded
    <2> SUFFICES ASSUME IInv, Descending, Len(stack) > MaxDepth PROVE FALSE
      <3>1. Len(stack) \in Nat /\ MaxDepth \in Nat
        <4>1. IsFiniteSet(Components(Type)) /\ IsFiniteSet(Inline)
          BY RecursionAssumption, FS_Subset DEF Components, Inline
        <4>2. Cardinality(Components(Type)) \in Nat /\ Cardinality(Inline) \in Nat
          BY <4>1, FS_CardinalityType
        <4> QED
          BY <4>2 DEF MaxDepth, IInv, TypeOK
      <3> QED
        BY <3>1 DEF RecursionBounded
    <2> DEFINE N == Components(Type)
               Ty(i) == stack[i].type
               NamedUpTo(i) == {t \in N : \E k \in 1..i : Ty(k) = t}
               S == (0..Cardinality(N)) \X (Inline \cup {NoType})
               g == [i \in 1..Len(stack) |->
                       <<Cardinality(NamedUpTo(i)), IF Ty(i) \in N THEN NoType ELSE Ty(i)>>]
    <2>1. /\ Len(stack) \in Nat /\ DOMAIN stack = 1..Len(stack)
          /\ \A i \in 1..Len(stack) : Ty(i) \in Type /\ Kind[Ty(i)] = "struct"
      <3>1. stack \in Seq(Visit)
        BY DEF IInv, TypeOK, Visit
      <3>2. Len(stack) \in Nat /\ DOMAIN stack = 1..Len(stack) /\ \A i \in 1..Len(stack) : stack[i] \in Visit
        BY <3>1
      <3> QED
        BY <3>2 DEF Visit, Descending
    <2>2. IsFiniteSet(N) /\ IsFiniteSet(Inline) /\ Cardinality(N) \in Nat /\ Cardinality(Inline) \in Nat
      <3>1. IsFiniteSet(N) /\ IsFiniteSet(Inline)
        BY RecursionAssumption, FS_Subset DEF Components, Inline
      <3> QED
        BY <3>1, FS_CardinalityType
    <2>3. IsFiniteSet(S) /\ Cardinality(S) = MaxDepth
      <3>1. IsFiniteSet(0..Cardinality(N)) /\ Cardinality(0..Cardinality(N)) = Cardinality(N) + 1
        BY <2>2, FS_Interval
      <3>2. NoType \notin Inline
        BY TypeAssumption DEF Inline
      <3>3. IsFiniteSet(Inline \cup {NoType}) /\ Cardinality(Inline \cup {NoType}) = Cardinality(Inline) + 1
        BY <2>2, <3>2, FS_AddElement
      <3> DEFINE A == 0..Cardinality(N)
                 B == Inline \cup {NoType}
      <3>4. S = A \X B /\ IsFiniteSet(A) /\ IsFiniteSet(B)
        BY <3>1, <3>3
      <3>5. Cardinality(A) = Cardinality(N) + 1 /\ Cardinality(B) = Cardinality(Inline) + 1
        BY <3>1, <3>3
      <3>6. MaxDepth = (Cardinality(N) + 1) * (Cardinality(Inline) + 1)
        BY DEF MaxDepth
      <3> HIDE DEF A, B, S, N
      <3>7. IsFiniteSet(A \X B) /\ Cardinality(A \X B) = Cardinality(A) * Cardinality(B)
        BY <3>4, FS_Product
      <3> QED
        BY <3>4, <3>5, <3>6, <3>7
    <2>4. ASSUME NEW i \in 1..Len(stack)
          PROVE  /\ NamedUpTo(i) \subseteq N /\ IsFiniteSet(NamedUpTo(i))
                 /\ Cardinality(NamedUpTo(i)) \in 0..Cardinality(N)
      <3>1. NamedUpTo(i) \subseteq N
        OBVIOUS
      <3>2. IsFiniteSet(NamedUpTo(i)) /\ Cardinality(NamedUpTo(i)) <= Cardinality(N)
        BY <2>2, <3>1, FS_Subset
      <3>3. Cardinality(NamedUpTo(i)) \in Nat
        BY <3>2, FS_CardinalityType
      <3> QED
        BY <2>2, <3>1, <3>2, <3>3
    <2>5. g \in [1..Len(stack) -> S]
      <3>1. \A i \in 1..Len(stack) : Ty(i) \in N \/ Ty(i) \in Inline
        BY <2>1 DEF Components, Inline
      <3> QED
        BY <2>4, <3>1
    <2>6. IsFiniteSet(1..Len(stack)) /\ Cardinality(1..Len(stack)) = Len(stack)
      BY <2>1, FS_Interval
    <2>7. \E i, j \in 1..Len(stack) : i # j /\ g[i] = g[j]
      <3> HIDE DEF g, S
      <3> QED
        BY <2>3, <2>5, <2>6, FS_PigeonHole
    <2>8. PICK i \in 1..Len(stack), j \in 1..Len(stack) : i < j /\ g[i] = g[j]
      <3>1. PICK x \in 1..Len(stack), y \in 1..Len(stack) : x # y /\ g[x] = g[y]
        BY <2>7
      <3> HIDE DEF g
      <3>2. CASE x < y
        BY <3>1, <3>2
      <3>3. CASE y < x
        BY <3>1, <3>3
      <3> QED
        BY <2>1, <3>1, <3>2, <3>3
    <2>9. /\ Cardinality(NamedUpTo(i)) = Cardinality(NamedUpTo(j))
          /\ (IF Ty(i) \in N THEN NoType ELSE Ty(i)) = (IF Ty(j) \in N THEN NoType ELSE Ty(j))
      BY <2>8
    <2>10. \A t \in Type : t \in N <=> IsComponent(t)
      BY DEF Components, IsComponent
    <2>11. NamedUpTo(i) = NamedUpTo(j)
      <3>1. NamedUpTo(i) \subseteq NamedUpTo(j)
        <4>1. \A k \in 1..i : k \in 1..j
          BY <2>1, <2>8
        <4> QED
          BY <4>1
      <3> QED
        BY <2>4, <2>9, <3>1, FS_Subset
    <2>12. \A k \in (i + 1)..j : Ty(k) \notin N
      <3> SUFFICES ASSUME NEW k \in (i + 1)..j, Ty(k) \in N PROVE FALSE
        OBVIOUS
      <3>1. k \in 1..j /\ k \in 1..Len(stack) /\ i < k
        BY <2>1, <2>8
      <3>2. Ty(k) \in NamedUpTo(i)
        BY <2>11, <3>1
      <3>3. PICK h \in 1..i : Ty(h) = Ty(k)
        BY <3>2
      <3>4. h \in 1..Len(stack) /\ h # k
        BY <2>1, <3>1, <3>3
      <3> QED
        BY <2>1, <2>10, <3>1, <3>3, <3>4 DEF Descending
    <2>13. Ty(j) \notin N /\ Ty(i) = Ty(j)
      <3>1. j \in (i + 1)..j
        BY <2>1, <2>8
      <3>2. Ty(j) \notin N
        BY <2>12, <3>1
      <3>3. Ty(j) # NoType
        BY <2>1, TypeAssumption
      <3> QED
        BY <2>9, <3>2, <3>3
    <2>14. \A k \in (i + 1)..j : Ty(k) \in Loose
      <3>1. \A k \in (i + 1)..j : k \in 1..Len(stack)
        BY <2>1, <2>8
      <3> QED
        BY <2>1, <2>12, <3>1 DEF Loose
    <2>15. Ty(j) \in Under(Ty(i)) /\ Ty(j) \in Loose
      BY <2>1, <2>8, <2>13, <2>14 DEF Descending, Loose
    <2> QED
      BY <2>13, <2>15, UnderFacts
  <1> QED
    BY <1>1, Descent, PTL

-----------------------------------------------------------------------------
(* The drift test. *)

(* A set of numbers has a least one: what induction needs.                 *)
LEMMA Least == ASSUME NEW T \in SUBSET Nat, T # {} PROVE \E n \in T : \A m \in T : n <= m
  <1> DEFINE R == {p \in Nat \X Nat : p[1] < p[2]}
  <1>1. IsWellFoundedOn(OpToRel(<, Nat), Nat)
    BY NatLessThanWellFounded
  <1>2. OpToRel(<, Nat) = R
    BY DEF OpToRel
  <1>3. IsWellFoundedOn(R, Nat)
    BY <1>1, <1>2
  <1> HIDE DEF R
  <1>4. \E x \in T : \A y \in T : ~(<<y, x>> \in R)
    BY <1>3, WFMin
  <1>5. \A x, y \in Nat : <<y, x>> \in R <=> y < x
    BY DEF R
  <1>6. \A x, y \in Nat : ~(y < x) => x <= y
    OBVIOUS
  <1> QED
    BY <1>4, <1>5, <1>6

(* A path and its segments.                                                *)
LEMMA Segments ==
  ASSUME NEW w \in Seq(STRING)
  PROVE  /\ Len(w) \in Nat /\ DOMAIN w = 1..Len(w) /\ \A i \in 1..Len(w) : w[i] \in STRING
         /\ w = <<>> <=> Len(w) = 0
  OBVIOUS

(* Plainly changes no segment into a slash or a wildcard, and none of these.*)
LEMMA PlainlyFacts ==
  ASSUME NEW s \in STRING
  PROVE  /\ Plainly(s) \in STRING
         /\ Plainly(s) = Slash <=> s = Slash
         /\ Plainly(s) \in Starred <=> s \in Starred \ DOMAIN Constrained
         /\ \A t \in STRING \ DOMAIN Constrained : Same(t, s) <=> t = Plainly(s)
  BY CoverageAssumption DEF Plainly, Same, Slash

(* What a path is after Normalize: its segments, plain, without a slash at *)
(* the end.                                                                *)
Kernel(w) == IF w # <<>> /\ w[Len(w)] = Slash THEN Len(w) - 1 ELSE Len(w)

LEMMA NormalizeFacts ==
  ASSUME NEW w \in Seq(STRING)
  PROVE  /\ Normalize(w) \in Seq(STRING) /\ Len(Normalize(w)) = Kernel(w)
         /\ Kernel(w) \in 0..Len(w)
         /\ \A i \in 1..Kernel(w) : Normalize(w)[i] = Plainly(w[i])
  <1> DEFINE q == [i \in DOMAIN w |-> Plainly(w[i])]
  <1>1. /\ Len(w) \in Nat /\ DOMAIN w = 1..Len(w)
        /\ \A i \in 1..Len(w) : w[i] \in STRING /\ Plainly(w[i]) \in STRING
    BY Segments, PlainlyFacts
  <1>2. q \in [1..Len(w) -> STRING]
    BY <1>1
  <1>3. q \in Seq(STRING) /\ Len(q) = Len(w)
    <2> HIDE DEF q
    <2> QED
      BY <1>1, <1>2
  <1>4. \A i \in 1..Len(w) : q[i] = Plainly(w[i])
    BY <1>1
  <1>5. Normalize(w) = IF q # <<>> /\ q[Len(q)] = Slash THEN SubSeq(q, 1, Len(q) - 1) ELSE q
    BY DEF Normalize, Last, Front
  <1> HIDE DEF q
  <1>6. q # <<>> <=> w # <<>>
    BY <1>1, <1>3
  <1>7. w # <<>> => Len(w) \in 1..Len(w) /\ Len(w) - 1 \in Nat /\ (q[Len(w)] = Slash <=> w[Len(w)] = Slash)
    <2> HAVE w # <<>>
    <2>1. Len(w) \in 1..Len(w) /\ Len(w) - 1 \in Nat
      BY <1>1
    <2>2. w[Len(w)] \in STRING /\ q[Len(w)] = Plainly(w[Len(w)])
      BY <1>1, <1>4, <2>1
    <2> QED
      BY <2>1, <2>2, PlainlyFacts
  <1>8. CASE w # <<>> /\ w[Len(w)] = Slash
    <2>1. Normalize(w) = SubSeq(q, 1, Len(w) - 1) /\ Kernel(w) = Len(w) - 1
      BY <1>3, <1>5, <1>6, <1>7, <1>8 DEF Kernel
    <2>2. /\ SubSeq(q, 1, Len(w) - 1) \in Seq(STRING)
          /\ Len(SubSeq(q, 1, Len(w) - 1)) = Len(w) - 1
          /\ \A i \in 1..(Len(w) - 1) : SubSeq(q, 1, Len(w) - 1)[i] = q[i]
      BY <1>3, <1>7, <1>8
    <2>3. Len(w) - 1 \in 0..Len(w) /\ \A i \in 1..(Len(w) - 1) : i \in 1..Len(w)
      BY <1>1, <1>7, <1>8
    <2>4. \A i \in 1..Kernel(w) : Normalize(w)[i] = Plainly(w[i])
      <3> SUFFICES ASSUME NEW i \in 1..(Len(w) - 1) PROVE Normalize(w)[i] = Plainly(w[i])
        BY <2>1
      <3>1. Normalize(w)[i] = q[i]
        BY <2>1, <2>2
      <3> QED
        BY <1>4, <2>3, <3>1
    <2> QED
      BY <2>1, <2>2, <2>3, <2>4
  <1>9. CASE ~(w # <<>> /\ w[Len(w)] = Slash)
    <2>1. Normalize(w) = q /\ Kernel(w) = Len(w)
      BY <1>3, <1>5, <1>6, <1>7, <1>9 DEF Kernel
    <2> QED
      BY <1>1, <1>3, <1>4, <2>1
  <1> QED
    BY <1>8, <1>9

(* A path as a document writes it is what Normalize makes of it.           *)
LEMMA PlainestStays == ASSUME NEW d, Plainest(d) PROVE Normalize(d) = d
  <1>1. /\ d \in Seq(STRING) /\ Len(d) \in Nat /\ DOMAIN d = 1..Len(d)
        /\ \A i \in 1..Len(d) : d[i] \in STRING /\ d[i] # Slash /\ Plainly(d[i]) = d[i]
    BY DEF Plainest, Plainly
  <1>2. Kernel(d) = Len(d)
    <2>1. d # <<>> => Len(d) \in 1..Len(d)
      BY <1>1
    <2> QED
      BY <1>1, <2>1 DEF Kernel
  <1>3. /\ Normalize(d) \in Seq(STRING) /\ Len(Normalize(d)) = Len(d)
        /\ \A i \in 1..Len(d) : Normalize(d)[i] = d[i]
    BY <1>1, <1>2, NormalizeFacts
  <1> QED
    BY <1>1, <1>3

(* Joining such paths is putting one behind the other.                     *)
LEMMA JoinFacts ==
  ASSUME NEW s, NEW d, Plainest(s), Plainest(d)
  PROVE  Plainest(s \o d) /\ Join(s, d) = s \o d
  <1> DEFINE q == s \o d
             E(f, n) == IF n = 0 THEN <<>> ELSE IF q[n] = Slash THEN f[n - 1] ELSE Append(f[n - 1], q[n])
             kept == CHOOSE f : f = [n \in 0..Len(q) |-> E(f, n)]
             upto == [n \in 0..Len(q) |-> SubSeq(q, 1, n)]
  <1>1. /\ q \in Seq(STRING) /\ Len(q) \in Nat /\ DOMAIN q = 1..Len(q)
        /\ \A i \in 1..Len(q) : q[i] \in STRING /\ q[i] \notin {Slash} \cup DOMAIN Constrained
    <2>1. /\ s \in Seq(STRING) /\ d \in Seq(STRING) /\ q \in Seq(STRING)
          /\ Len(s) \in Nat /\ Len(d) \in Nat /\ Len(q) = Len(s) + Len(d)
          /\ DOMAIN s = 1..Len(s) /\ DOMAIN d = 1..Len(d) /\ DOMAIN q = 1..Len(q)
      BY DEF Plainest
    <2>2. ASSUME NEW i \in 1..Len(q) PROVE q[i] \in STRING /\ q[i] \notin {Slash} \cup DOMAIN Constrained
      <3>1. CASE i \in 1..Len(s)
        <4>1. q[i] = s[i]
          BY <2>1, <3>1
        <4> QED
          BY <2>1, <3>1, <4>1 DEF Plainest
      <3>2. CASE i \notin 1..Len(s)
        <4>1. i - Len(s) \in 1..Len(d) /\ q[i] = d[i - Len(s)]
          BY <2>1, <3>2
        <4> QED
          BY <2>1, <4>1 DEF Plainest
      <3> QED
        BY <3>1, <3>2
    <2> QED
      BY <2>1, <2>2
  <1>2. Join(s, d) = kept[Len(q)]
    BY DEF Join
  <1> HIDE DEF q
  <1>3. upto = [n \in 0..Len(q) |-> E(upto, n)]
    <2> SUFFICES ASSUME NEW n \in 0..Len(q) PROVE upto[n] = E(upto, n)
      OBVIOUS
    <2>1. CASE n = 0
      <3>1. SubSeq(q, 1, 0) = <<>>
        BY <1>1
      <3> QED
        BY <2>1, <3>1
    <2>2. CASE n # 0
      <3>1. n \in 1..Len(q) /\ n - 1 \in 0..Len(q) /\ q[n] # Slash
        BY <1>1, <2>2
      <3>2. SubSeq(q, 1, n) = Append(SubSeq(q, 1, n - 1), q[n])
        BY <1>1, <3>1
      <3> QED
        BY <2>2, <3>1, <3>2
    <2> QED
      BY <2>1, <2>2
  <1> HIDE DEF upto
  <1>4. kept = [n \in 0..Len(q) |-> E(kept, n)]
    <2> HIDE DEF E
    <2> QED
      BY <1>3
  <1> HIDE DEF kept
  <1>5. \A n \in 0..Len(q) : kept[n] = upto[n]
    <2> DEFINE T == {n \in 0..Len(q) : kept[n] # upto[n]}
    <2> SUFFICES ASSUME T # {} PROVE FALSE
      OBVIOUS
    <2>1. PICK n \in T : \A m \in T : n <= m
      <3>1. T \in SUBSET Nat
        BY <1>1
      <3> QED
        BY <3>1, Least
    <2>2. CASE n = 0
      BY <1>1, <1>3, <1>4, <2>1, <2>2
    <2>3. CASE n # 0
      <3>1. n - 1 \in 0..Len(q) /\ ~(n <= n - 1) /\ n \in 0..Len(q)
        BY <1>1, <2>1, <2>3
      <3>2. kept[n - 1] = upto[n - 1]
        BY <2>1, <3>1
      <3>3. kept[n] = E(kept, n) /\ upto[n] = E(upto, n)
        BY <1>3, <1>4, <3>1
      <3> QED
        BY <2>1, <3>2, <3>3
    <2> QED
      BY <2>2, <2>3
  <1>6. kept[Len(q)] = q
    <2>1. Len(q) \in 0..Len(q) /\ upto[Len(q)] = SubSeq(q, 1, Len(q)) /\ SubSeq(q, 1, Len(q)) = q
      BY <1>1 DEF upto
    <2> QED
      BY <1>5, <2>1
  <1>7. Plainest(q)
    BY <1>1 DEF Plainest
  <1> QED
    BY <1>2, <1>6, <1>7 DEF q

(* Same segment for segment is what the two sides of the test compare.     *)
LEMMA BeginsFacts ==
  ASSUME NEW q, Plainest(q), NEW w \in Seq(STRING)
  PROVE  /\ Begins(q, w) <=> IsPrefix(q, Normalize(w))
         /\ Names(q, w) <=> Normalize(w) = q
  <1> DEFINE p == Normalize(w)
  <1>1. /\ q \in Seq(STRING) /\ Len(q) \in Nat /\ DOMAIN q = 1..Len(q)
        /\ \A i \in 1..Len(q) : q[i] \in STRING \ DOMAIN Constrained /\ q[i] # Slash
    BY DEF Plainest
  <1>2. /\ Len(w) \in Nat /\ \A i \in 1..Len(w) : w[i] \in STRING
        /\ w = <<>> <=> Len(w) = 0
    BY Segments
  <1>3. /\ p \in Seq(STRING) /\ Len(p) = Kernel(w) /\ Kernel(w) \in 0..Len(w)
        /\ \A i \in 1..Kernel(w) : p[i] = Plainly(w[i])
    BY NormalizeFacts
  <1> HIDE DEF p
  <1>4. ASSUME NEW i \in 1..Len(q), i \in 1..Len(w) PROVE Same(q[i], w[i]) <=> q[i] = Plainly(w[i])
    BY <1>1, <1>2, <1>4, PlainlyFacts
  <1>5. Begins(q, w) => Len(q) <= Kernel(w)
    <2> SUFFICES ASSUME Begins(q, w), Len(q) > Kernel(w) PROVE FALSE
      BY <1>1, <1>3
    <2>1. Len(q) <= Len(w) /\ w # <<>> /\ w[Len(w)] = Slash /\ Kernel(w) = Len(w) - 1
      BY <1>1, <1>2 DEF Begins, Kernel
    <2>2. Len(q) = Len(w) /\ Len(w) \in 1..Len(w)
      BY <1>1, <1>2, <2>1
    <2>3. q[Len(w)] = Plainly(w[Len(w)])
      BY <1>1, <1>4, <2>2 DEF Begins
    <2>4. Plainly(w[Len(w)]) = Slash
      BY <1>2, <2>1, <2>2, PlainlyFacts
    <2> QED
      BY <1>1, <2>2, <2>3, <2>4
  <1>6. Begins(q, w) <=> Len(q) <= Kernel(w) /\ \A i \in 1..Len(q) : q[i] = p[i]
    <2>1. ASSUME Len(q) <= Kernel(w), NEW i \in 1..Len(q)
          PROVE  i \in 1..Len(w) /\ (Same(q[i], w[i]) <=> q[i] = p[i])
      <3>1. i \in 1..Kernel(w) /\ i \in 1..Len(w)
        BY <1>1, <1>2, <1>3, <2>1
      <3> QED
        BY <1>3, <1>4, <3>1
    <2>2. Len(q) <= Kernel(w) => Len(q) <= Len(w)
      BY <1>1, <1>2, <1>3
    <2> QED
      BY <1>1, <1>5, <2>1, <2>2 DEF Begins
  <1>7. IsPrefix(q, p) <=> Len(q) <= Kernel(w) /\ \A i \in 1..Len(q) : q[i] = p[i]
    <2>1. SubSeq(q, 1, Len(q)) = q
      BY <1>1
    <2>2. CASE Len(q) <= Len(p)
      <3>1. /\ SubSeq(p, 1, Len(q)) \in Seq(STRING)
            /\ Len(SubSeq(p, 1, Len(q))) = Len(q)
            /\ \A i \in 1..Len(q) : SubSeq(p, 1, Len(q))[i] = p[i]
        BY <1>1, <1>3, <2>2
      <3>2. q = SubSeq(p, 1, Len(q)) <=> \A i \in 1..Len(q) : q[i] = p[i]
        BY <1>1, <3>1
      <3> QED
        BY <1>3, <2>1, <2>2, <3>2 DEF IsPrefix
    <2>3. CASE ~(Len(q) <= Len(p))
      BY <1>3, <2>3 DEF IsPrefix
    <2> QED
      BY <2>2, <2>3
  <1>8. Names(q, w) <=> Begins(q, w) /\ Len(q) = Kernel(w)
    <2>1. ASSUME Begins(q, w), Len(w) = Len(q) PROVE Len(q) = Kernel(w)
      BY <1>1, <1>2, <1>3, <1>5, <2>1
    <2>2. ASSUME Len(w) = Len(q) + 1, w[Len(w)] = Slash PROVE Len(q) = Kernel(w)
      <3>1. w # <<>> /\ Len(w) - 1 = Len(q)
        BY <1>1, <1>2, <2>2
      <3> QED
        BY <2>2, <3>1 DEF Kernel
    <2>3. ASSUME Len(q) = Kernel(w) PROVE Len(w) = Len(q) \/ (Len(w) = Len(q) + 1 /\ w[Len(w)] = Slash)
      BY <1>1, <1>2, <2>3 DEF Kernel
    <2> QED
      BY <2>1, <2>2, <2>3 DEF Names, Last
  <1>9. p = q <=> Len(q) = Kernel(w) /\ \A i \in 1..Len(q) : q[i] = p[i]
    BY <1>1, <1>3
  <1> QED
    BY <1>3, <1>6, <1>7, <1>8, <1>9 DEF p

(* What the test skips is what it should leave alone.                      *)
LEMMA SkippedIsReserved ==
  ASSUME NEW r, r.path \in Seq(STRING)
  PROVE  SkipRoute(Normalize(r.path), Skipped) <=> Reserved(r)
  <1> DEFINE w == r.path
             p == Normalize(w)
  <1>1. /\ Len(w) \in Nat /\ DOMAIN w = 1..Len(w) /\ \A i \in 1..Len(w) : w[i] \in STRING
    BY Segments
  <1>2. /\ p \in Seq(STRING) /\ DOMAIN p = 1..Kernel(w) /\ Kernel(w) \in 0..Len(w)
        /\ \A i \in 1..Kernel(w) : p[i] = Plainly(w[i])
    <2>1. p \in Seq(STRING) /\ Len(p) = Kernel(w)
      BY NormalizeFacts
    <2>2. DOMAIN p = 1..Len(p)
      BY <2>1, Segments
    <2> QED
      BY <2>1, <2>2, NormalizeFacts
  <1>3. HasStar(p) <=> \E i \in DOMAIN w : w[i] \in Starred \ DOMAIN Constrained
    <2> HIDE DEF p, w
    <2>1. ASSUME NEW i \in 1..Kernel(w), p[i] \in Starred
          PROVE  i \in DOMAIN w /\ w[i] \in Starred \ DOMAIN Constrained
      <3>1. i \in 1..Len(w)
        BY <1>1, <1>2
      <3> QED
        BY <1>1, <1>2, <2>1, <3>1, PlainlyFacts
    <2>2. ASSUME NEW i \in 1..Len(w), w[i] \in Starred \ DOMAIN Constrained
          PROVE  i \in DOMAIN p /\ p[i] \in Starred
      <3>1. i \in 1..Kernel(w)
        <4>1. w[i] # Slash
          BY <2>2, CoverageAssumption
        <4> QED
          BY <1>1, <2>2, <4>1 DEF Kernel
      <3>2. w[i] \in STRING /\ i \in DOMAIN p /\ p[i] = Plainly(w[i])
        BY <1>1, <1>2, <3>1
      <3>3. Plainly(w[i]) \in Starred
        BY <2>2, <3>2, PlainlyFacts
      <3> QED
        BY <3>2, <3>3
    <2> QED
      BY <1>1, <1>2, <2>1, <2>2 DEF HasStar
  <1>4. \A q \in Skipped : IsPrefix(q, p) <=> Begins(q, w)
    <2> TAKE q \in Skipped
    <2>1. Plainest(q)
      BY CoverageAssumption
    <2> QED
      BY <2>1, BeginsFacts
  <1>5. Begins(SpecPath, w) => Begins(BasePath, w)
    <2> HIDE DEF w
    <2>1. /\ Len(SpecPath) = 2 /\ Len(BasePath) = 1 /\ DOMAIN BasePath = 1..1
          /\ 1 \in DOMAIN SpecPath /\ SpecPath[1] = BasePath[1]
      BY DEF SpecPath, BasePath
    <2> QED
      BY <1>1, <2>1 DEF Begins
  <1>6. Skipped \cup {SpecPath} = {BasePath, SpecPath} \cup Probes \cup Ignored /\ BasePath \in Skipped
    BY DEF Skipped
  <1> HIDE DEF w, p
  <1>7. (\E q \in Skipped : IsPrefix(q, p)) <=> \E q \in {BasePath, SpecPath} \cup Probes \cup Ignored : Begins(q, w)
    BY <1>4, <1>5, <1>6
  <1> QED
    BY <1>3, <1>7 DEF SkipRoute, Reserved, p, w

(* The document has the paths of the routes converted so far, and they are *)
(* those of one of the applications.                                       *)
Stored == paths = {<<registry[i].path, registry[i].method>> : i \in 1..(route - 1)}

OfOne == \E a \in Applications : registry = a.registry /\ router = a.router

DInv == IInv /\ Stored /\ OfOne

LEMMA DriftInvariance == CoverSpec => []DInv
  <1>1. CoverInit => Init /\ Stored /\ OfOne
    <2> SUFFICES ASSUME CoverInit PROVE Init /\ Stored /\ OfOne
      OBVIOUS
    <2>1. Init /\ OfOne
      BY CoverageAssumption DEF CoverInit, Init, OfOne
    <2>2. paths = {} /\ 1..(route - 1) = {}
      BY DEF CoverInit, Begin
    <2> QED
      BY <2>1, <2>2 DEF Stored
  <1>2. [CoverNext]_cvars => [Next]_vars
    BY DEF CoverNext, cvars
  <1>3. IInv /\ Stored /\ OfOne /\ [CoverNext]_cvars => Stored' /\ OfOne'
    <2> SUFFICES ASSUME IInv, Stored, OfOne, [CoverNext]_cvars PROVE Stored' /\ OfOne'
      OBVIOUS
    <2>1. registry' = registry /\ router' = router
      BY DEF CoverNext, cvars, vars, input, Next, Response, Request, Store, Element, Plain,
             Refer, Enter, Field, Leave
    <2>2. OfOne'
      BY <2>1 DEF OfOne
    <2>3. CASE UNCHANGED <<route, paths>>
      <3>1. route' = route /\ paths' = paths
        BY <2>3
      <3> QED
        BY <2>1, <2>2, <3>1 DEF Stored
    <2>4. CASE Store
      <3>1. /\ route' = route + 1 /\ route \in Nat \ {0}
            /\ paths' = paths \cup {<<registry[route].path, registry[route].method>>}
        <4>1. Len(registry) \in Nat
          BY RegistryAssumption DEF IInv, Given, Lists
        <4> QED
          BY <2>4, <4>1 DEF Store, IInv, TypeOK
      <3>2. 1..(route' - 1) = 1..(route - 1) \cup {route}
        BY <3>1
      <3> DEFINE op(i) == <<registry[i].path, registry[i].method>>
      <3>3. paths = {op(i) : i \in 1..(route - 1)}
        BY DEF Stored
      <3>4. paths' = {op(i) : i \in 1..(route' - 1)}
        <4>1. paths' = paths \cup {op(route)}
          BY <3>1
        <4> HIDE DEF op
        <4> QED
          BY <3>2, <3>3, <4>1
      <3> QED
        BY <2>1, <2>2, <3>4 DEF Stored
    <2>5. UNCHANGED <<route, paths>> \/ Store
      BY DEF CoverNext, cvars, vars, Next, Response, Request, Element, Plain, Refer, Enter, Field, Leave
    <2> QED
      BY <2>2, <2>3, <2>4, <2>5
  <1>4. CoverSpec => Spec
    BY <1>1, <1>2, PTL DEF CoverSpec, Spec
  <1>5. CoverSpec => []IInv
    BY <1>4, Invariance, PTL
  <1> QED
    BY <1>1, <1>3, <1>5, PTL DEF CoverSpec, DInv

(* The drift test reports the routes of the application that the document  *)
(* lacks and that it does not leave alone, and no other.                   *)
THEOREM DriftIsReported == CoverSpec => []ReportsDrift
  <1>1. DInv => ReportsDrift
    <2> SUFFICES ASSUME DInv, Done PROVE Undocumented = {r \in router : ~InDocument(r) /\ ~Reserved(r)}
      BY DEF ReportsDrift
    <2> USE DEF DInv
    <2>1. PICK a \in Applications : registry = a.registry /\ router = a.router
      BY DEF OfOne
    <2>2. Len(registry) \in Nat /\ DOMAIN registry = 1..Len(registry)
      BY RegistryAssumption DEF IInv, Given, Lists
    <2>3. \A i \in 1..Len(registry) : Plainest(registry[i].path)
      BY <2>1, <2>2, CoverageAssumption
    <2>4. paths = {<<registry[i].path, registry[i].method>> : i \in 1..Len(registry)}
      <3>1. route = Len(registry) + 1
        BY <2>2 DEF Done, Converting, IInv, TypeOK
      <3>2. route - 1 = Len(registry)
        BY <2>2, <3>1
      <3> QED
        BY <3>2 DEF Stored
    <2>5. ASSUME NEW s \in Servers, NEW d, Plainest(d)
          PROVE  Plainest(s \o d) /\ Normalize(Join(s, d)) = s \o d
      <3>1. Plainest(s)
        BY CoverageAssumption
      <3> QED
        BY <2>5, <3>1, JoinFacts, PlainestStays
    <2>6. \A d : Plainest(d) => Normalize(d) = d /\ <<>> \o d = d
      BY PlainestStays DEF Plainest
    <2>7. ASSUME NEW r \in router PROVE <<r.method, Normalize(r.path)>> \in Documented <=> InDocument(r)
      <3> DEFINE p == Normalize(r.path)
      <3>1. r.path \in Seq(STRING)
        BY <2>1, <2>7, CoverageAssumption
      <3>2. <<r.method, p>> \in Documented
              <=> \E i \in 1..Len(registry) :
                    r.method = registry[i].method
                      /\ (p = registry[i].path \/ \E s \in Servers : p = s \o registry[i].path)
        <4> HIDE DEF p
        <4>1. \A i \in 1..Len(registry) :
                /\ Normalize(registry[i].path) = registry[i].path
                /\ \A s \in Servers : Normalize(Join(s, registry[i].path)) = s \o registry[i].path
          BY <2>3, <2>5, <2>6
        <4>2. \A x : x \in Documented
                <=> \E i \in DOMAIN registry :
                      \/ x = <<registry[i].method, Normalize(registry[i].path)>>
                      \/ \E s \in Servers : x = <<registry[i].method, Normalize(Join(s, registry[i].path))>>
          BY DEF Documented
        <4>3. ASSUME NEW i \in 1..Len(registry)
              PROVE  (\/ <<r.method, p>> = <<registry[i].method, Normalize(registry[i].path)>>
                      \/ \E s \in Servers :
                           <<r.method, p>> = <<registry[i].method, Normalize(Join(s, registry[i].path))>>)
                     <=> (r.method = registry[i].method
                            /\ (p = registry[i].path \/ \E s \in Servers : p = s \o registry[i].path))
          BY <4>1
        <4>4. <<r.method, p>> \in Documented
                <=> \E i \in 1..Len(registry) :
                      \/ <<r.method, p>> = <<registry[i].method, Normalize(registry[i].path)>>
                      \/ \E s \in Servers :
                           <<r.method, p>> = <<registry[i].method, Normalize(Join(s, registry[i].path))>>
          <5> DEFINE x == <<r.method, p>>
          <5> HIDE DEF x
          <5>1. x \in Documented
                  <=> \E i \in DOMAIN registry :
                        \/ x = <<registry[i].method, Normalize(registry[i].path)>>
                        \/ \E s \in Servers : x = <<registry[i].method, Normalize(Join(s, registry[i].path))>>
            BY <4>2
          <5> QED
            BY <2>2, <5>1 DEF x
        <4> QED
          BY <4>3, <4>4, Zenon
      <3>3. ASSUME NEW i \in 1..Len(registry), NEW s \in Servers \cup {<<>>}
            PROVE  Names(s \o registry[i].path, r.path) <=> p = s \o registry[i].path
        <4>1. Plainest(s \o registry[i].path)
          BY <2>3, <2>5, <2>6
        <4> QED
          BY <3>1, <4>1, BeginsFacts
      <3> HIDE DEF p
      <3>4. InDocument(r)
              <=> \E i \in 1..Len(registry), s \in Servers \cup {<<>>} :
                    registry[i].method = r.method /\ p = s \o registry[i].path
        <4> DEFINE op(i) == <<registry[i].path, registry[i].method>>
        <4>1. \A i \in 1..Len(registry) : op(i)[1] = registry[i].path /\ op(i)[2] = registry[i].method
          OBVIOUS
        <4>2. paths = {op(i) : i \in 1..Len(registry)}
          BY <2>4
        <4> HIDE DEF op
        <4>3. InDocument(r)
                <=> \E i \in 1..Len(registry), s \in Servers \cup {<<>>} :
                      op(i)[2] = r.method /\ Names(s \o op(i)[1], r.path)
          BY <4>2 DEF InDocument
        <4>4. \A i \in 1..Len(registry), s \in Servers \cup {<<>>} :
                (op(i)[2] = r.method /\ Names(s \o op(i)[1], r.path))
                  <=> (registry[i].method = r.method /\ p = s \o registry[i].path)
          BY <3>3, <4>1
        <4> QED
          BY <4>3, <4>4, Zenon
      <3>5. \A i \in 1..Len(registry) : <<>> \o registry[i].path = registry[i].path
        BY <2>3, <2>6
      <3> QED
        BY <3>2, <3>4, <3>5 DEF p
    <2>8. \A r \in router : SkipRoute(Normalize(r.path), Skipped) <=> Reserved(r)
      BY <2>1, CoverageAssumption, SkippedIsReserved
    <2> QED
      BY <2>7, <2>8 DEF Undocumented
  <1> QED
    BY <1>1, DriftInvariance, PTL
=============================================================================
