------------------------------- MODULE OpenApi -------------------------------
(***************************************************************************)
(* The OpenAPI document (apiref/openapi.go): the registry's routes one     *)
(* after the other, and the schemas of their bodies, which the builder     *)
(* reflects depth first, a named struct once.                              *)
(*                                                                         *)
(* The recursion of reflectType and reflectStruct is a stack of the        *)
(* structs whose fields are being visited.  A schema is the struct it was  *)
(* made from and the properties it lists; what is inside a property is the *)
(* same for every occurrence of its type.                                  *)
(***************************************************************************)
EXTENDS Integers, Sequences, FiniteSets

CONSTANTS Type,              \* the Go types of the application
          Kind,              \* Kind[t]: what reflect says t is
          Elem,              \* Elem[t]: the element of a slice, an array or a pointer
          Name,              \* Name[t]: reflect's Name, without the package
          Anonymous,         \* the empty name
          NoType,            \* no body, or one described in words
          Fields,            \* the fields the structs may have: a set of functions
          Registries         \* the registries the document is made from

(* The structs that are made a component, those that have a name, and the  *)
(* anonymous ones.                                                         *)
Components(S) == {t \in S : Kind[t] = "struct" /\ Name[t] # Anonymous}

Inline == {t \in Type : Kind[t] = "struct" /\ Name[t] = Anonymous}

Kinds == {"struct", "slice", "pointer", "map", "plain"}

Named == {Name[t] : t \in Type} \ {Anonymous}

ASSUME TypeAssumption == /\ NoType \notin Type
                         /\ Kind \in [Type -> Kinds]
                         /\ Elem \in [Type -> Type]
                         /\ DOMAIN Name = Type

(* A registry lists its routes and a struct its fields; what they describe *)
(* are types of the application.                                           *)
Lists(s) == Len(s) \in Nat /\ DOMAIN s = 1..Len(s)

ASSUME RegistryAssumption ==
  /\ \A f \in Fields, t \in Type : Lists(f[t]) /\ \A i \in DOMAIN f[t] : f[t][i].type \in Type
  /\ \A r \in Registries :
       Lists(r) /\ \A i \in DOMAIN r : {r[i].response, r[i].request} \subseteq Type \cup {NoType}

(* The types a type's description mentions directly, with the fields f.    *)
MentionsIn(f, t) ==
  CASE Kind[t] \in {"slice", "pointer"} -> {Elem[t]}
    [] Kind[t] = "struct" -> {f[t][i].type : i \in {j \in DOMAIN f[t] : ~f[t][j].hidden}}
    [] OTHER -> {}

(* A type comes back to itself through a named struct, as in Go all do but *)
(* a slice or a pointer of its own, such as type T []T.                    *)
Loose == Type \ Components(Type)

ASSUME RecursionAssumption ==
  /\ IsFiniteSet(Type)
  /\ \A f \in Fields, S \in SUBSET Loose :
       S # {} => \E t \in S : MentionsIn(f, t) \cap S = {}

(* bound: the structs reflectStruct is in, never reached (OpenApiProofs)   *)
MaxDepth == (Cardinality(Components(Type)) + 1) * (Cardinality(Inline) + 1)

VARIABLES
  fields,      \* fields[t]: the fields of a struct: [json, hidden, type]
  registry,    \* the routes: [method, path, response, request, status]
  route,       \* the route being converted
  part,        \* which of its parts: "response", "request" or "store"
  at,          \* the type reflectType has to describe, or NoType
  stack,       \* the structs reflectStruct is in: [type, next]
  schemas,     \* components/schemas: a name's struct and properties
  refs,        \* the names some $ref in the document points to
  paths        \* the operations of the document: <<path, method>>

input == <<fields, registry>>
vars == <<input, route, part, at, stack, schemas, refs, paths>>

(* What the component named n holds while its struct is being visited.     *)
Placeholder == [of |-> NoType, properties |-> {}]

Begin == /\ route = 1
         /\ part = "response"
         /\ at = NoType
         /\ stack = <<>>
         /\ schemas = <<>>
         /\ refs = {}
         /\ paths = {}

Init == fields \in Fields /\ registry \in Registries /\ Begin

Converting == route <= Len(registry)

Idle == at = NoType /\ stack = <<>>

-----------------------------------------------------------------------------
(* OpenAPI: a route's response, unless its status is 204, then its request *)
(* body, then the operation under its path.                                *)
NoContent == 204

Response ==
  /\ Converting /\ Idle /\ part = "response"
  /\ at' = IF registry[route].status = NoContent THEN NoType ELSE registry[route].response
  /\ part' = "request"
  /\ UNCHANGED <<input, route, stack, schemas, refs, paths>>

Request ==
  /\ Converting /\ Idle /\ part = "request"
  /\ at' = registry[route].request
  /\ part' = "store"
  /\ UNCHANGED <<input, route, stack, schemas, refs, paths>>

Store ==
  /\ Converting /\ Idle /\ part = "store"
  /\ paths' = paths \cup {<<registry[route].path, registry[route].method>>}
  /\ route' = route + 1
  /\ part' = "response"
  /\ UNCHANGED <<input, at, stack, schemas, refs>>

-----------------------------------------------------------------------------
(* reflectType. *)

(* Pointers are followed, and of a slice the element is described.         *)
Element ==
  /\ at # NoType
  /\ Kind[at] \in {"slice", "pointer"}
  /\ at' = Elem[at]
  /\ UNCHANGED <<input, route, part, stack, schemas, refs, paths>>

(* A map, a time and every basic type are described where they are.        *)
Plain ==
  /\ at # NoType
  /\ Kind[at] \in {"map", "plain"}
  /\ at' = NoType
  /\ UNCHANGED <<input, route, part, stack, schemas, refs, paths>>

(* Structs of this name have been seen: a reference is enough.             *)
Seen(n) == n # Anonymous /\ n \in DOMAIN schemas

Refer ==
  /\ at # NoType
  /\ Kind[at] = "struct"
  /\ Seen(Name[at])
  /\ refs' = refs \cup {Name[at]}
  /\ at' = NoType
  /\ UNCHANGED <<input, route, part, stack, schemas, paths>>

(* b.schemas[n] = v                                                        *)
Put(n, v) == [m \in DOMAIN schemas \cup {n} |-> IF m = n THEN v ELSE schemas[m]]

(* (Wrong variant: the name is not taken before the fields are visited.) *)
ReserveNothing(n) == schemas

(* The name is taken before the fields are visited, so that a struct that  *)
(* reaches itself finds it.                                                *)
Reserve(n) == IF n = Anonymous THEN schemas ELSE Put(n, Placeholder)

Enter ==
  /\ at # NoType
  /\ Kind[at] = "struct"
  /\ ~Seen(Name[at])
  /\ Len(stack) <= MaxDepth
  /\ schemas' = Reserve(Name[at])
  /\ stack' = Append(stack, [type |-> at, next |-> 1])
  /\ at' = NoType
  /\ UNCHANGED <<input, route, part, refs, paths>>

-----------------------------------------------------------------------------
(* reflectStruct. *)
Top == stack[Len(stack)]
Below == SubSeq(stack, 1, Len(stack) - 1)

Visited(t) == DOMAIN fields[t]

(* Unexported fields and those tagged json:"-" are passed over.            *)
Field ==
  /\ at = NoType /\ stack # <<>>
  /\ Top.next \in Visited(Top.type)
  /\ stack' = Append(Below, [Top EXCEPT !.next = @ + 1])
  /\ at' = IF fields[Top.type][Top.next].hidden THEN NoType
           ELSE fields[Top.type][Top.next].type
  /\ UNCHANGED <<input, route, part, schemas, refs, paths>>

(* properties is a map: of two fields of one name, one property is left.   *)
Properties(t) ==
  {fields[t][i].json : i \in {j \in Visited(t) : ~fields[t][j].hidden}}

(* (Wrong variant: the finished schema is returned but not kept.) *)
KeepPlaceholder(n, t) == schemas

(* (Wrong variant: the struct the visit began with is kept.) *)
CompleteOutermost(n, t) ==
  IF n = Anonymous THEN schemas
  ELSE Put(n, [of |-> stack[1].type, properties |-> Properties(t)])

Complete(n, t) ==
  IF n = Anonymous THEN schemas ELSE Put(n, [of |-> t, properties |-> Properties(t)])

Leave ==
  /\ at = NoType /\ stack # <<>>
  /\ Top.next \notin Visited(Top.type)
  /\ schemas' = Complete(Name[Top.type], Top.type)
  /\ refs' = refs \cup ({Name[Top.type]} \ {Anonymous})
  /\ stack' = Below
  /\ UNCHANGED <<input, route, part, at, paths>>

Next == \/ Response \/ Request \/ Store
        \/ Element \/ Plain \/ Refer \/ Enter
        \/ Field \/ Leave

Spec == Init /\ [][Next]_vars

FairSpec == Spec /\ WF_vars(Next)

Done == ~Converting

-----------------------------------------------------------------------------
(* What the document should hold, told without the builder.                *)

(* The types a type's description mentions directly.                       *)
Mentions(t) == MentionsIn(fields, t)

Bodies == {registry[i].response : i \in {j \in DOMAIN registry : registry[j].status # NoContent}}
            \cup {registry[i].request : i \in DOMAIN registry}

Exported(t) == {fields[t][i].json : i \in {j \in DOMAIN fields[t] : ~fields[t][j].hidden}}

(* Every type the bodies mention, directly or through others: the least    *)
(* set that has the bodies and, of each of its types, what it mentions.    *)
Closed(S) == Bodies \ {NoType} \subseteq S /\ \A t \in S : Mentions(t) \subseteq S

Mentioned == {t \in Type : \A S \in SUBSET Type : Closed(S) => t \in S}

Distinct(S) == \A t, u \in S : Name[t] = Name[u] => t = u

-----------------------------------------------------------------------------
(* The type invariant. *)
TypeOK ==
  /\ route \in 1..(Len(registry) + 1)
  /\ part \in {"response", "request", "store"}
  /\ at \in Type \cup {NoType}
  /\ stack \in Seq([type : Type, next : Nat \ {0}])
  /\ DOMAIN schemas \subseteq Named
  /\ \A n \in DOMAIN schemas : schemas[n].of \in Type \cup {NoType}
  /\ refs \subseteq Named
  /\ \A p \in paths : \E i \in 1..Len(registry) : p = <<registry[i].path, registry[i].method>>

(* The recursion is bounded by the types, also when they are recursive.    *)
RecursionBounded == Len(stack) <= MaxDepth

(* Every $ref of the finished document finds a finished schema, also when  *)
(* types are recursive or share a name: no placeholder is left behind.     *)
RefsResolve == Done => refs \subseteq {n \in DOMAIN schemas : schemas[n].of # NoType}

(* While it is being built, a reserved name belongs to a struct on the     *)
(* stack, so that it will be finished.                                     *)
PlaceholdersPending ==
  \A n \in DOMAIN schemas : schemas[n].of = NoType => \E i \in DOMAIN stack : Name[stack[i].type] = n

(* A component is a struct of its name that the bodies mention: of the     *)
(* structs that share a name, one stands for all.  When no two of them do, *)
(* the components are exactly the named structs the bodies mention, each   *)
(* with its own properties, whatever order and depth they were met in.     *)
ComponentsAreOwn ==
  Done => LET own == Components(Mentioned) IN
    /\ \A n \in DOMAIN schemas : schemas[n].of \in own /\ Name[schemas[n].of] = n
    /\ Distinct(own) =>
         schemas = [n \in {Name[t] : t \in own} |->
                      LET t == CHOOSE u \in own : Name[u] = n
                      IN [of |-> t, properties |-> Exported(t)]]

(* Building ends, for all types whose cycles pass through a named struct.  *)
Terminates == <>Done
=============================================================================
