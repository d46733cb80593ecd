------------------------------- MODULE Coverage -------------------------------
(***************************************************************************)
(* The drift test of a route registry (apiref/coverage.go): Undocumented   *)
(* walks a router and reports the routes that the registry, from which     *)
(* OpenApi makes the document, does not name.  A path is the sequence of   *)
(* its segments; a trailing slash is a segment of its own.                 *)
(***************************************************************************)
EXTENDS OpenApi, SequencesExt

CONSTANTS Constrained,       \* Constrained[s]: the plain parameter of a segment such as {id:[0-9]+}
          Starred,           \* the segments that contain a "*", at whatever place
          Servers,           \* Config.Servers, as paths
          Ignored,           \* the prefixes the test ignores besides, none of them "/"
          Applications       \* what is tried: [fields, registry, router]

VARIABLE router              \* the routes of the application: [method, path]

cvars == <<vars, router>>

Slash == "/"
BasePath == <<"docs">>
SpecPath == <<"docs", "openapi.json">>
Probes == {<<"health">>, <<"ready">>, <<"api", "health">>, <<"api", "ready">>}

Plainly(s) == IF s \in DOMAIN Constrained THEN Constrained[s] ELSE s

Normalize(p) ==
  LET q == [i \in DOMAIN p |-> Plainly(p[i])]
  IN IF q # <<>> /\ Last(q) = Slash THEN Front(q) ELSE q

(* path.Join: lone slashes go.                                             *)
Join(server, p) ==
  LET q == server \o p
      kept[n \in 0..Len(q)] == IF n = 0 THEN <<>>
                               ELSE IF q[n] = Slash THEN kept[n - 1]
                               ELSE Append(kept[n - 1], q[n])
  IN kept[Len(q)]

Documented ==
  UNION {{<<registry[i].method, Normalize(registry[i].path)>>}
           \cup {<<registry[i].method, Normalize(Join(s, registry[i].path))>> : s \in Servers} :
         i \in DOMAIN registry}

HasStar(p) == \E i \in DOMAIN p : p[i] \in Starred

(* (Wrong variant: the first segment decides.) *)
SkipFirstSegment(p, prefixes) ==
  HasStar(p) \/ \E q \in prefixes : p # <<>> /\ Head(q) = Head(p)

SkipRoute(p, prefixes) == HasStar(p) \/ \E q \in prefixes : IsPrefix(q, p)

Skipped == {BasePath} \cup Probes \cup Ignored

Undocumented ==
  {r \in router : LET p == Normalize(r.path) IN
     ~SkipRoute(p, Skipped) /\ <<r.method, p>> \notin Documented}

(* A path as a document writes it: no pattern and no slash at the end.     *)
Plainest(p) == p \in Seq(STRING) /\ \A i \in DOMAIN p : p[i] \notin {Slash} \cup DOMAIN Constrained

ASSUME CoverageAssumption ==
  /\ \A s \in DOMAIN Constrained :
       s # Slash /\ Constrained[s] \in STRING \ ({Slash} \cup Starred)
  /\ Slash \notin Starred
  /\ \A p \in Servers \cup Skipped : Plainest(p)
  /\ \A a \in Applications :
       /\ a.fields \in Fields /\ a.registry \in Registries
       /\ \A i \in DOMAIN a.registry : Plainest(a.registry[i].path)
       /\ \A r \in a.router : r.path \in Seq(STRING)

(* The drift test follows the making of the document.                      *)
CoverInit ==
  Begin /\ \E a \in Applications : fields = a.fields /\ registry = a.registry /\ router = a.router

CoverNext == Next /\ UNCHANGED router

CoverSpec == CoverInit /\ [][CoverNext]_cvars

FairCoverSpec == CoverSpec /\ WF_cvars(CoverNext)

-----------------------------------------------------------------------------
(* The router's segment t is the document's s: chi may constrain it.       *)
Same(s, t) == s = t \/ (t \in DOMAIN Constrained /\ s = Constrained[t])

(* The router's p begins with the document's q, and is it, but for a slash *)
(* at the end.                                                             *)
Begins(q, p) == Len(q) <= Len(p) /\ \A i \in DOMAIN q : Same(q[i], p[i])

Names(q, p) ==
  Begins(q, p) /\ (Len(p) = Len(q) \/ (Len(p) = Len(q) + 1 /\ Last(p) = Slash))

(* Where the document says a route is: under its path, relative to where   *)
(* the router is mounted or to one of the servers.                         *)
InDocument(r) ==
  \E op \in paths, s \in Servers \cup {<<>>} : op[2] = r.method /\ Names(s \o op[1], r.path)

(* What the drift test leaves alone: "the reference page, the health       *)
(* probes and any wildcard route", with what is below them, and the        *)
(* application's own exceptions.  A star in a parameter's pattern is no    *)
(* wildcard.                                                               *)
Reserved(r) ==
  \/ \E i \in DOMAIN r.path : r.path[i] \in Starred \ DOMAIN Constrained
  \/ \E q \in {BasePath, SpecPath} \cup Probes \cup Ignored : Begins(q, r.path)

(* The drift test reports what it should: the routes of the application    *)
(* that the document, made from the same registry, does not hold, except   *)
(* those it leaves alone, and no other.                                    *)
ReportsDrift == Done => Undocumented = {r \in router : ~InDocument(r) /\ ~Reserved(r)}
=============================================================================
