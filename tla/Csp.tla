---------------------------------- MODULE Csp ----------------------------------
(***************************************************************************)
(* The content security policy of one response, on its way through the     *)
(* layers that write it: SecurityHeaders for the whole app                 *)
(* (middleware/security.go, policy.go), SecurityOverride once for every    *)
(* group and route below it (override.go), and other middlewares that add  *)
(* policies of their own.                                                  *)
(*                                                                         *)
(* A policy is a function from directive names to sets of sources; the     *)
(* order of both is layout.  A header is the sequence of its values, as a  *)
(* browser applies every policy it finds, each tagged with who wrote it    *)
(* (the tag is not in the program).  Of the default policy, script-src     *)
(* stands for the directives the framing policy does not contain.          *)
(***************************************************************************)
EXTENDS Integers, SequencesExt

CONSTANTS AppLayers,     \* the configurations of SecurityHeaders to try
          RouteLayers,   \* the configurations of SecurityOverride to try
          MaxOverrides,  \* bound: nested SecurityOverrides
          ForeignPolicies, \* the policies of other middlewares
          MaxForeign,    \* bound: values other middlewares add
          Mixed          \* does another middleware write where a layer takes its
                         \* policy for the chassis's: in front of SecurityHeaders,
                         \* or a reported one below an enforcing chassis

ASSUME CspAssumption == /\ MaxOverrides \in Nat /\ MaxForeign \in Nat
                        /\ Mixed \in BOOLEAN

VARIABLES
  enforced,    \* the values of Content-Security-Policy
  reportOnly,  \* the values of Content-Security-Policy-Report-Only
  frameDeny,   \* is X-Frame-Options: DENY set
  granted,     \* the features Permissions-Policy grants
  opener,      \* Cross-Origin-Opener-Policy, Unset before the chassis ran
  layers       \* the configurations applied so far (not in the program)

vars == <<enforced, reportOnly, frameDeny, granted, opener, layers>>

None == "'none'"
Unset == "unset"
FramingNames == {"frame-ancestors", "object-src", "base-uri"}

DefaultCSP == [name \in FramingNames \cup {"script-src"} |->
                 IF name \in {"frame-ancestors", "object-src"} THEN {None} ELSE {"'self'"}]

Sources(extra, name) == IF name \in DOMAIN extra THEN extra[name] ELSE {}

Chassis(policy) == [by |-> "chassis", policy |-> policy]
Foreign(policy) == [by |-> "foreign", policy |-> policy]

Init == /\ enforced = <<>> /\ reportOnly = <<>>
        /\ frameDeny = FALSE
        /\ granted = {}
        /\ opener = Unset
        /\ layers = <<>>

-----------------------------------------------------------------------------
(* policy.go *)

(* mergeSources: sources extend a directive and replace a lone 'none'. *)
MergeSources(defaults, extra) ==
  IF extra = {} THEN defaults
                ELSE (IF defaults = {None} THEN {} ELSE defaults) \cup extra

(* extendDirectives.  (Wrong variant: the framing policy grows too.) *)
ExtendAlways(policy, extra, addNew) ==
  [name \in DOMAIN policy \cup DOMAIN extra |->
     MergeSources(Sources(policy, name), Sources(extra, name))]

ExtendDirectives(policy, extra, addNew) ==
  [name \in DOMAIN policy \cup (IF addNew THEN DOMAIN extra ELSE {}) |->
     MergeSources(Sources(policy, name), Sources(extra, name))]

(* framingPolicy *)
FramingPolicy(policy) == [name \in DOMAIN policy \cap FramingNames |-> policy[name]]

(* framingOpened.  (Wrong variant: any source opens it, 'none' included.) *)
AnySource(extra) == Sources(extra, "frame-ancestors") # {}

FramingOpened(extra) == \E source \in Sources(extra, "frame-ancestors") : source # None

(* permissions.go: the features a policy grants, and the opener policy.    *)
GrantFeatures(policy, allow) == policy \cup allow

OpenerPolicy(value) == IF value = Unset THEN "same-origin" ELSE value

-----------------------------------------------------------------------------
(* The middlewares. *)

(* setIfAbsent: a value that is there already stays the only one.          *)
SetIfAbsent(header, policy) == IF header = <<>> THEN <<Chassis(policy)>> ELSE header

(* SecurityHeaders: cspHeaders, and the three headers nobody else writes.  *)
SecurityHeaders(cfg) ==
  /\ layers = <<>>
  /\ LET full == ExtendDirectives(DefaultCSP, cfg.sources, TRUE)
     IN  IF cfg.enforce
           THEN enforced' = SetIfAbsent(enforced, full) /\ UNCHANGED reportOnly
           ELSE /\ enforced' = SetIfAbsent(enforced, FramingPolicy(full))
                /\ reportOnly' = SetIfAbsent(reportOnly, full)
  /\ frameDeny' = ~FramingOpened(cfg.sources)
  /\ granted' = GrantFeatures({}, cfg.allow)
  /\ opener' = OpenerPolicy(cfg.opener)
  /\ layers' = <<cfg>>

(* Where a header's values are another middleware's. *)
OthersAt(header) == {i \in DOMAIN header : header[i].by = "foreign"}

(* Another middleware, below the chassis or in front of it, adds a policy  *)
(* of its own.                                                             *)
AddForeign(policy) ==
  /\ Mixed \/ layers # <<>>
  /\ Cardinality(OthersAt(enforced)) + Cardinality(OthersAt(reportOnly)) < MaxForeign
  /\ \/ enforced' = Append(enforced, Foreign(policy)) /\ UNCHANGED reportOnly
     \/ reportOnly' = Append(reportOnly, Foreign(policy)) /\ UNCHANGED enforced
  /\ UNCHANGED <<frameDeny, granted, opener, layers>>

(* extendFirst *)
ExtendFirst(header, extra, addNew) ==
  IF header = <<>> THEN header
  ELSE <<[header[1] EXCEPT !.policy = ExtendDirectives(@, extra, addNew)]>> \o Tail(header)

(* (Wrong variant: the reported policy replaces every enforced one.) *)
PromoteOverAll(full) == <<full>>

Promote(full) == <<full>> \o (IF enforced = <<>> THEN <<>> ELSE Tail(enforced))

(* applyCSP: the policy to extend is the first value of the report-only    *)
(* header while there is one, else the first enforced one.                 *)
ApplyCSP(cfg) ==
  IF reportOnly = <<>>
    THEN /\ enforced' = ExtendFirst(enforced, cfg.sources, TRUE)
         /\ UNCHANGED reportOnly
    ELSE LET extended == ExtendFirst(reportOnly, cfg.sources, TRUE)
         IN  IF cfg.enforce
               THEN /\ reportOnly' = Tail(reportOnly)
                    /\ enforced' = Promote(extended[1])
               ELSE /\ reportOnly' = extended
                    /\ enforced' = ExtendFirst(enforced, cfg.sources, FALSE)

SecurityOverride(cfg) ==
  /\ layers # <<>>
  /\ Len(layers) <= MaxOverrides
  /\ ApplyCSP(cfg)
  /\ frameDeny' = (frameDeny /\ ~FramingOpened(cfg.sources))
  /\ granted' = GrantFeatures(granted, cfg.allow)
  /\ opener' = IF cfg.opener = Unset THEN opener ELSE cfg.opener
  /\ layers' = Append(layers, cfg)

Enforcing == \E i \in DOMAIN layers : layers[i].enforce

(* Where the application mounts an override. *)
Mounted == Mixed \/ ~Enforcing \/ OthersAt(reportOnly) = {}

Next == \/ \E cfg \in AppLayers : SecurityHeaders(cfg)
        \/ \E policy \in ForeignPolicies : AddForeign(policy)
        \/ \E cfg \in RouteLayers : Mounted /\ SecurityOverride(cfg)

Spec == Init /\ [][Next]_vars

-----------------------------------------------------------------------------
(* What a browser makes of a source list: 'none' counts only alone. *)
Effective(sources) == IF sources = {None} THEN {None} ELSE sources \ {None}

Applied(name) == UNION {Sources(layers[i].sources, name) : i \in DOMAIN layers}

Wanted(name) == Sources(DefaultCSP, name) \cup Applied(name)

Named == DOMAIN DefaultCSP \cup UNION {DOMAIN layers[i].sources : i \in DOMAIN layers}

(* However many layers there are and in whatever order, the full policy    *)
(* is the default extended by all of them: enforced once any layer asked   *)
(* for it, reported before, with the enforced policy then its framing part *)
(* and no more.                                                            *)
IsSum(policy, names) ==
  /\ DOMAIN policy = names
  /\ \A name \in names : Effective(policy[name]) = Effective(Wanted(name))

PolicyAddsUp ==
  layers # <<>> =>
    IF Enforcing
      THEN IsSum(enforced[1].policy, Named)
      ELSE /\ IsSum(enforced[1].policy, FramingNames)
           /\ IsSum(reportOnly[1].policy, Named)

(* The opener policy is the last one a layer set.                          *)
IsLastOpener ==
  \/ opener = "same-origin" /\ \A i \in DOMAIN layers : layers[i].opener = Unset
  \/ \E i \in DOMAIN layers :
       /\ opener = layers[i].opener /\ opener # Unset
       /\ \A j \in DOMAIN layers : j > i => layers[j].opener = Unset

(* What a response carries is the sum of its layers: the policy is, every  *)
(* feature any layer allowed is granted and no other, and a layer that     *)
(* says nothing of the opener policy leaves it to the layers around it.    *)
LayersAddUp ==
  /\ PolicyAddsUp
  /\ layers # <<>> => /\ granted = UNION {layers[i].allow : i \in DOMAIN layers}
                      /\ IsLastOpener

(* X-Frame-Options, which a browser without frame-ancestors obeys, says    *)
(* what the enforced frame-ancestors says, whichever layer opened it.      *)
FramingAgrees ==
  layers # <<>> =>
    (frameDeny <=> Effective(enforced[1].policy["frame-ancestors"]) = {None})

(* Every value of another middleware is in the next header as it was, with *)
(* the same ones of them before it.                                        *)
Kept(header, next) ==
  \E at \in [OthersAt(header) -> OthersAt(next)] :
    \A i \in OthersAt(header) :
      /\ next[at[i]] = header[i]
      /\ \A j \in OthersAt(next) :
           j < at[i] <=> \E h \in OthersAt(header) : h < i /\ at[h] = j

(* override.go:89: "Only the first value of each header is the chassis's;  *)
(* any further value another middleware added is kept as it is": no step   *)
(* loses one, changes one, reorders them or moves one to the other header. *)
ForeignKept ==
  [][Kept(enforced, enforced') /\ Kept(reportOnly, reportOnly')]_vars
=============================================================================
