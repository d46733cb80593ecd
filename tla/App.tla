--------------------------------- MODULE App ----------------------------------
(***************************************************************************)
(* An application as the packages' docs lay it out: the standard stack     *)
(* (Chain) around a router with the probes of health.Mount, an API under   *)
(* /api and, as the catch-all, spa.Handler over the built client's         *)
(* directory.                                                              *)
(*                                                                         *)
(* While a readiness probe runs, its dependencies come and go; while the   *)
(* client's handler looks, the directory may be replaced.  An API handler  *)
(* is Chain's: it does what net/http lets handlers do.                     *)
(***************************************************************************)
EXTENDS Chain

CONSTANTS Checks,            \* health.Mount's checks, in order
          Deadline,          \* health.DefaultTimeout, in ticks
          MaxClock,          \* bound: ticks a probe is watched for
          Build,             \* the builds of the client
          Files,             \* Files[b]: the paths of the files of build b
          Extended,          \* the paths with a file extension
          Dotted,            \* the paths whose last segment begins with a dot
          Immutable          \* the paths under spa.ImmutablePrefixes

NoBuild == "none"            \* the directory is empty, or not there
Index == <<"index.html">>

ASSUME AppAssumption == /\ Checks \in Seq(STRING)
                        /\ {Deadline, MaxClock} \subseteq Nat
                        /\ Deadline < MaxClock
                        /\ NoBuild \notin Build
                        /\ Files \in [Build -> SUBSET Path]

VARIABLES
  deps,        \* deps[c]: "up", "down" or "hung"
  heedless,    \* the checks that do not look at their context
  next,        \* the check the probe runs, 0 before the first
  clock,       \* ticks since the probe began
  due,         \* when the context of its checks expires
  gone,        \* was the request's own context cancelled: its client left
  client,      \* the build in the client's directory
  found        \* what spa.Handler found: "unknown", "file" or "nothing"

probe == <<deps, heedless, next, clock, due, gone>>
files == <<client, found>>
app == <<probe, files>>
avars == <<vars, app>>

AppInit == /\ Init
           /\ deps \in [ToSet(Checks) -> {"up", "down", "hung"}]
           /\ heedless \in SUBSET ToSet(Checks)
           /\ next = 0
           /\ clock = 0
           /\ due = 0
           /\ gone = FALSE
           /\ client \in Build \cup {NoBuild}
           /\ found = "unknown"

-----------------------------------------------------------------------------
(* The router.  A method a probe is not registered for falls through to    *)
(* the catch-all, which chi tries next.                                    *)
Handling == phase = "down" /\ Inner

IsLive  == req.method = "GET" /\ req.path \in {<<"health">>, <<"api", "health">>}
IsReady == req.method = "GET" /\ req.path \in {<<"ready">>, <<"api", "ready">>}
IsApi   == ~IsLive /\ ~IsReady /\ IsPrefix(<<"api">>, req.path)
IsSpa   == ~IsLive /\ ~IsReady /\ ~IsApi

(* A handler sets its headers, answers once and returns.                   *)
Respond(status, h, data) ==
  /\ header' = h
  /\ logged' = status
  /\ wire' = SentBody(Sent(wire, h, status), h, data)
  /\ phase' = "up"
  /\ UNCHANGED <<origins, req, remote, ctxId, at, records, ops>>

-----------------------------------------------------------------------------
(* health.Live and health.Ready. *)
Live ==
  /\ Handling /\ IsLive
  /\ Respond(200, AsJSON(header), "ok")
  /\ UNCHANGED app

Probing == Handling /\ IsReady /\ next # 0

(* One context with the deadline, derived from the request's, for all the  *)
(* checks.                                                                 *)
BeginProbe ==
  /\ Handling /\ IsReady /\ next = 0
  /\ next' = 1
  /\ due' = clock + Deadline
  /\ UNCHANGED <<vars, deps, heedless, clock, gone, files>>

(* (Wrong variant: every check gets a deadline of its own.) *)
FreshDue == clock + Deadline

Due == due

(* (Wrong variant: the checks are given a context that never ends.) *)
NeverExpired == FALSE

Expired == clock >= due \/ gone

(* A check that looks at its context passes only until it has expired, and *)
(* has failed before more time passes.                                     *)
Heeds == Checks[next] \notin heedless

Interrupted == Heeds /\ Expired

Passes ==
  /\ Probing /\ next <= Len(Checks)
  /\ deps[Checks[next]] = "up"
  /\ ~Interrupted
  /\ next' = next + 1
  /\ due' = Due
  /\ UNCHANGED <<vars, deps, heedless, clock, gone, files>>

(* The first error ends the probe.                                         *)
Fails ==
  /\ Probing /\ next <= Len(Checks)
  /\ deps[Checks[next]] = "down" \/ Interrupted
  /\ Respond(503, AsJSON(header), "not_ready")
  /\ UNCHANGED app

AllPassed ==
  /\ Probing /\ next > Len(Checks)
  /\ Respond(200, AsJSON(header), "ready")
  /\ UNCHANGED app

(* Time passes in a check that takes it: one that does not look at its     *)
(* context outlasts the deadline.                                          *)
Tick ==
  /\ Probing /\ next <= Len(Checks)
  /\ ~Interrupted
  /\ clock < MaxClock
  /\ clock' = clock + 1
  /\ UNCHANGED <<vars, deps, heedless, next, due, gone, files>>

(* The client gives up: net/http cancels the context of its request.       *)
Cancel ==
  /\ Probing /\ ~gone
  /\ gone' = TRUE
  /\ UNCHANGED <<vars, deps, heedless, next, clock, due, files>>

(* A dependency changes while it is being checked.                         *)
Change(c, state) ==
  /\ Probing
  /\ deps[c] # state
  /\ deps' = [deps EXCEPT ![c] = state]
  /\ UNCHANGED <<vars, heedless, next, clock, due, gone, files>>

-----------------------------------------------------------------------------
(* spa.Handler.                                                            *)
Exists(path) == client # NoBuild /\ path \in Files[client]

Text(h) == [h EXCEPT !["Content-Type"] = "text/plain"]

MethodNotAllowed ==
  /\ Handling /\ IsSpa
  /\ req.method \notin {"GET", "HEAD"}
  /\ Respond(405, Text(header), "text")
  /\ UNCHANGED app

Reading == Handling /\ IsSpa /\ req.method \in {"GET", "HEAD"}

HiddenFile ==
  /\ Reading
  /\ req.path \in Dotted
  /\ Respond(404, Text(header), "text")
  /\ UNCHANGED app

CachePolicy == IF req.path \in Immutable THEN "immutable" ELSE "must-revalidate"

(* Is there such a file?  It is opened, looked at and closed.              *)
Look ==
  /\ Reading /\ found = "unknown"
  /\ req.path \notin Dotted
  /\ found' = IF Exists(req.path) THEN "file" ELSE "nothing"
  /\ header' = IF Exists(req.path) THEN [header EXCEPT !["Cache-Control"] = CachePolicy] ELSE header
  /\ UNCHANGED <<origins, req, remote, ctxId, at, phase, wire, logged, records, ops, probe, client>>

(* http.FileServer opens it again, by its name.  It redirects the index    *)
(* document to its directory, and takes the cache policy back when it      *)
(* finds nothing.                                                          *)
PolicyTakenBack == [Text(header) EXCEPT !["Cache-Control"] = Absent]

ServeFile ==
  /\ Reading /\ found = "file"
  /\ CASE req.path = Index -> Respond(301, header, "redirect")
       [] req.path # Index /\ Exists(req.path) ->
            Respond(200, [header EXCEPT !["Content-Type"] = "by extension"], "file")
       [] OTHER -> Respond(404, PolicyTakenBack, "text")
  /\ UNCHANGED app

(* (Wrong variant: whatever is not found is a client-side route.) *)
AnyPath == TRUE

ClientRoute == req.path \notin Extended

Missing ==
  /\ Reading /\ found = "nothing"
  /\ ~ClientRoute \/ ~Exists(Index)
  /\ Respond(404, Text(header), "text")
  /\ UNCHANGED app

(* The history fallback, from the file opened here.                        *)
AsShell == [header EXCEPT !["Cache-Control"] = "no-cache", !["Content-Type"] = "text/html"]

Fallback ==
  /\ Reading /\ found = "nothing"
  /\ ClientRoute
  /\ Exists(Index)
  /\ Respond(200, AsShell, "shell")
  /\ UNCHANGED app

(* The directory is replaced while the handler looks.                      *)
Replace(b) ==
  /\ Reading
  /\ client # b
  /\ client' = b
  /\ UNCHANGED <<vars, probe, found>>

-----------------------------------------------------------------------------
Handler == \/ Live \/ BeginProbe \/ Passes \/ Fails \/ AllPassed
           \/ MethodNotAllowed \/ HiddenFile \/ Look \/ ServeFile \/ Missing \/ Fallback
           \/ IsApi /\ UNCHANGED app /\ (\/ \E s \in Statuses : WriteHeader(s)
                                        \/ Write \/ Flush \/ Return \/ Abort)

Stack == /\ \/ RequestID \/ Recoverer \/ SecurityHeaders \/ RealIP \/ CORS \/ RequestLogger
            \/ LogRequest \/ ReturnEarly \/ Recover \/ Repanic
         /\ UNCHANGED app

(* A panic of the middlewares, the API or a check; the client's handler    *)
(* returns its errors.                                                     *)
Environment == \/ \E c \in ToSet(Checks), state \in {"up", "down", "hung"} : Change(c, state)
               \/ \E b \in Build \cup {NoBuild} : Replace(b)
               \/ Cancel
               \/ Panic /\ ~(Handling /\ IsSpa) /\ UNCHANGED app

AppNext == Stack \/ Handler \/ Tick \/ Environment

AppSpec == AppInit /\ [][AppNext]_avars

(* The server runs its handlers and time passes; nothing else must happen. *)
Fairness == WF_avars(Stack \/ Handler) /\ WF_avars(Tick)

FairSpec == AppSpec /\ Fairness

-----------------------------------------------------------------------------
(* A request is answered or dropped in the end: a probe too, whatever      *)
(* hangs, when its checks look at their context.  (health/health.go:46: a  *)
(* check that does not can hold the probe for as long as it likes.)        *)
Answered == (IsReady => heedless = {}) => <>(phase \in {"done", "dropped"})

(* The history fallback is for pages: the shell is not sent for a file, a  *)
(* probe, the API or a write, and whatever is missing is an error that no  *)
(* cache keeps, also when the directory is replaced under the handler.     *)
Sends(h, value) == wire.status # 0 /\ wire.header[h] = value

ShellOnlyForPages ==
  /\ Sends("Content-Type", "text/html") =>
       /\ req.method \in {"GET", "HEAD"} /\ req.path \notin Extended \cup Dotted
       /\ wire.status = 200 /\ Sends("Cache-Control", "no-cache")
       /\ req.method = "GET" => ~IsPrefix(<<"api">>, req.path) /\ Classify(req.path) # "health"
  /\ Sends("Cache-Control", "immutable") =>
       wire.status = 200 /\ req.path \in Immutable \cap UNION {Files[b] : b \in Build}
=============================================================================
