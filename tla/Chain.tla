-------------------------------- MODULE Chain --------------------------------
(***************************************************************************)
(* One request on its way through the standard middleware stack            *)
(* (httpx/router.go, Chain and NewRouter) and back: RequestID, Recoverer,  *)
(* SecurityHeaders, RealIP, CORS and RequestLogger around a handler that   *)
(* does what net/http lets handlers do.                                    *)
(*                                                                         *)
(* The response is net/http's: headers can be changed until the first      *)
(* final WriteHeader or Write commits them, a later WriteHeader is         *)
(* ignored, an informational one (1xx) commits nothing, and a handler that *)
(* returns without writing has answered 200.                               *)
(***************************************************************************)
EXTENDS Integers, Sequences, SequencesExt

CONSTANTS MaxOps,            \* bound: response operations of the handler
          Statuses,          \* what the handler passes to WriteHeader
          Configured,        \* the CORSConfig.AllowedOrigins to try
          APIPrefix,         \* RequestLoggerConfig.APIPrefix, by its segments
          Path,              \* URL paths, by their segments
          Arriving           \* the requests that arrive

VARIABLES
  origins,     \* CORSConfig.AllowedOrigins; CORS is mounted when it is not empty
  req,         \* the request, as the network delivered it
  remote,      \* request.RemoteAddr as the next middleware sees it
  ctxId,       \* the id RequestID put into the context, Absent before it ran
  at,          \* how many middlewares were entered; after them the handler
  phase,       \* "down", "up" (returning), "panic", "abort", "done", "dropped"
  header,      \* w.Header(): header[h] is Absent when h is
  wire,        \* what was sent: status (0: nothing yet), header, body
  logged,      \* loggingResponseWriter.status
  records,     \* the log: one entry per record
  ops          \* the response operations of the handler so far, in order

vars == <<origins, req, remote, ctxId, at, phase, header, wire, logged, records, ops>>

Absent == "absent"

Origins == {Absent, "https://app", "https://other"}

(* The edge proxy appends the visitor's scheme to X-Forwarded-Proto; who   *)
(* connects directly writes what it likes and is seen to use TLS or not.   *)
Requests == [method : {"GET", "HEAD", "OPTIONS"}, path : Path, origin : Origins,
             rid : {Absent, "well-formed", "malformed"},
             peer : {"proxy", "visitor"}, scheme : {"http", "https"},
             claimed : {<<>>, <<"https">>}]

(* The security headers that every configuration sets.  The ones that      *)
(* depend on it, X-Frame-Options and the reported policy, are Csp's.       *)
Static == {"Content-Security-Policy", "X-Content-Type-Options", "Referrer-Policy",
           "Permissions-Policy", "Cross-Origin-Opener-Policy"}

HeaderName == Static \cup
              {"X-Request-Id", "Strict-Transport-Security", "Access-Control-Allow-Origin",
               "Vary", "Content-Type", "Cache-Control"}

ASSUME ChainAssumption == /\ MaxOps \in Nat
                          /\ Statuses \subseteq 100..599
                          /\ Arriving \subseteq Requests

NoHeader == [h \in HeaderName |-> Absent]

Init == /\ origins \in Configured
        /\ req \in Arriving
        /\ remote = req.peer
        /\ ctxId = Absent
        /\ at = 0
        /\ phase = "down"
        /\ header = NoHeader
        /\ wire = [status |-> 0, header |-> NoHeader, body |-> <<>>]
        /\ logged = 0
        /\ records = <<>>
        /\ ops = <<>>

(* The wrong variants of the order are those the code comments warn of. *)
RealIPFirst ==
  <<"RequestID", "Recoverer", "RealIP", "SecurityHeaders", "CORS", "RequestLogger">>
RecovererInnermost ==
  <<"RequestID", "SecurityHeaders", "RealIP", "CORS", "RequestLogger", "Recoverer">>
RequestIDInside ==
  <<"Recoverer", "RequestID", "SecurityHeaders", "RealIP", "CORS", "RequestLogger">>

(* Chain and NewRouter: the outermost first. *)
Order == <<"RequestID", "Recoverer", "SecurityHeaders", "RealIP", "CORS", "RequestLogger">>

Entered(m) == \E i \in 1..at : Order[i] = m
Inner == at = Len(Order)

-----------------------------------------------------------------------------
(* net/http's ResponseWriter, external to the repository. *)

Informational(status) == status \in 100..199 \ {101}

Sent(w, h, status) == IF w.status # 0 \/ Informational(status) THEN w
                      ELSE [status |-> status, header |-> h, body |-> w.body]

SentBody(w, h, data) == [Sent(w, h, 200) EXCEPT !.body = Append(@, data)]

-----------------------------------------------------------------------------
(* The middlewares, on the way down. *)

Enter(m) == /\ phase = "down"
            /\ ~Inner
            /\ Order[at + 1] = m
            /\ at' = at + 1

(* acceptRequestID: a caller's id is kept when it is well formed.          *)
SettledId == IF req.rid = "well-formed" THEN "well-formed" ELSE "minted"

RequestID ==
  /\ Enter("RequestID")
  /\ ctxId' = SettledId
  /\ header' = [header EXCEPT !["X-Request-Id"] = SettledId]
  /\ UNCHANGED <<origins, req, remote, phase, wire, logged, records, ops>>

Recoverer ==
  /\ Enter("Recoverer")
  /\ UNCHANGED <<origins, req, remote, ctxId, phase, header, wire, logged, records, ops>>

(* IsHTTPS: TLS on the connection itself, or the last X-Forwarded-Proto    *)
(* entry when the peer, as RemoteAddr names it, is a trusted proxy.        *)
ForwardedProto == IF req.peer = "proxy" THEN Append(req.claimed, req.scheme) ELSE req.claimed

IsHTTPS == \/ req.peer = "visitor" /\ req.scheme = "https"
           \/ remote = "proxy" /\ ForwardedProto # <<>> /\ Last(ForwardedProto) = "https"

SetIfAbsent(h, name, value) == IF h[name] = Absent THEN [h EXCEPT ![name] = value] ELSE h

WithStatic(h) == [name \in HeaderName |-> IF name \in Static /\ h[name] = Absent
                                            THEN "suite" ELSE h[name]]

SecurityHeaders ==
  /\ Enter("SecurityHeaders")
  /\ header' = IF IsHTTPS THEN SetIfAbsent(WithStatic(header), "Strict-Transport-Security", "suite")
                          ELSE WithStatic(header)
  /\ UNCHANGED <<origins, req, remote, ctxId, phase, wire, logged, records, ops>>

(* RealIP replaces the address of a trusted peer by the visitor's. *)
RealIP ==
  /\ Enter("RealIP")
  /\ remote' = "visitor"
  /\ UNCHANGED <<origins, req, ctxId, phase, header, wire, logged, records, ops>>

(* CORS, a step that does nothing when no origin is configured, as it is   *)
(* not mounted then.  A request without Origin passes; a foreign one       *)
(* passes undecorated unless it is a preflight; preflights are answered    *)
(* here.  (Wrong variant: whoever names an origin is allowed.)             *)
Wildcard == "*" \in origins

AnyOrigin == origins # {}

Allowed == Wildcard \/ req.origin \in origins

Decorated ==
  [header EXCEPT !["Vary"] = "Origin",
                 !["Access-Control-Allow-Origin"] = IF Wildcard THEN "*" ELSE req.origin]

CORS ==
  /\ Enter("CORS")
  /\ header' = IF req.origin # Absent /\ Allowed THEN Decorated ELSE header
  /\ IF origins # {} /\ req.origin # Absent /\ req.method = "OPTIONS"
       THEN /\ wire' = Sent(wire, header', IF Allowed THEN 204 ELSE 403)
            /\ phase' = "up"
       ELSE UNCHANGED <<wire, phase>>
  /\ UNCHANGED <<origins, req, remote, ctxId, logged, records, ops>>

RequestLogger ==
  /\ Enter("RequestLogger")
  /\ logged' = 0
  /\ UNCHANGED <<origins, req, remote, ctxId, phase, header, wire, records, ops>>

-----------------------------------------------------------------------------
(* The handler: a few response operations, then it returns or panics.      *)
(* ops holds the statuses it passed to WriteHeader, and for the others:    *)
WriteOp == 0
FlushOp == 1

Operate(op) == /\ phase = "down" /\ Inner
               /\ Len(ops) < MaxOps
               /\ ops' = Append(ops, op)

(* The handler's WriteHeader and Write go through loggingResponseWriter.   *)
WriteHeader(status) ==
  /\ Operate(status)
  /\ logged' = status
  /\ wire' = Sent(wire, header, status)
  /\ UNCHANGED <<origins, req, remote, ctxId, at, phase, header, records>>

Write ==
  /\ Operate(WriteOp)
  /\ logged' = IF logged = 0 THEN 200 ELSE logged
  /\ wire' = SentBody(wire, header, "handler")
  /\ UNCHANGED <<origins, req, remote, ctxId, at, phase, header, records>>

(* Flush is passed on, and commits the response behind the writer's back. *)
Flush ==
  /\ Operate(FlushOp)
  /\ wire' = Sent(wire, header, 200)
  /\ UNCHANGED <<origins, req, remote, ctxId, at, phase, header, logged, records>>

Return ==
  /\ phase = "down"
  /\ Inner
  /\ phase' = "up"
  /\ UNCHANGED <<origins, req, remote, ctxId, at, header, wire, logged, records, ops>>

(* A panic in the handler, in CORS or in the logger (on either way)        *)
(* unwinds the stack.                                                      *)
Panic ==
  /\ \/ phase = "down" /\ Entered("CORS")
     \/ phase = "up" /\ Entered("RequestLogger")
  /\ phase' = "panic"
  /\ UNCHANGED <<origins, req, remote, ctxId, at, header, wire, logged, records, ops>>

(* panic(http.ErrAbortHandler): the handler gives up on the response. *)
Abort ==
  /\ phase = "down"
  /\ Inner
  /\ phase' = "abort"
  /\ UNCHANGED <<origins, req, remote, ctxId, at, header, wire, logged, records, ops>>

-----------------------------------------------------------------------------
(* The way back. *)

(* (Wrong variant: the status default of a silent handler is dropped.) *)
RawStatus == logged

RecordedStatus == IF logged = 0 THEN 200 ELSE logged

(* Classify: probes and static files are quiet.                            *)
Classify(path) ==
  CASE path \in {<<"health">>, <<"ready">>, APIPrefix \o <<"health">>, APIPrefix \o <<"ready">>} -> "health"
    [] OTHER -> IF IsPrefix(APIPrefix, path) THEN "api" ELSE "static"

(* (Wrong variant: quiet requests stay quiet when they fail.) *)
QuietFirst == IF Classify(req.path) # "api" THEN "debug"
              ELSE IF RecordedStatus >= 500 THEN "error" ELSE "info"

Level == IF RecordedStatus >= 500 THEN "error"
         ELSE IF Classify(req.path) = "api" THEN "info" ELSE "debug"

(* RequestLogger, after the handler returned. *)
LogRequest ==
  /\ phase = "up"
  /\ Entered("RequestLogger")
  /\ records' = Append(records, [msg |-> "http request", id |-> ctxId,
                                 level |-> Level, status |-> RecordedStatus])
  /\ wire' = Sent(wire, header, 200)
  /\ phase' = "done"
  /\ UNCHANGED <<origins, req, remote, ctxId, at, header, logged, ops>>

(* A request CORS answered never reached the logger. *)
ReturnEarly ==
  /\ phase = "up"
  /\ ~Entered("RequestLogger")
  /\ phase' = "done"
  /\ UNCHANGED <<origins, req, remote, ctxId, at, header, wire, logged, records, ops>>

(* Recoverer's deferred function logs the id its own request carries.      *)
KnownId == IF Order[1] = "RequestID" THEN ctxId ELSE Absent

(* (Wrong variants: the panic is not logged; aborts are answered as well.) *)
NoPanicRecord == <<>>

PanicRecord == <<[msg |-> "panic recovered", id |-> KnownId, level |-> "error", status |-> 500]>>

AnyPanic == {"panic", "abort"}

Recoverable == {"panic"}

(* httpjson.WriteError: WriteHeader(500), the status of errors.Internal,   *)
(* and the envelope.                                                       *)
AsJSON(h) == [h EXCEPT !["Content-Type"] = "application/json"]

Recover ==
  /\ phase \in Recoverable
  /\ Entered("Recoverer")
  /\ records' = records \o PanicRecord
  /\ header' = AsJSON(header)
  /\ wire' = SentBody(Sent(wire, header', 500), header', "envelope")
  /\ phase' = "done"
  /\ UNCHANGED <<origins, req, remote, ctxId, at, logged, ops>>

(* http.ErrAbortHandler is re-panicked; net/http drops the connection, as  *)
(* it does when a panic meets no Recoverer.                                *)
Repanic ==
  /\ phase \in AnyPanic
  /\ phase \notin Recoverable \/ ~Entered("Recoverer")
  /\ phase' = "dropped"
  /\ UNCHANGED <<origins, req, remote, ctxId, at, header, wire, logged, records, ops>>

Next == \/ RequestID \/ Recoverer \/ SecurityHeaders \/ RealIP \/ CORS \/ RequestLogger
        \/ \E s \in Statuses : WriteHeader(s)
        \/ Write \/ Flush \/ Return \/ Panic \/ Abort
        \/ LogRequest \/ ReturnEarly \/ Recover \/ Repanic

Spec == Init /\ [][Next]_vars

-----------------------------------------------------------------------------
(* The type invariant.  Whatever id the caller sent, the one in the        *)
(* context is well formed or minted here.                                  *)
TypeOK ==
  /\ req \in Requests
  /\ remote \in {"proxy", "visitor"}
  /\ ctxId \in {Absent, "well-formed", "minted"}
  /\ at \in 0..Len(Order)
  /\ phase \in {"down", "up", "panic", "abort", "done", "dropped"}
  /\ DOMAIN header = HeaderName
  /\ wire.status \in 0..599
  /\ logged \in 0..599
  /\ Len(records) <= 2
  /\ ops \in Seq(Statuses \cup {WriteOp, FlushOp})

(* One id names the request everywhere: in what was sent, whoever answered *)
(* it, in the request record and in the panic record; it is minted here    *)
(* unless the caller's is well formed.                                     *)
OneIdEverywhere ==
  /\ ctxId # "malformed"
  /\ wire.status # 0 => wire.header["X-Request-Id"] = ctxId /\ ctxId # Absent
  /\ \A i \in DOMAIN records : records[i].id = ctxId

(* Every response carries the security headers, the ones CORS and          *)
(* Recoverer write included, and HSTS exactly when the visitor used HTTPS, *)
(* although RealIP replaces the address that decision is made on.          *)
Secured ==
  wire.status # 0 =>
    /\ \A name \in Static : wire.header[name] # Absent
    /\ wire.header["Strict-Transport-Security"] # Absent <=> req.scheme = "https"

(* A panic anywhere below Recoverer is answered, with a 500 and the        *)
(* envelope alone if nothing was sent before it; a status that was sent is *)
(* not replaced.                                                           *)
PanicIsAnswered ==
  [][phase = "panic" /\ phase' # phase =>
       /\ phase' = "done"
       /\ IF wire.status = 0 THEN wire'.status = 500 /\ wire'.body = <<"envelope">>
                             ELSE wire'.status = wire.status]_vars

(* An aborted response is dropped as it is: no envelope is appended to it  *)
(* and no panic is reported.                                               *)
AbortIsSilent ==
  [][phase = "abort" /\ phase' # phase =>
       phase' = "dropped" /\ UNCHANGED <<wire, records>>]_vars

(* A request that was answered is in the log exactly once, as a request or *)
(* as a panic; preflights, which CORS answers above the logger, are not.   *)
LoggedOnce ==
  phase = "done" => Len(records) = IF Entered("RequestLogger") \/ wire.body # <<>> THEN 1 ELSE 0

(* The recorded status of a handler that settles on one final status, or   *)
(* on none, is the one that was sent.                                      *)
SingleStatus ==
  \A i \in DOMAIN ops : ops[i] \in Statuses => i = 1 /\ ~Informational(ops[i])

StatusOfCleanHandler ==
  \A i \in DOMAIN records :
    records[i].msg = "http request" /\ SingleStatus => records[i].status = wire.status

(* A request that failed on the server, a probe and a static file as well, *)
(* has a record at level error, which no level an application runs at      *)
(* leaves out.                                                             *)
NoFailureIsQuiet ==
  phase = "done" /\ wire.status >= 500 /\ SingleStatus =>
    \E i \in DOMAIN records : records[i].level = "error"

(* A cross-origin script may read the response exactly when its origin is  *)
(* configured, also when the response is Recoverer's.                      *)
ReadableByAllowed ==
  wire.status # 0 /\ Entered("CORS") /\ req.origin # Absent =>
    (wire.header["Access-Control-Allow-Origin"] \in {"*", req.origin}
       <=> origins \cap {"*", req.origin} # {})

(* docs/architecture.md:65: RequestLogger "runs the handler, then writes   *)
(* exactly one record".                                                    *)
OneRequestRecord ==
  phase = "done" /\ Inner => Len(SelectSeq(records, LAMBDA e : e.msg = "http request")) = 1
=============================================================================
