------------------------------ MODULE AppProofs ------------------------------
(***************************************************************************)
(* Proofs about App, for any files, checks, deadline, configured origins,  *)
(* statuses and requests, and a handler of any number of operations: what  *)
(* the standard stack promises of every response it sends and of every     *)
(* record it writes, and what a readiness probe's answer is worth.         *)
(***************************************************************************)
EXTENDS AppProbe, SequenceTheorems, TLAPS

IsSeq(s) == \E S : s \in Seq(S)

(* The headers the stack sets and no handler of the model touches.         *)
Protected == Static \cup {"X-Request-Id", "Strict-Transport-Security", "Access-Control-Allow-Origin"}

Kept(h, g) == DOMAIN g = HeaderName /\ \A name \in Protected : g[name] = h[name]

IdFor(r) == IF r.rid = "well-formed" THEN "well-formed" ELSE "minted"

AllowedFor(r, o) == "*" \in o \/ r.origin \in o

(* The headers of a response to r, n middlewares down the stack.           *)
Fit(h, n, r, o) ==
  /\ DOMAIN h = HeaderName
  /\ n >= 1 => h["X-Request-Id"] = IdFor(r)
  /\ n < 3 => /\ \A name \in Static : h[name] = Absent
              /\ h["Strict-Transport-Security"] = Absent
  /\ n >= 3 => /\ \A name \in Static : h[name] # Absent
               /\ h["Strict-Transport-Security"] # Absent <=> r.scheme = "https"
  /\ n < 5 => h["Access-Control-Allow-Origin"] = Absent
  /\ n >= 5 /\ r.origin # Absent =>
       (h["Access-Control-Allow-Origin"] \in {"*", r.origin} <=> AllowedFor(r, o))

(* Nothing is sent above CORS, and no body without a status.               *)
WireFit(w, n, r, o) ==
  /\ w = [status |-> w.status, header |-> w.header, body |-> w.body]
  /\ w.status \in 0..599 /\ IsSeq(w.body)
  /\ w.status = 0 => w.body = <<>>
  /\ w.status # 0 => n >= 5 /\ Fit(w.header, n, r, o)

Placed ==
  /\ phase # "down" => at >= 5
  /\ at < 4 => remote = req.peer
  /\ ctxId = IF at = 0 THEN Absent ELSE IdFor(req)

Fits == Fit(header, at, req, origins) /\ WireFit(wire, at, req, origins)

(* Only an API handler has operations; before the first nothing is sent,   *)
(* and above the logger only a preflight's answer is.                      *)
Fresh ==
  /\ phase = "down" /\ ops = <<>> => wire.status = 0 /\ logged = 0
  /\ at < 6 \/ ~IsApi => ops = <<>>
  /\ at < 6 /\ phase # "done" => wire.body = <<>>
  /\ at < 6 /\ phase = "up" => wire.status \in {204, 403}

(* The status net/http sends when the handler returns now.                 *)
Settling == IF wire.status = 0 THEN 200 ELSE wire.status

Agrees == at = 6 /\ phase \in {"down", "up"} /\ SingleStatus => RecordedStatus = Settling

Recorded ==
  /\ phase # "done" => records = <<>>
  /\ \A i \in DOMAIN records : records[i].id = ctxId
  /\ LoggedOnce /\ StatusOfCleanHandler /\ NoFailureIsQuiet

IInv == TypeOK /\ Placed /\ Fits /\ Fresh /\ Agrees /\ Recorded

-----------------------------------------------------------------------------
(* Where the middlewares stand.                                            *)
LEMMA Positions ==
  ASSUME at \in 0..6
  PROVE  /\ Entered("Recoverer") <=> at >= 2
         /\ Entered("CORS") <=> at >= 5
         /\ Entered("RequestLogger") <=> at >= 6
         /\ Inner <=> at = 6
  <1>1. /\ Order[1] = "RequestID" /\ Order[2] = "Recoverer" /\ Order[3] = "SecurityHeaders"
        /\ Order[4] = "RealIP" /\ Order[5] = "CORS" /\ Order[6] = "RequestLogger"
        /\ Len(Order) = 6
    BY DEF Order
  <1>2. Entered("Recoverer") <=> at >= 2
    BY <1>1 DEF Entered
  <1>3. Entered("CORS") <=> at >= 5
    BY <1>1 DEF Entered
  <1>4. Entered("RequestLogger") <=> at >= 6
    BY <1>1 DEF Entered
  <1>5. Inner <=> at = 6
    BY <1>1 DEF Inner
  <1> QED
    BY <1>2, <1>3, <1>4, <1>5

(* Which middleware a step down enters.                                    *)
LEMMA Turn ==
  ASSUME at \in 0..6, NEW m, Enter(m)
  PROVE  /\ phase = "down" /\ at < 6 /\ at' = at + 1
         /\ m = "RequestID" => at = 0
         /\ m = "Recoverer" => at = 1
         /\ m = "SecurityHeaders" => at = 2
         /\ m = "RealIP" => at = 3
         /\ m = "CORS" => at = 4
         /\ m = "RequestLogger" => at = 5
  <1>1. /\ Order[1] = "RequestID" /\ Order[2] = "Recoverer" /\ Order[3] = "SecurityHeaders"
        /\ Order[4] = "RealIP" /\ Order[5] = "CORS" /\ Order[6] = "RequestLogger"
    BY DEF Order
  <1>2. phase = "down" /\ at < 6 /\ at' = at + 1 /\ Order[at + 1] = m
    BY Positions DEF Enter
  <1> QED
    BY <1>1, <1>2

(* Changing headers that are not protected changes nothing promised.       *)
LEMMA KeptFits ==
  ASSUME NEW h, NEW g, NEW n, NEW r, NEW o, Fit(h, n, r, o), Kept(h, g)
  PROVE  Fit(g, n, r, o)
  BY DEF Fit, Kept, Protected

(* A sequence with one more element.                                       *)
LEMMA Longer ==
  ASSUME NEW s, NEW e, IsSeq(s)
  PROVE  IsSeq(Append(s, e)) /\ Append(s, e) # <<>>
  <1>1. PICK S : s \in Seq(S)
    BY DEF IsSeq
  <1> DEFINE R == S \cup {e}
  <1>2. s \in Seq(R) /\ e \in R
    BY <1>1
  <1> HIDE DEF R
  <1>3. Append(s, e) \in Seq(R) /\ Append(s, e) # <<>>
    BY <1>2, AppendProperties
  <1> QED
    BY <1>3 DEF IsSeq

(* What WriteHeader leaves on the wire.                                    *)
LEMMA SentFits ==
  ASSUME NEW w, NEW h, NEW s \in 100..599, NEW n \in 0..6, NEW r, NEW o,
         WireFit(w, n, r, o), Fit(h, n, r, o), n >= 5
  PROVE  WireFit(Sent(w, h, s), n, r, o)
  <1>1. CASE w.status # 0 \/ s \in 100..199 \ {101}
    BY <1>1 DEF Sent, Informational
  <1>2. CASE ~(w.status # 0 \/ s \in 100..199 \ {101})
    <2>1. Sent(w, h, s) = [status |-> s, header |-> h, body |-> w.body]
      BY <1>2 DEF Sent, Informational
    <2> DEFINE v == Sent(w, h, s)
    <2>2. v.status = s /\ v.header = h /\ v.body = w.body /\ s # 0
      BY <2>1
    <2>3. IsSeq(w.body)
      BY <1>2 DEF WireFit
    <2>4. v = [status |-> v.status, header |-> v.header, body |-> v.body]
      BY <2>1
    <2> HIDE DEF v
    <2>5. WireFit(v, n, r, o)
      BY <2>2, <2>3, <2>4 DEF WireFit
    <2> QED
      BY <2>5 DEF v
  <1> QED
    BY <1>1, <1>2

(* What Write leaves on the wire.                                          *)
LEMMA Written ==
  ASSUME NEW w, NEW h, NEW d, w = [status |-> w.status, header |-> w.header, body |-> w.body]
  PROVE  SentBody(w, h, d) = [status |-> IF w.status = 0 THEN 200 ELSE w.status,
                              header |-> IF w.status = 0 THEN h ELSE w.header,
                              body |-> Append(w.body, d)]
  <1> DEFINE v == Sent(w, h, 200)
  <1>1. v = [status |-> IF w.status = 0 THEN 200 ELSE w.status,
             header |-> IF w.status = 0 THEN h ELSE w.header, body |-> w.body]
    BY DEF Sent, Informational
  <1>2. SentBody(w, h, d) = [v EXCEPT !.body = Append(@, d)]
    BY DEF SentBody
  <1> HIDE DEF v
  <1> QED
    BY <1>1, <1>2

(* A response written to a fitting wire fits.                              *)
LEMMA WrittenFits ==
  ASSUME NEW w, NEW h, NEW d, NEW n \in 0..6, NEW r, NEW o,
         WireFit(w, n, r, o), Fit(h, n, r, o), n >= 5
  PROVE  WireFit(SentBody(w, h, d), n, r, o)
  <1> DEFINE v == SentBody(w, h, d)
  <1>1. w = [status |-> w.status, header |-> w.header, body |-> w.body] /\ IsSeq(w.body)
    BY DEF WireFit
  <1>2. v = [status |-> IF w.status = 0 THEN 200 ELSE w.status,
             header |-> IF w.status = 0 THEN h ELSE w.header,
             body |-> Append(w.body, d)]
    BY <1>1, Written
  <1> HIDE DEF v
  <1>3. /\ v = [status |-> v.status, header |-> v.header, body |-> v.body]
        /\ v.status = IF w.status = 0 THEN 200 ELSE w.status
        /\ v.header = IF w.status = 0 THEN h ELSE w.header
        /\ v.body = Append(w.body, d)
    BY <1>2
  <1>4. IsSeq(v.body)
    BY <1>1, <1>3, Longer
  <1>5. WireFit(v, n, r, o)
    BY <1>3, <1>4 DEF WireFit
  <1> QED
    BY <1>5 DEF v

(* HSTS is decided on the visitor's scheme while the peer is in sight.     *)
LEMMA SchemeSeen ==
  ASSUME req \in Requests, remote = req.peer
  PROVE  IsHTTPS <=> req.scheme = "https"
  <1>1. /\ req.peer \in {"proxy", "visitor"} /\ req.scheme \in {"http", "https"}
        /\ req.claimed \in {<<>>, <<"https">>}
    BY DEF Requests
  <1>2. CASE req.peer = "visitor"
    BY <1>1, <1>2 DEF IsHTTPS
  <1>3. CASE req.peer = "proxy"
    <2>1. req.claimed \in Seq({"http", "https"}) /\ req.scheme \in {"http", "https"}
      <3>1. <<>> \in Seq({"http", "https"}) /\ <<"https">> \in Seq({"http", "https"})
        OBVIOUS
      <3> QED
        BY <1>1, <3>1
    <2>2. ForwardedProto = Append(req.claimed, req.scheme)
      BY <1>3 DEF ForwardedProto
    <2>3. ForwardedProto # <<>> /\ Last(ForwardedProto) = req.scheme
      BY <2>1, <2>2, AppendProperties DEF Last
    <2> QED
      BY <1>3, <2>3 DEF IsHTTPS
  <1> QED
    BY <1>1, <1>2, <1>3

-----------------------------------------------------------------------------
(* No record is written before the request is over.                        *)
LEMMA NoRecordYet ==
  ASSUME phase' # "done", records' = <<>>
  PROVE  Recorded'
  BY DEF Recorded, LoggedOnce, StatusOfCleanHandler, NoFailureIsQuiet

(* The handler a request goes to depends on the request alone.             *)
LEMMA SameRoute ==
  ASSUME req' = req
  PROVE  IsApi' <=> IsApi
  BY DEF IsApi, IsLive, IsReady

(* A middleware that passes the request on with the right headers.         *)
LEMMA PassedOn ==
  ASSUME IInv, phase = "down", at < 6, at' = at + 1, phase' = "down",
         Fit(header', at', req, origins), Placed',
         remote' \in {"proxy", "visitor"}, logged' \in {logged, 0},
         UNCHANGED <<req, origins, wire, ops, records>>
  PROVE  IInv'
  <1>1. ops = <<>> /\ wire.status = 0 /\ logged = 0 /\ at \in 0..6 /\ wire.body = <<>> /\ records = <<>>
    BY DEF IInv, Fresh, TypeOK, Order, Fits, WireFit, Recorded
  <1>2. Fits'
    BY <1>1 DEF IInv, Fits, WireFit
  <1>3. Fresh'
    BY <1>1 DEF Fresh
  <1>4. Agrees'
    BY <1>1 DEF Agrees, RecordedStatus, Settling
  <1>5. Recorded'
    BY <1>1, NoRecordYet
  <1>6. TypeOK'
    <2>1. at' \in 0..Len(Order)
      BY <1>1 DEF Order
    <2>2. ctxId' \in {Absent, "well-formed", "minted"}
      BY DEF Placed, IdFor
    <2>3. DOMAIN header' = HeaderName
      BY DEF Fit
    <2>4. Len(records') <= 2
      BY DEF IInv, TypeOK
    <2> QED
      BY <1>1, <2>1, <2>2, <2>3, <2>4 DEF IInv, TypeOK
  <1> QED
    BY <1>2, <1>3, <1>4, <1>5, <1>6 DEF IInv

(* A step down the stack.                                                  *)
LEMMA DownStep ==
  ASSUME IInv, RequestID \/ Recoverer \/ SecurityHeaders \/ RealIP \/ RequestLogger
  PROVE  IInv'
  <1>1. /\ at \in 0..6 /\ req \in Requests /\ remote \in {"proxy", "visitor"}
        /\ Placed /\ Fit(header, at, req, origins)
    BY DEF IInv, TypeOK, Order, Fits
  <1>2. CASE RequestID
    <2>1. at = 0 /\ at' = 1 /\ phase = "down" /\ phase' = "down"
      BY <1>1, <1>2, Turn DEF RequestID
    <2>2. header' = [header EXCEPT !["X-Request-Id"] = IdFor(req)] /\ ctxId' = IdFor(req)
      BY <1>2 DEF RequestID, SettledId, IdFor
    <2>3. Fit(header', at', req, origins)
      BY <1>1, <2>1, <2>2 DEF Fit, HeaderName, Static
    <2>4. Placed'
      BY <1>1, <1>2, <2>1, <2>2 DEF Placed, RequestID, IdFor
    <2> QED
      BY <1>1, <1>2, <2>1, <2>3, <2>4, PassedOn DEF RequestID
  <1>3. CASE Recoverer
    <2>1. at = 1 /\ at' = 2 /\ phase = "down" /\ phase' = "down"
      BY <1>1, <1>3, Turn DEF Recoverer
    <2>2. Fit(header', at', req, origins)
      BY <1>1, <1>3, <2>1 DEF Fit, Recoverer
    <2>3. Placed'
      BY <1>1, <1>3, <2>1 DEF Placed, Recoverer, IdFor
    <2> QED
      BY <1>1, <1>3, <2>1, <2>2, <2>3, PassedOn DEF Recoverer
  <1>4. CASE SecurityHeaders
    <2>1. at = 2 /\ at' = 3 /\ phase = "down" /\ phase' = "down"
      BY <1>1, <1>4, Turn DEF SecurityHeaders
    <2>2. IsHTTPS <=> req.scheme = "https"
      BY <1>1, <2>1, SchemeSeen DEF Placed
    <2>3. Fit(header', at', req, origins)
      <3> DEFINE g == WithStatic(header)
      <3>1. /\ DOMAIN g = HeaderName
            /\ \A name \in Static : g[name] # Absent
            /\ g["X-Request-Id"] = header["X-Request-Id"]
            /\ g["Strict-Transport-Security"] = Absent
            /\ g["Access-Control-Allow-Origin"] = header["Access-Control-Allow-Origin"]
        BY <1>1, <2>1 DEF Fit, WithStatic, HeaderName, Static, Absent
      <3>2. header' = IF IsHTTPS THEN [g EXCEPT !["Strict-Transport-Security"] = "suite"] ELSE g
        BY <1>4, <3>1 DEF SecurityHeaders, SetIfAbsent
      <3> HIDE DEF g
      <3> QED
        BY <1>1, <2>1, <2>2, <3>1, <3>2 DEF Fit, HeaderName, Static, Absent
    <2>4. Placed'
      BY <1>1, <1>4, <2>1 DEF Placed, SecurityHeaders, IdFor
    <2> QED
      BY <1>1, <1>4, <2>1, <2>3, <2>4, PassedOn DEF SecurityHeaders
  <1>5. CASE RealIP
    <2>1. at = 3 /\ at' = 4 /\ phase = "down" /\ phase' = "down"
      BY <1>1, <1>5, Turn DEF RealIP
    <2>2. Fit(header', at', req, origins)
      BY <1>1, <1>5, <2>1 DEF Fit, RealIP
    <2>3. Placed'
      BY <1>1, <1>5, <2>1 DEF Placed, RealIP, IdFor
    <2> QED
      BY <1>1, <1>5, <2>1, <2>2, <2>3, PassedOn DEF RealIP
  <1>6. CASE RequestLogger
    <2>1. at = 5 /\ at' = 6 /\ phase = "down" /\ phase' = "down"
      BY <1>1, <1>6, Turn DEF RequestLogger
    <2>2. Fit(header', at', req, origins)
      BY <1>1, <1>6, <2>1 DEF Fit, RequestLogger
    <2>3. Placed'
      BY <1>1, <1>6, <2>1 DEF Placed, RequestLogger, IdFor
    <2> QED
      BY <1>1, <1>6, <2>1, <2>2, <2>3, PassedOn DEF RequestLogger
  <1> QED
    BY <1>2, <1>3, <1>4, <1>5, <1>6

(* CORS passes the request on, or answers a preflight itself.              *)
LEMMA CORSStep ==
  ASSUME IInv, CORS
  PROVE  IInv'
  <1>1. /\ at \in 0..6 /\ req \in Requests /\ remote \in {"proxy", "visitor"}
        /\ Placed /\ Fit(header, at, req, origins) /\ WireFit(wire, at, req, origins)
    BY DEF IInv, TypeOK, Order, Fits
  <1>2. at = 4 /\ at' = 5 /\ phase = "down"
    BY <1>1, Turn DEF CORS
  <1>3. UNCHANGED <<origins, req, remote, ctxId, logged, records, ops>>
    BY DEF CORS
  <1>4. Fit(header', 5, req, origins)
    <2>1. CASE req.origin # Absent /\ Allowed
      <3>1. header' = Decorated
        BY <2>1 DEF CORS
      <3>2. /\ DOMAIN Decorated = HeaderName
            /\ \A name \in Protected \ {"Access-Control-Allow-Origin"} : Decorated[name] = header[name]
            /\ Decorated["Access-Control-Allow-Origin"] = IF "*" \in origins THEN "*" ELSE req.origin
        BY <1>1 DEF Decorated, Wildcard, Fit, HeaderName, Static, Protected
      <3> QED
        BY <1>1, <1>2, <2>1, <3>1, <3>2 DEF Fit, Protected, Static, AllowedFor, Allowed, Wildcard
    <2>2. CASE ~(req.origin # Absent /\ Allowed)
      <3>1. header' = header
        BY <2>2 DEF CORS
      <3> QED
        BY <1>1, <1>2, <2>2, <3>1 DEF Fit, AllowedFor, Allowed, Wildcard, Absent
    <2> QED
      BY <2>1, <2>2
  <1>5. Placed'
    BY <1>1, <1>2, <1>3 DEF Placed, IdFor
  <1>6. ops = <<>> /\ wire.status = 0 /\ logged = 0 /\ wire.body = <<>> /\ records = <<>>
    BY <1>2 DEF IInv, Fresh, Fits, WireFit, Recorded
  <1>7. CASE UNCHANGED <<wire, phase>>
    BY <1>1, <1>2, <1>3, <1>4, <1>5, <1>7, PassedOn
  <1>8. CASE ~UNCHANGED <<wire, phase>>
    <2>1. phase' = "up" /\ \E s \in {204, 403} : wire' = Sent(wire, header', s)
      BY <1>8 DEF CORS
    <2>2. PICK s \in 100..599 : s \in {204, 403} /\ wire' = Sent(wire, header', s)
      BY <2>1
    <2>3. WireFit(wire, 5, req, origins)
      BY <1>1, <1>6 DEF WireFit
    <2>4. WireFit(wire', 5, req, origins) /\ wire'.status = s /\ wire'.body = <<>>
      <3>1. PICK n \in 0..6 : n = 5
        OBVIOUS
      <3>2. Fit(header', n, req, origins) /\ WireFit(wire, n, req, origins) /\ n >= 5
        BY <1>4, <2>3, <3>1
      <3>3. WireFit(Sent(wire, header', s), n, req, origins)
        BY <3>2, SentFits
      <3>4. ~(wire.status # 0 \/ Informational(s))
        <4>1. s # 101 /\ ~(100 <= s /\ s <= 199)
          BY <2>2
        <4> QED
          BY <1>6, <4>1 DEF Informational
      <3>5. Sent(wire, header', s) = [status |-> s, header |-> header', body |-> wire.body]
        BY <3>4 DEF Sent
      <3> QED
        BY <1>6, <2>2, <3>1, <3>3, <3>5
    <2>6. Fits'
      BY <1>2, <1>3, <1>4, <2>4 DEF Fits
    <2>7. Fresh'
      BY <1>2, <1>3, <1>6, <2>1, <2>2, <2>4 DEF Fresh
    <2>8. Agrees'
      BY <1>2 DEF Agrees
    <2>9. Recorded'
      BY <1>3, <1>6, <2>1, NoRecordYet
    <2>10. TypeOK'
      <3>1. at' \in 0..Len(Order)
        BY <1>2 DEF Order
      <3>2. DOMAIN header' = HeaderName /\ wire'.status \in 0..599
        BY <1>4, <2>2, <2>4 DEF Fit
      <3> QED
        BY <1>3, <2>1, <3>1, <3>2 DEF IInv, TypeOK
    <2> QED
      BY <1>5, <2>6, <2>7, <2>8, <2>9, <2>10 DEF IInv
  <1> QED
    BY <1>7, <1>8

-----------------------------------------------------------------------------
(* A handler of the application that answers at once.                      *)
LEMMA ResponseStep ==
  ASSUME IInv, Handling, ~IsApi, NEW status \in 100..599, status >= 200, NEW h, NEW data,
         Kept(header, h), Respond(status, h, data)
  PROVE  IInv'
  <1>1. /\ at = 6 /\ at \in 0..6 /\ phase = "down" /\ ops = <<>> /\ wire.status = 0
        /\ wire.body = <<>> /\ logged = 0 /\ records = <<>>
        /\ Placed /\ Fit(header, at, req, origins) /\ WireFit(wire, at, req, origins)
    BY Positions DEF IInv, Handling, Fresh, Fits, WireFit, Recorded, TypeOK, Order
  <1>2. /\ header' = h /\ logged' = status /\ phase' = "up"
        /\ UNCHANGED <<origins, req, remote, ctxId, at, records, ops>>
        /\ wire' = SentBody(Sent(wire, h, status), h, data)
    BY DEF Respond
  <1>3. Fit(h, at, req, origins)
    BY <1>1, KeptFits
  <1> DEFINE v == Sent(wire, h, status)
  <1>4. WireFit(v, at, req, origins)
    <2>1. PICK n \in 0..6 : n = at
      BY <1>1
    <2>2. WireFit(wire, n, req, origins) /\ Fit(h, n, req, origins) /\ n >= 5
      BY <1>1, <1>3, <2>1
    <2>3. WireFit(v, n, req, origins)
      BY <2>2, SentFits
    <2> QED
      BY <2>1, <2>3
  <1>5. v = [status |-> status, header |-> h, body |-> wire.body]
    <2>1. ~(wire.status # 0 \/ Informational(status))
      BY <1>1 DEF Informational
    <2> QED
      BY <2>1 DEF Sent
  <1>6. WireFit(SentBody(v, h, data), at, req, origins)
    <2> HIDE DEF v
    <2> QED
      BY <1>1, <1>3, <1>4, WrittenFits
  <1>7. SentBody(v, h, data).status = status
    <2>1. v = [status |-> v.status, header |-> v.header, body |-> v.body] /\ v.status = status
      BY <1>5
    <2> HIDE DEF v
    <2>2. SentBody(v, h, data).status = IF v.status = 0 THEN 200 ELSE v.status
      BY <2>1, Written
    <2> QED
      BY <2>1, <2>2
  <1>8. WireFit(wire', at, req, origins) /\ wire'.status = status
    BY <1>2, <1>6, <1>7
  <1>9. Fits'
    BY <1>2, <1>3, <1>8 DEF Fits
  <1>10. Placed'
    BY <1>1, <1>2 DEF Placed
  <1>11. Fresh'
    BY <1>1, <1>2 DEF Fresh
  <1>12. Agrees'
    BY <1>2, <1>8 DEF Agrees, RecordedStatus, Settling
  <1>13. Recorded'
    BY <1>1, <1>2, NoRecordYet
  <1>14. TypeOK'
    <2>1. DOMAIN header' = HeaderName /\ wire'.status \in 0..599 /\ logged' \in 0..599
      BY <1>2, <1>3, <1>8 DEF Fit
    <2> QED
      BY <1>2, <2>1 DEF IInv, TypeOK
  <1> QED
    BY <1>9, <1>10, <1>11, <1>12, <1>13, <1>14 DEF IInv

(* spa.Handler's look at the file changes the cache policy alone.          *)
LEMMA LookStep ==
  ASSUME IInv, Look
  PROVE  IInv'
  <1>1. Fit(header, at, req, origins) /\ WireFit(wire, at, req, origins)
    BY DEF IInv, Fits
  <1>2. UNCHANGED <<origins, req, remote, ctxId, at, phase, wire, logged, records, ops>>
    BY DEF Look
  <1>3. Fit(header', at, req, origins)
    BY <1>1 DEF Look, Fit, HeaderName, Static
  <1>4. Placed' /\ Fits'
    BY <1>1, <1>2, <1>3 DEF IInv, Placed, Fits
  <1>5. Fresh'
    BY <1>2, SameRoute DEF IInv, Fresh
  <1>6. Agrees'
    BY <1>2 DEF IInv, Agrees, SingleStatus, RecordedStatus, Settling
  <1>7. Recorded'
    BY <1>2, NoRecordYet DEF IInv, Recorded, Look, Reading, Handling
  <1>8. TypeOK'
    BY <1>2, <1>3 DEF IInv, TypeOK, Fit
  <1> QED
    BY <1>4, <1>5, <1>6, <1>7, <1>8 DEF IInv

(* Nothing of the stack changes.                                           *)
LEMMA StackRests ==
  ASSUME IInv, UNCHANGED vars
  PROVE  IInv'
  <1>1. Placed' /\ Fits'
    BY DEF IInv, Placed, Fits, vars
  <1>2. Fresh'
    BY SameRoute DEF IInv, Fresh, vars
  <1>3. SingleStatus' <=> SingleStatus
    BY DEF SingleStatus, vars
  <1>4. Agrees'
    BY <1>3 DEF IInv, Agrees, RecordedStatus, Settling, vars
  <1>5. Recorded'
    BY <1>3 DEF IInv, Recorded, LoggedOnce, StatusOfCleanHandler, NoFailureIsQuiet, Entered, vars
  <1>6. TypeOK'
    BY DEF IInv, TypeOK, vars
  <1> QED
    BY <1>1, <1>2, <1>4, <1>5, <1>6 DEF IInv

-----------------------------------------------------------------------------
(* An API handler writes, and how its operations tell one final status.    *)
OpType == Statuses \cup {WriteOp, FlushOp}

(* One more operation: the statuses so far stay, and a status after another*)
(* operation is no single one.                                             *)
LEMMA OneMore ==
  ASSUME TypeOK, NEW op \in OpType, ops' = Append(ops, op)
  PROVE  /\ ops' \in Seq(OpType) /\ ops' # <<>>
         /\ SingleStatus' => SingleStatus
         /\ SingleStatus' /\ op \in Statuses => ops = <<>> /\ ~Informational(op)
  <1>1. ops \in Seq(OpType)
    BY DEF TypeOK, OpType
  <1>2. /\ ops' \in Seq(OpType) /\ ops' # <<>> /\ Len(ops') = Len(ops) + 1
        /\ \A i \in 1..Len(ops) : ops'[i] = ops[i]
        /\ ops'[Len(ops) + 1] = op
    BY <1>1, AppendProperties
  <1>3. DOMAIN ops = 1..Len(ops) /\ DOMAIN ops' = 1..(Len(ops) + 1) /\ Len(ops) \in Nat
    BY <1>1, <1>2
  <1>4. SingleStatus' => SingleStatus
    BY <1>2, <1>3 DEF SingleStatus
  <1>5. ASSUME SingleStatus', op \in Statuses PROVE ops = <<>> /\ ~Informational(op)
    <2>1. Len(ops) + 1 \in DOMAIN ops'
      BY <1>3
    <2>2. Len(ops) + 1 = 1 /\ ~Informational(op)
      BY <1>2, <1>5, <2>1 DEF SingleStatus
    <2>3. Len(ops) = 0
      BY <1>3, <2>2
    <2> QED
      BY <1>1, <2>2, <2>3
  <1> QED
    BY <1>2, <1>4, <1>5

(* What the operations have in common.                                     *)
LEMMA OperationStep ==
  ASSUME IInv, Handling, IsApi, NEW op \in OpType, ops' = Append(ops, op),
         WireFit(wire', at, req, origins), logged' \in 0..599, Agrees',
         UNCHANGED <<origins, req, remote, ctxId, at, phase, header, records>>
  PROVE  IInv'
  <1>1. /\ at = 6 /\ phase = "down" /\ records = <<>> /\ TypeOK
        /\ Placed /\ Fit(header, at, req, origins)
    BY Positions DEF IInv, Handling, Fits, Recorded, TypeOK, Order
  <1>2. ops' \in Seq(OpType) /\ ops' # <<>>
    BY <1>1, OneMore
  <1>3. Placed' /\ Fits'
    BY <1>1 DEF Placed, Fits
  <1>4. Fresh'
    BY <1>1, <1>2, SameRoute DEF Fresh
  <1>5. Recorded'
    BY <1>1, NoRecordYet
  <1>6. TypeOK'
    BY <1>1, <1>2 DEF TypeOK, OpType, WireFit
  <1> QED
    BY <1>3, <1>4, <1>5, <1>6 DEF IInv

(* WriteHeader, Write and Flush.                                           *)
LEMMA OperationSteps ==
  ASSUME IInv, IsApi, (\E s \in Statuses : WriteHeader(s)) \/ Write \/ Flush
  PROVE  IInv'
  <1>1. Handling
    BY DEF WriteHeader, Write, Flush, Operate, Handling
  <1>2. /\ at = 6 /\ at \in 0..6 /\ phase = "down" /\ TypeOK /\ logged \in 0..599
        /\ Fresh /\ Agrees /\ Fit(header, at, req, origins) /\ WireFit(wire, at, req, origins)
    BY <1>1, Positions DEF IInv, Handling, Fits, TypeOK, Order
  <1>3. PICK n \in 0..6 : n = at /\ n >= 5
    BY <1>2
  <1>4. /\ WireFit(wire, n, req, origins) /\ Fit(header, n, req, origins)
        /\ wire = [status |-> wire.status, header |-> wire.header, body |-> wire.body]
        /\ wire.status \in 0..599
    BY <1>2, <1>3 DEF WireFit
  <1>5. CASE \E s \in Statuses : WriteHeader(s)
    <2>1. PICK s \in 100..599 : s \in Statuses /\ WriteHeader(s)
      BY <1>5, ChainAssumption
    <2>2. /\ ops' = Append(ops, s) /\ s \in OpType /\ logged' = s /\ wire' = Sent(wire, header, s)
          /\ UNCHANGED <<origins, req, remote, ctxId, at, phase, header, records>>
      BY <2>1 DEF WriteHeader, Operate, OpType
    <2>3. WireFit(Sent(wire, header, s), n, req, origins)
      BY <1>3, <1>4, SentFits
    <2>4. ASSUME SingleStatus' PROVE RecordedStatus' = Settling'
      <3>1. ops = <<>> /\ ~Informational(s)
        BY <1>2, <2>1, <2>2, <2>4, OneMore
      <3>2. wire.status = 0
        BY <1>2, <3>1 DEF Fresh
      <3>3. wire' = [status |-> s, header |-> header, body |-> wire.body]
        BY <2>2, <3>1, <3>2 DEF Sent
      <3> QED
        BY <2>2, <3>3 DEF RecordedStatus, Settling
    <2>5. Agrees'
      BY <2>4 DEF Agrees
    <2> QED
      BY <1>1, <1>3, <2>2, <2>3, <2>5, OperationStep
  <1>6. CASE Write
    <2>1. /\ ops' = Append(ops, WriteOp) /\ WriteOp \in OpType
          /\ logged' = IF logged = 0 THEN 200 ELSE logged
          /\ wire' = SentBody(wire, header, "handler")
          /\ UNCHANGED <<origins, req, remote, ctxId, at, phase, header, records>>
      BY <1>6 DEF Write, Operate, OpType
    <2>2. WireFit(SentBody(wire, header, "handler"), n, req, origins)
      BY <1>3, <1>4, WrittenFits
    <2>3. SentBody(wire, header, "handler").status = IF wire.status = 0 THEN 200 ELSE wire.status
      BY <1>4, Written
    <2>4. ASSUME SingleStatus' PROVE RecordedStatus' = Settling'
      <3>1. RecordedStatus = Settling
        BY <1>2, <2>1, <2>4, OneMore DEF Agrees
      <3> QED
        BY <2>1, <2>3, <3>1 DEF RecordedStatus, Settling
    <2>5. Agrees' /\ logged' \in 0..599
      BY <1>2, <2>1, <2>4 DEF Agrees
    <2> QED
      BY <1>1, <1>3, <2>1, <2>2, <2>5, OperationStep
  <1>7. CASE Flush
    <2>1. /\ ops' = Append(ops, FlushOp) /\ FlushOp \in OpType /\ logged' = logged
          /\ wire' = Sent(wire, header, 200)
          /\ UNCHANGED <<origins, req, remote, ctxId, at, phase, header, records>>
      BY <1>7 DEF Flush, Operate, OpType
    <2>2. WireFit(Sent(wire, header, 200), n, req, origins)
      BY <1>3, <1>4, SentFits
    <2>3. wire'.status = IF wire.status = 0 THEN 200 ELSE wire.status
      BY <2>1 DEF Sent, Informational
    <2>4. ASSUME SingleStatus' PROVE RecordedStatus' = Settling'
      <3>1. RecordedStatus = Settling
        BY <1>2, <2>1, <2>4, OneMore DEF Agrees
      <3> QED
        BY <2>1, <2>3, <3>1 DEF RecordedStatus, Settling
    <2>5. Agrees' /\ logged' \in 0..599
      BY <1>2, <2>1, <2>4 DEF Agrees
    <2> QED
      BY <1>1, <1>3, <2>1, <2>2, <2>5, OperationStep
  <1> QED
    BY <1>5, <1>6, <1>7

(* The handler returns, gives up or panics.                                *)
LEMMA LeaveStep ==
  ASSUME IInv, Return \/ Abort \/ Panic
  PROVE  IInv'
  <1>1. /\ phase' \in {"up", "panic", "abort"}
        /\ UNCHANGED <<origins, req, remote, ctxId, at, header, wire, logged, records, ops>>
    BY DEF Return, Abort, Panic
  <1>2. at \in 0..6 /\ at >= 5 /\ (phase' = "up" => at = 6 /\ phase = "down") /\ phase \in {"down", "up"}
    BY Positions DEF IInv, TypeOK, Order, Return, Abort, Panic
  <1>3. Placed' /\ Fits'
    BY <1>1, <1>2 DEF IInv, Placed, Fits
  <1>4. Fresh'
    BY <1>1, <1>2, SameRoute DEF IInv, Fresh
  <1>5. SingleStatus' <=> SingleStatus
    BY <1>1 DEF SingleStatus
  <1>6. Agrees'
    BY <1>1, <1>2, <1>5 DEF IInv, Agrees, RecordedStatus, Settling
  <1>7. Recorded'
    BY <1>1, <1>2, NoRecordYet DEF IInv, Recorded
  <1>8. TypeOK'
    BY <1>1 DEF IInv, TypeOK
  <1> QED
    BY <1>3, <1>4, <1>6, <1>7, <1>8 DEF IInv

-----------------------------------------------------------------------------
(* A log of one record.                                                    *)
LEMMA One ==
  ASSUME NEW e, NEW s, s = <<e>>
  PROVE  Len(s) = 1 /\ DOMAIN s = {1} /\ s[1] = e
  OBVIOUS

(* Appending to the empty log.                                             *)
LEMMA First ==
  ASSUME NEW e
  PROVE  Append(<<>>, e) = <<e>> /\ <<>> \o <<e>> = <<e>>
  OBVIOUS

(* RequestLogger records the request and the response is complete.         *)
LEMMA LogStep ==
  ASSUME IInv, LogRequest
  PROVE  IInv'
  <1> DEFINE entry == [msg |-> "http request", id |-> ctxId, level |-> Level, status |-> RecordedStatus]
  <1>1. /\ phase = "up" /\ phase' = "done" /\ wire' = Sent(wire, header, 200)
        /\ UNCHANGED <<origins, req, remote, ctxId, at, header, logged, ops>>
        /\ records' = Append(records, entry) /\ Entered("RequestLogger")
    BY DEF LogRequest
  <1> HIDE DEF entry
  <1>2. /\ at = 6 /\ records = <<>> /\ TypeOK
        /\ Placed /\ Fresh /\ Agrees /\ Fit(header, at, req, origins) /\ WireFit(wire, at, req, origins)
    BY <1>1, Positions DEF IInv, Fits, Recorded, TypeOK, Order
  <1>3. PICK n \in 0..6 : n = at /\ n >= 5
    BY <1>2
  <1>4. WireFit(wire, n, req, origins) /\ Fit(header, n, req, origins)
    BY <1>2, <1>3
  <1>5. WireFit(Sent(wire, header, 200), n, req, origins)
    BY <1>3, <1>4, SentFits
  <1>6. WireFit(wire', at, req, origins) /\ wire'.status = Settling
    <2>1. wire'.status = Settling
      BY <1>1 DEF Sent, Informational, Settling
    <2> QED
      BY <1>1, <1>3, <1>5, <2>1
  <1>7. Len(records') = 1 /\ DOMAIN records' = {1} /\ records'[1] = entry
    BY <1>1, <1>2, First, One
  <1>13. entry.id = ctxId /\ entry.status = RecordedStatus /\ entry.level = Level
    BY DEF entry
  <1>8. SingleStatus' <=> SingleStatus
    BY <1>1 DEF SingleStatus
  <1>9. Placed' /\ Fits'
    BY <1>1, <1>2, <1>6 DEF Placed, Fits
  <1>10. Fresh' /\ Agrees'
    BY <1>1, <1>2, SameRoute DEF Fresh, Agrees
  <1>11. Recorded'
    <2>1. Entered("RequestLogger")'
      BY <1>1 DEF Entered
    <2>2. SingleStatus => RecordedStatus = wire'.status
      BY <1>1, <1>2, <1>6 DEF Agrees
    <2>3. LoggedOnce'
      BY <1>7, <2>1 DEF LoggedOnce
    <2>4. StatusOfCleanHandler'
      BY <1>7, <1>8, <1>13, <2>2 DEF StatusOfCleanHandler
    <2>5. NoFailureIsQuiet'
      BY <1>7, <1>8, <1>13, <2>2 DEF NoFailureIsQuiet, Level
    <2> QED
      BY <1>1, <1>7, <1>13, <2>3, <2>4, <2>5 DEF Recorded
  <1>12. TypeOK'
    BY <1>1, <1>2, <1>6, <1>7 DEF TypeOK, WireFit
  <1> QED
    BY <1>9, <1>10, <1>11, <1>12 DEF IInv

(* A preflight's answer passes the logger by.                              *)
LEMMA EarlyStep ==
  ASSUME IInv, ReturnEarly
  PROVE  IInv'
  <1>1. /\ phase = "up" /\ phase' = "done"
        /\ UNCHANGED <<origins, req, remote, ctxId, at, header, wire, logged, records, ops>>
    BY DEF ReturnEarly
  <1>2. /\ at \in 0..6 /\ at < 6 /\ records = <<>> /\ wire.body = <<>> /\ wire.status \in {204, 403}
        /\ ~Entered("RequestLogger") /\ ops = <<>>
    BY <1>1, Positions DEF IInv, ReturnEarly, Recorded, Fresh, TypeOK, Order
  <1>3. Placed' /\ Fits'
    BY <1>1, <1>2 DEF IInv, Placed, Fits
  <1>4. Fresh' /\ Agrees'
    BY <1>1, <1>2 DEF Fresh, Agrees
  <1>5. Recorded'
    <2>1. ~Entered("RequestLogger")'
      BY <1>1, <1>2 DEF Entered
    <2> QED
      BY <1>1, <1>2, <2>1 DEF Recorded, LoggedOnce, StatusOfCleanHandler, NoFailureIsQuiet
  <1>6. TypeOK'
    BY <1>1 DEF IInv, TypeOK
  <1> QED
    BY <1>3, <1>4, <1>5, <1>6 DEF IInv

(* What Recoverer writes after a panic.                                    *)
LEMMA Recovery ==
  ASSUME IInv, Recover
  PROVE  /\ phase = "panic" /\ phase' = "done" /\ records' = PanicRecord
         /\ UNCHANGED <<origins, req, remote, ctxId, at, logged, ops>>
         /\ Fits'
         /\ wire'.status = IF wire.status = 0 THEN 500 ELSE wire.status
         /\ wire'.body = Append(wire.body, "envelope") /\ wire'.body # <<>>
         /\ wire.status = 0 => wire.body = <<>>
  <1>1. /\ phase = "panic" /\ phase' = "done"
        /\ UNCHANGED <<origins, req, remote, ctxId, at, logged, ops>>
        /\ header' = AsJSON(header)
    BY DEF Recover, Recoverable
  <1>2. records' = PanicRecord
    <2>1. records = <<>>
      BY <1>1 DEF IInv, Recorded
    <2> QED
      BY <2>1, First DEF Recover, PanicRecord
  <1>3. /\ at >= 5 /\ at \in 0..6 /\ Fit(header, at, req, origins) /\ WireFit(wire, at, req, origins)
    BY <1>1 DEF IInv, Placed, Fits, TypeOK, Order
  <1>4. PICK n \in 0..6 : n = at /\ n >= 5
    BY <1>3
  <1> DEFINE g == AsJSON(header)
             v == Sent(wire, g, 500)
             u == SentBody(v, g, "envelope")
  <1>5. wire' = u
    BY <1>1 DEF Recover
  <1>6. Fit(g, n, req, origins) /\ WireFit(wire, n, req, origins)
    BY <1>3, <1>4 DEF AsJSON, Fit, HeaderName, Static
  <1> HIDE DEF g
  <1>7. WireFit(v, n, req, origins)
    BY <1>4, <1>6, SentFits
  <1>8. v = [status |-> v.status, header |-> v.header, body |-> v.body] /\ v.body = wire.body
        /\ v.status = (IF wire.status = 0 THEN 500 ELSE wire.status)
    BY <1>6 DEF Sent, Informational, WireFit
  <1> HIDE DEF v
  <1>9. WireFit(u, n, req, origins)
    BY <1>4, <1>6, <1>7, WrittenFits
  <1>10. /\ u.status = IF v.status = 0 THEN 200 ELSE v.status
         /\ u.body = Append(v.body, "envelope")
    BY <1>8, Written
  <1> HIDE DEF u
  <1>11. /\ wire'.status = IF wire.status = 0 THEN 500 ELSE wire.status
         /\ wire'.body = Append(wire.body, "envelope")
    BY <1>5, <1>8, <1>10
  <1>12. Append(wire.body, "envelope") # <<>>
    BY <1>6, Longer DEF WireFit
  <1>13. Fits'
    BY <1>1, <1>4, <1>5, <1>6, <1>9 DEF Fits, g
  <1>14. wire.status = 0 => wire.body = <<>>
    BY <1>6 DEF WireFit
  <1> QED
    BY <1>1, <1>2, <1>11, <1>12, <1>13, <1>14

(* A recovered request keeps the invariant.                                *)
LEMMA RecoverStep ==
  ASSUME IInv, Recover
  PROVE  IInv'
  <1>1. /\ phase' = "done" /\ records' = PanicRecord /\ Fits' /\ wire'.body # <<>>
        /\ phase = "panic" /\ UNCHANGED <<origins, req, remote, ctxId, at, logged, ops>>
    BY Recovery
  <1>2. /\ Len(records') = 1 /\ DOMAIN records' = {1}
        /\ records'[1].msg = "panic recovered" /\ records'[1].id = ctxId /\ records'[1].level = "error"
    <2> DEFINE entry == [msg |-> "panic recovered", id |-> KnownId, level |-> "error", status |-> 500]
    <2>1. records' = <<entry>>
      BY <1>1 DEF PanicRecord
    <2>2. KnownId = ctxId
      BY DEF KnownId, Order
    <2> HIDE DEF entry
    <2>3. Len(records') = 1 /\ DOMAIN records' = {1} /\ records'[1] = entry
      BY <2>1, One
    <2>4. entry.msg = "panic recovered" /\ entry.id = KnownId /\ entry.level = "error"
      BY DEF entry
    <2> QED
      BY <2>2, <2>3, <2>4
  <1>3. Placed'
    BY <1>1 DEF IInv, Placed
  <1>4. Fresh' /\ Agrees'
    BY <1>1, SameRoute DEF IInv, Fresh, Agrees
  <1>5. Recorded'
    <2>1. LoggedOnce'
      BY <1>1, <1>2 DEF LoggedOnce
    <2>2. StatusOfCleanHandler'
      BY <1>2 DEF StatusOfCleanHandler
    <2>3. NoFailureIsQuiet'
      BY <1>2 DEF NoFailureIsQuiet
    <2>4. \A i \in DOMAIN records' : records'[i].id = ctxId'
      BY <1>1, <1>2
    <2> QED
      BY <1>1, <2>1, <2>2, <2>3, <2>4 DEF Recorded
  <1>6. TypeOK'
    <2>1. DOMAIN header' = HeaderName /\ wire'.status \in 0..599
      BY <1>1 DEF Fits, Fit, WireFit
    <2>2. Len(records') <= 2
      <3>1. Len(records') = 1
        BY <1>2
      <3> QED
        BY <3>1
    <2>3. UNCHANGED <<origins, req, remote, ctxId, at, logged, ops>> /\ phase' = "done"
      BY <1>1
    <2> QED
      BY <2>1, <2>2, <2>3 DEF IInv, TypeOK
  <1> QED
    BY <1>1, <1>3, <1>4, <1>5, <1>6 DEF IInv

(* So does one that is dropped.                                            *)
LEMMA DropStep ==
  ASSUME IInv, Repanic
  PROVE  IInv'
  <1>1. /\ phase \in {"panic", "abort"} /\ phase' = "dropped"
        /\ UNCHANGED <<origins, req, remote, ctxId, at, header, wire, logged, records, ops>>
    BY DEF Repanic, AnyPanic
  <1>2. Placed' /\ Fits'
    BY <1>1 DEF IInv, Placed, Fits
  <1>3. Fresh' /\ Agrees'
    BY <1>1, SameRoute DEF IInv, Fresh, Agrees
  <1>4. Recorded'
    BY <1>1, NoRecordYet DEF IInv, Recorded
  <1>5. TypeOK'
    BY <1>1 DEF IInv, TypeOK
  <1> QED
    BY <1>2, <1>3, <1>4, <1>5 DEF IInv

-----------------------------------------------------------------------------
(* Nothing happens yet.                                                    *)
LEMMA InitEstablishes == AppInit => IInv
  <1> SUFFICES ASSUME AppInit PROVE IInv
    OBVIOUS
  <1>1. /\ req \in Arriving /\ remote = req.peer /\ ctxId = Absent /\ at = 0 /\ phase = "down"
        /\ header = NoHeader /\ wire = [status |-> 0, header |-> NoHeader, body |-> <<>>]
        /\ logged = 0 /\ records = <<>> /\ ops = <<>>
    BY DEF AppInit, Init
  <1>2. req \in Requests /\ req.peer \in {"proxy", "visitor"}
    BY <1>1, ChainAssumption DEF Requests
  <1>3. Fit(header, at, req, origins)
    BY <1>1 DEF Fit, NoHeader, HeaderName, Static
  <1>4. WireFit(wire, at, req, origins)
    <2>1. IsSeq(<<>>)
      BY DEF IsSeq
    <2> QED
      BY <1>1, <2>1 DEF WireFit
  <1>5. TypeOK
    <2>1. at \in 0..Len(Order) /\ DOMAIN header = HeaderName /\ ops \in Seq(OpType) /\ Len(records) <= 2
      BY <1>1, <1>3 DEF Order, Fit
    <2> QED
      BY <1>1, <1>2, <2>1 DEF TypeOK, OpType
  <1>6. Placed /\ Fresh
    BY <1>1 DEF Placed, Fresh
  <1>7. Agrees /\ Recorded
    BY <1>1 DEF Agrees, Recorded, LoggedOnce, StatusOfCleanHandler, NoFailureIsQuiet
  <1> QED
    BY <1>3, <1>4, <1>5, <1>6, <1>7 DEF IInv, Fits

(* What the handlers of the application answer.                            *)
LEMMA AnswerStep ==
  ASSUME IInv, Live \/ Fails \/ AllPassed \/ MethodNotAllowed \/ HiddenFile \/ ServeFile
               \/ Missing \/ Fallback
  PROVE  IInv'
  <1>1. Handling /\ ~IsApi
    BY DEF Live, Fails, AllPassed, MethodNotAllowed, HiddenFile, ServeFile, Missing, Fallback,
           Probing, Reading, IsSpa, IsApi
  <1>2. DOMAIN header = HeaderName
    BY DEF IInv, TypeOK
  <1>3. Kept(header, header) /\ Kept(header, AsJSON(header)) /\ Kept(header, Text(header))
        /\ Kept(header, AsShell)
    BY <1>2 DEF Kept, Protected, AsJSON, Text, AsShell, HeaderName, Static
  <1>4. Kept(header, PolicyTakenBack) /\ Kept(header, [header EXCEPT !["Content-Type"] = "by extension"])
    BY <1>2 DEF Kept, Protected, PolicyTakenBack, Text, HeaderName, Static
  <1>5. ASSUME NEW status, status \in {200, 301, 404, 405, 503}, NEW h, NEW data,
               Kept(header, h), Respond(status, h, data)
        PROVE  IInv'
    <2>1. PICK code \in 100..599 : code = status /\ code >= 200
      BY <1>5
    <2>2. Respond(code, h, data)
      BY <1>5, <2>1
    <2> QED
      BY <1>1, <1>5, <2>1, <2>2, ResponseStep
  <1>6. CASE Live
    BY <1>3, <1>5, <1>6 DEF Live
  <1>7. CASE AllPassed
    BY <1>3, <1>5, <1>7 DEF AllPassed
  <1>8. CASE Fails
    BY <1>3, <1>5, <1>8 DEF Fails
  <1>9. CASE MethodNotAllowed
    BY <1>3, <1>5, <1>9 DEF MethodNotAllowed
  <1>10. CASE HiddenFile
    BY <1>3, <1>5, <1>10 DEF HiddenFile
  <1>11. CASE Missing
    BY <1>3, <1>5, <1>11 DEF Missing
  <1>12. CASE Fallback
    BY <1>3, <1>5, <1>12 DEF Fallback
  <1>13. CASE ServeFile
    <2>1. \/ Respond(301, header, "redirect")
          \/ Respond(200, [header EXCEPT !["Content-Type"] = "by extension"], "file")
          \/ Respond(404, PolicyTakenBack, "text")
      BY <1>13 DEF ServeFile
    <2>2. CASE Respond(301, header, "redirect")
      BY <1>3, <1>5, <2>2
    <2>3. CASE Respond(200, [header EXCEPT !["Content-Type"] = "by extension"], "file")
      <3> DEFINE g == [header EXCEPT !["Content-Type"] = "by extension"]
      <3>1. Kept(header, g) /\ Respond(200, g, "file")
        BY <1>4, <2>3
      <3> HIDE DEF g
      <3> QED
        BY <1>5, <3>1
    <2>4. CASE Respond(404, PolicyTakenBack, "text")
      <3>1. Kept(header, PolicyTakenBack)
        BY <1>4
      <3> QED
        BY <1>5, <2>4, <3>1
    <2> QED
      BY <2>1, <2>2, <2>3, <2>4
  <1> QED
    BY <1>6, <1>7, <1>8, <1>9, <1>10, <1>11, <1>12, <1>13

(* Every step of the application keeps the invariant.                      *)
LEMMA StepKeeps == IInv /\ [AppNext]_avars => IInv'
  <1> SUFFICES ASSUME IInv, [AppNext]_avars PROVE IInv'
    OBVIOUS
  <1>1. CASE Stack
    <2>1. CASE RequestID \/ Recoverer \/ SecurityHeaders \/ RealIP \/ RequestLogger
      BY <2>1, DownStep
    <2>2. CASE CORS
      BY <2>2, CORSStep
    <2>3. CASE LogRequest
      BY <2>3, LogStep
    <2>4. CASE ReturnEarly
      BY <2>4, EarlyStep
    <2>5. CASE Recover
      BY <2>5, RecoverStep
    <2>6. CASE Repanic
      BY <2>6, DropStep
    <2> QED
      BY <1>1, <2>1, <2>2, <2>3, <2>4, <2>5, <2>6 DEF Stack
  <1>2. CASE Handler
    <2>1. CASE BeginProbe \/ Passes
      BY <2>1, StackRests DEF BeginProbe, Passes
    <2>2. CASE Look
      BY <2>2, LookStep
    <2>3. CASE Live \/ Fails \/ AllPassed \/ MethodNotAllowed \/ HiddenFile \/ ServeFile
               \/ Missing \/ Fallback
      BY <2>3, AnswerStep
    <2>4. CASE IsApi /\ ((\E s \in Statuses : WriteHeader(s)) \/ Write \/ Flush)
      BY <2>4, OperationSteps
    <2>5. CASE Return \/ Abort
      BY <2>5, LeaveStep
    <2> QED
      BY <1>2, <2>1, <2>2, <2>3, <2>4, <2>5 DEF Handler
  <1>3. CASE Tick \/ Cancel
    BY <1>3, StackRests DEF Tick, Cancel
  <1>4. CASE Environment
    <2>1. CASE Panic
      BY <2>1, LeaveStep
    <2>2. CASE \E c \in ToSet(Checks), state \in {"up", "down", "hung"} : Change(c, state)
      BY <2>2, StackRests DEF Change
    <2>3. CASE \E b \in Build \cup {NoBuild} : Replace(b)
      BY <2>3, StackRests DEF Replace
    <2> QED
      BY <1>3, <1>4, <2>1, <2>2, <2>3 DEF Environment
  <1>5. CASE UNCHANGED avars
    BY <1>5, StackRests DEF avars
  <1> QED
    BY <1>1, <1>2, <1>3, <1>4, <1>5 DEF AppNext

(* The inductive invariant holds.                                          *)
THEOREM Invariant == AppSpec => []IInv
  BY InitEstablishes, StepKeeps, PTL DEF AppSpec

(* The type invariant of the stack.                                        *)
THEOREM TypeCorrect == AppSpec => []TypeOK
  <1>1. IInv => TypeOK
    BY DEF IInv
  <1> QED
    BY <1>1, Invariant, PTL

(* One id in the context, the response and every record.                   *)
THEOREM OneIdentity == AppSpec => []OneIdEverywhere
  <1>1. ASSUME IInv PROVE OneIdEverywhere
    <2>1. ctxId = IF at = 0 THEN Absent ELSE IdFor(req)
      BY <1>1 DEF IInv, Placed
    <2>2. wire.status # 0 => at >= 5 /\ wire.header["X-Request-Id"] = IdFor(req)
      <3>1. wire.status # 0 => at >= 5 /\ Fit(wire.header, at, req, origins)
        BY <1>1 DEF IInv, Fits, WireFit
      <3>2. at >= 5 => at >= 1
        BY <1>1 DEF IInv, TypeOK, Order
      <3> QED
        BY <3>1, <3>2 DEF Fit
    <2>3. \A i \in DOMAIN records : records[i].id = ctxId
      BY <1>1 DEF IInv, Recorded
    <2>4. ctxId # "malformed"
      BY <2>1 DEF IdFor, Absent
    <2>5. at >= 5 => ctxId = IdFor(req) /\ ctxId # Absent
      BY <2>1 DEF IdFor, Absent
    <2> QED
      BY <2>2, <2>3, <2>4, <2>5 DEF OneIdEverywhere
  <1> QED
    BY <1>1, Invariant, PTL

(* The security headers on every response, HSTS on those over HTTPS.       *)
THEOREM SecuredAlways == AppSpec => []Secured
  <1>1. ASSUME IInv, wire.status # 0
        PROVE  /\ \A name \in Static : wire.header[name] # Absent
               /\ wire.header["Strict-Transport-Security"] # Absent <=> req.scheme = "https"
    <2>1. at >= 5 /\ Fit(wire.header, at, req, origins) /\ at \in 0..6
      BY <1>1 DEF IInv, Fits, WireFit, TypeOK, Order
    <2> QED
      BY <2>1 DEF Fit
  <1>2. IInv => Secured
    BY <1>1 DEF Secured
  <1> QED
    BY <1>2, Invariant, PTL

(* A configured origin reads the response, another one does not.           *)
THEOREM OriginsAreEnforced == AppSpec => []ReadableByAllowed
  <1>1. ASSUME IInv, wire.status # 0, req.origin # Absent
        PROVE  wire.header["Access-Control-Allow-Origin"] \in {"*", req.origin}
                 <=> origins \cap {"*", req.origin} # {}
    <2>1. at >= 5 /\ Fit(wire.header, at, req, origins)
      BY <1>1 DEF IInv, Fits, WireFit
    <2>2. AllowedFor(req, origins) <=> origins \cap {"*", req.origin} # {}
      BY DEF AllowedFor
    <2> QED
      BY <1>1, <2>1, <2>2 DEF Fit
  <1>2. IInv => ReadableByAllowed
    BY <1>1 DEF ReadableByAllowed
  <1> QED
    BY <1>2, Invariant, PTL

(* One record for a request that went past the logger or panicked.         *)
THEOREM LoggedExactlyOnce == AppSpec => []LoggedOnce
  <1>1. IInv => LoggedOnce
    BY DEF IInv, Recorded
  <1> QED
    BY <1>1, Invariant, PTL

(* The record tells the status that was sent.                              *)
THEOREM RecordIsTrue == AppSpec => []StatusOfCleanHandler
  <1>1. IInv => StatusOfCleanHandler
    BY DEF IInv, Recorded
  <1> QED
    BY <1>1, Invariant, PTL

(* Failures are recorded at level error.                                   *)
THEOREM FailuresAreLoud == AppSpec => []NoFailureIsQuiet
  <1>1. IInv => NoFailureIsQuiet
    BY DEF IInv, Recorded
  <1> QED
    BY <1>1, Invariant, PTL

(* A panic ends in Recoverer.                                              *)
LEMMA FromPanic ==
  ASSUME IInv, AppNext, phase = "panic", phase' # phase
  PROVE  Recover
  <1>1. at >= 5 /\ at \in 0..6
    BY DEF IInv, Placed, TypeOK, Order
  <1>2. ~Handling
    BY DEF Handling
  <1>3. ~Repanic
    BY <1>1, Positions DEF Repanic, Recoverable
  <1>4. ~Handler
    BY <1>2 DEF Handler, Live, BeginProbe, Passes, Fails, AllPassed, MethodNotAllowed, HiddenFile,
                Look, ServeFile, Missing, Fallback, Probing, Reading, WriteHeader, Write, Flush,
                Operate, Return, Abort
  <1>5. ~Tick /\ ~Environment
    BY <1>2 DEF Tick, Environment, Cancel, Change, Replace, Panic, Probing, Reading
  <1>6. Stack
    BY <1>4, <1>5 DEF AppNext
  <1> QED
    BY <1>3, <1>6 DEF Stack, RequestID, Recoverer, SecurityHeaders, RealIP, CORS, RequestLogger,
                      Enter, LogRequest, ReturnEarly

(* A panic is answered, and what was sent before it stands.                *)
THEOREM PanicsAreAnswered == AppSpec => PanicIsAnswered
  <1>1. ASSUME IInv, AppNext, phase = "panic", phase' # phase
        PROVE  /\ phase' = "done"
               /\ IF wire.status = 0 THEN wire'.status = 500 /\ wire'.body = <<"envelope">>
                                     ELSE wire'.status = wire.status
    <2>1. Recover
      BY <1>1, FromPanic
    <2> QED
      BY <1>1, <2>1, Recovery, First
  <1>2. IInv /\ [AppNext]_avars =>
          [phase = "panic" /\ phase' # phase =>
             /\ phase' = "done"
             /\ IF wire.status = 0 THEN wire'.status = 500 /\ wire'.body = <<"envelope">>
                                   ELSE wire'.status = wire.status]_vars
    BY <1>1 DEF avars
  <1> QED
    BY <1>2, Invariant, PTL DEF AppSpec, PanicIsAnswered

(* An abort is not answered and not reported.                              *)
THEOREM AbortsAreSilent == AppSpec => AbortIsSilent
  <1>1. ASSUME AppNext, phase = "abort", phase' # phase
        PROVE  phase' = "dropped" /\ UNCHANGED <<wire, records>>
    <2>1. ~Handling /\ ~Recover
      BY <1>1 DEF Handling, Recover, Recoverable
    <2>2. ~Handler
      BY <1>1, <2>1 DEF Handler, Live, BeginProbe, Passes, Fails, AllPassed, MethodNotAllowed,
                  HiddenFile, Look, ServeFile, Missing, Fallback, Probing, Reading, WriteHeader,
                  Write, Flush, Operate, Return, Abort
    <2>3. ~Tick /\ ~Environment
      BY <1>1, <2>1 DEF Tick, Environment, Cancel, Change, Replace, Panic, Probing, Reading
    <2>4. Stack
      BY <1>1, <2>2, <2>3 DEF AppNext
    <2>5. Repanic
      BY <1>1, <2>1, <2>4 DEF Stack, RequestID, Recoverer, SecurityHeaders, RealIP, CORS,
                        RequestLogger, Enter, LogRequest, ReturnEarly
    <2> QED
      BY <2>5 DEF Repanic
  <1>2. [AppNext]_avars =>
          [phase = "abort" /\ phase' # phase =>
             phase' = "dropped" /\ UNCHANGED <<wire, records>>]_vars
    BY <1>1 DEF avars
  <1> QED
    BY <1>2, PTL DEF AppSpec, AbortIsSilent

-----------------------------------------------------------------------------
(* The history fallback.  The router's API prefix is the one probes are    *)
(* mounted under, and the index document is not below an immutable prefix. *)
Layout == APIPrefix = <<"api">> /\ Index \notin Immutable

(* What spa.Handler found, it found for a request it serves; until it      *)
(* answers, a cache policy is that of a file that was there; and what is   *)
(* still to be sent when the handler is over is nobody's page.             *)
Looked ==
  found # "unknown" =>
    IsSpa /\ req.method \in {"GET", "HEAD"} /\ req.path \notin Dotted

Undecided ==
  phase = "down" =>
    /\ header["Content-Type"] = Absent
    /\ header["Cache-Control"] # Absent =>
         Handling /\ found = "file" /\ header["Cache-Control"] = CachePolicy

Unsent ==
  phase # "down" /\ wire.status = 0 =>
    header["Content-Type"] = Absent /\ header["Cache-Control"] = Absent

PInv == /\ client \in Build \cup {NoBuild}
        /\ Looked /\ Undecided /\ Unsent /\ ShellOnlyForPages

(* Only a page or an immutable file is in danger.                          *)
LEMMA StillPages ==
  ASSUME ShellOnlyForPages, req' = req, NEW h,
         h["Content-Type"] # "text/html", h["Cache-Control"] # "immutable",
         \/ wire'.status = wire.status /\ wire'.header = wire.header
         \/ wire'.header = h
  PROVE  ShellOnlyForPages'
  BY DEF ShellOnlyForPages, Sends, Classify

(* What WriteHeader and Write put on the wire is there already or is the   *)
(* header they are given.                                                  *)
LEMMA Commits ==
  ASSUME NEW w, NEW h, NEW s, NEW d, w = [status |-> w.status, header |-> w.header, body |-> w.body]
  PROVE  /\ \/ Sent(w, h, s) = w
            \/ w.status = 0 /\ Sent(w, h, s) = [status |-> s, header |-> h, body |-> w.body]
         /\ \/ SentBody(w, h, d).status = w.status /\ SentBody(w, h, d).header = w.header
            \/ w.status = 0 /\ SentBody(w, h, d).header = h
  <1>1. \/ Sent(w, h, s) = w
        \/ w.status = 0 /\ Sent(w, h, s) = [status |-> s, header |-> h, body |-> w.body]
    BY DEF Sent
  <1> DEFINE v == SentBody(w, h, d)
  <1>2. v = [status |-> IF w.status = 0 THEN 200 ELSE w.status,
             header |-> IF w.status = 0 THEN h ELSE w.header,
             body |-> Append(w.body, d)]
    BY Written
  <1> HIDE DEF v
  <1>3. \/ v.status = w.status /\ v.header = w.header
        \/ w.status = 0 /\ v.header = h
    BY <1>2
  <1> QED
    BY <1>1, <1>3 DEF v

(* The routes do not change under a request.                               *)
LEMMA SameRequest ==
  ASSUME req' = req
  PROVE  (IsApi' <=> IsApi) /\ (IsSpa' <=> IsSpa)
  BY DEF IsApi, IsSpa, IsLive, IsReady

(* Nothing of a request changes but what the probe and the directory do.   *)
LEMMA PagesRest ==
  ASSUME PInv, UNCHANGED vars, found' = found, client' \in Build \cup {NoBuild}
  PROVE  PInv'
  <1>1. Looked'
    BY SameRequest DEF PInv, Looked, vars
  <1>2. Undecided' /\ Unsent'
    BY DEF PInv, Undecided, Unsent, Handling, Inner, CachePolicy, vars
  <1>3. ShellOnlyForPages'
    BY DEF PInv, ShellOnlyForPages, Sends, Classify, vars
  <1> QED
    BY <1>1, <1>2, <1>3 DEF PInv

(* A step down the stack sets no such header.                              *)
LEMMA DownPages ==
  ASSUME IInv, PInv, UNCHANGED app,
         RequestID \/ Recoverer \/ SecurityHeaders \/ RealIP \/ CORS \/ RequestLogger
  PROVE  PInv'
  <1>1. /\ phase = "down" /\ at < 6 /\ at \in 0..6 /\ ~Handling /\ req' = req
        /\ DOMAIN header = HeaderName /\ wire.status = 0
        /\ wire = [status |-> wire.status, header |-> wire.header, body |-> wire.body]
    <2>1. at \in 0..6 /\ DOMAIN header = HeaderName
      BY DEF IInv, TypeOK, Order
    <2>2. phase = "down" /\ at < 6 /\ req' = req
      BY <2>1, Turn DEF RequestID, Recoverer, SecurityHeaders, RealIP, CORS, RequestLogger
    <2>3. ~Handling
      BY <2>1, <2>2, Positions DEF Handling
    <2>4. wire.status = 0 /\ wire = [status |-> wire.status, header |-> wire.header, body |-> wire.body]
      BY <2>2 DEF IInv, Fresh, Fits, WireFit
    <2> QED
      BY <2>1, <2>2, <2>3, <2>4
  <1>2. header["Content-Type"] = Absent /\ header["Cache-Control"] = Absent
    BY <1>1 DEF PInv, Undecided
  <1>3. header'["Content-Type"] = Absent /\ header'["Cache-Control"] = Absent
    <2>1. CASE RequestID
      BY <1>1, <1>2, <2>1 DEF RequestID, HeaderName, Static
    <2>2. CASE Recoverer \/ RealIP \/ RequestLogger
      BY <1>2, <2>2 DEF Recoverer, RealIP, RequestLogger
    <2>3. CASE SecurityHeaders
      BY <1>1, <1>2, <2>3 DEF SecurityHeaders, WithStatic, SetIfAbsent, HeaderName, Static
    <2>4. CASE CORS
      BY <1>1, <1>2, <2>4 DEF CORS, Decorated, HeaderName, Static
    <2> QED
      BY <2>1, <2>2, <2>3, <2>4
  <1>4. wire' = wire \/ wire'.header = header'
    <2>1. CASE CORS
      BY <1>1, <2>1 DEF CORS, Sent
    <2>2. CASE ~CORS
      BY <2>2 DEF RequestID, Recoverer, SecurityHeaders, RealIP, RequestLogger
    <2> QED
      BY <2>1, <2>2
  <1>5. ShellOnlyForPages'
    BY <1>1, <1>3, <1>4, StillPages DEF PInv, Absent
  <1>6. Looked'
    BY <1>1, SameRequest DEF PInv, Looked, app, files
  <1>7. client' \in Build \cup {NoBuild} /\ Undecided' /\ Unsent'
    BY <1>3 DEF PInv, Undecided, Unsent, app, files
  <1> QED
    BY <1>5, <1>6, <1>7 DEF PInv

(* What a response of the application may say.                             *)
MayAnswer(status, h) ==
  /\ h["Content-Type"] = "text/html" =>
       /\ req.method \in {"GET", "HEAD"} /\ req.path \notin Extended \cup Dotted
       /\ status = 200 /\ h["Cache-Control"] = "no-cache"
       /\ req.method = "GET" => ~IsPrefix(<<"api">>, req.path) /\ Classify(req.path) # "health"
  /\ h["Cache-Control"] = "immutable" =>
       status = 200 /\ req.path \in Immutable \cap UNION {Files[b] : b \in Build}

(* An answer is the first thing sent, or nothing new is sent.              *)
LEMMA RespondPages ==
  ASSUME IInv, PInv, UNCHANGED files, NEW h, NEW data,
         NEW status \in {200, 301, 404, 405, 503},
         MayAnswer(status, h), Respond(status, h, data)
  PROVE  PInv'
  <1>1. /\ phase' = "up" /\ req' = req /\ client' = client /\ found' = found
        /\ wire' = SentBody(Sent(wire, h, status), h, data)
    BY DEF Respond, files
  <1>2. wire = [status |-> wire.status, header |-> wire.header, body |-> wire.body]
    BY DEF IInv, Fits, WireFit
  <1> DEFINE v == Sent(wire, h, status)
  <1>3. v = [status |-> IF wire.status = 0 THEN status ELSE wire.status,
             header |-> IF wire.status = 0 THEN h ELSE wire.header, body |-> wire.body]
    BY <1>2 DEF Sent, Informational
  <1>4. /\ v = [status |-> v.status, header |-> v.header, body |-> v.body]
        /\ v.status = IF wire.status = 0 THEN status ELSE wire.status
        /\ v.header = IF wire.status = 0 THEN h ELSE wire.header
    BY <1>3
  <1> HIDE DEF v
  <1>5. SentBody(v, h, data) = [status |-> IF v.status = 0 THEN 200 ELSE v.status,
                                header |-> IF v.status = 0 THEN h ELSE v.header,
                                body |-> Append(v.body, data)]
    BY <1>4, Written
  <1>6. /\ wire'.status = IF wire.status = 0 THEN status ELSE wire.status
        /\ wire'.header = IF wire.status = 0 THEN h ELSE wire.header
        /\ wire'.status # 0
    BY <1>1, <1>4, <1>5 DEF v
  <1>7. ShellOnlyForPages'
    BY <1>1, <1>6 DEF PInv, MayAnswer, ShellOnlyForPages, Sends, Classify
  <1>8. Looked'
    BY <1>1, SameRequest DEF PInv, Looked
  <1>9. Undecided' /\ Unsent' /\ client' \in Build \cup {NoBuild}
    BY <1>1, <1>6 DEF PInv, Undecided, Unsent
  <1> QED
    BY <1>7, <1>8, <1>9 DEF PInv

(* The probes, and the answers of spa.Handler that carry no page.          *)
LEMMA PlainPages ==
  ASSUME IInv, PInv, Live \/ Fails \/ AllPassed \/ MethodNotAllowed \/ HiddenFile \/ Missing
  PROVE  PInv'
  <1>1. Handling /\ phase = "down" /\ DOMAIN header = HeaderName
    BY DEF Live, Fails, AllPassed, MethodNotAllowed, HiddenFile, Missing, Probing, Reading,
           Handling, IInv, TypeOK
  <1>2. found # "file"
    BY DEF PInv, Looked, Live, Fails, AllPassed, MethodNotAllowed, HiddenFile, Missing, Probing,
           Reading, IsSpa
  <1>3. header["Cache-Control"] = Absent
    BY <1>1, <1>2 DEF PInv, Undecided
  <1>4. MayAnswer(200, AsJSON(header)) /\ MayAnswer(503, AsJSON(header))
    BY <1>1, <1>3 DEF MayAnswer, AsJSON, HeaderName, Static, Absent
  <1>5. MayAnswer(404, Text(header)) /\ MayAnswer(405, Text(header))
    BY <1>1, <1>3 DEF MayAnswer, Text, HeaderName, Static, Absent
  <1>6. UNCHANGED files
    BY DEF Live, Fails, AllPassed, MethodNotAllowed, HiddenFile, Missing, app
  <1>7. CASE Live
    BY <1>4, <1>6, <1>7, RespondPages DEF Live
  <1>8. CASE Fails
    BY <1>4, <1>6, <1>8, RespondPages DEF Fails
  <1>9. CASE AllPassed
    BY <1>4, <1>6, <1>9, RespondPages DEF AllPassed
  <1>10. CASE MethodNotAllowed
    BY <1>5, <1>6, <1>10, RespondPages DEF MethodNotAllowed
  <1>11. CASE HiddenFile
    BY <1>5, <1>6, <1>11, RespondPages DEF HiddenFile
  <1>12. CASE Missing
    BY <1>5, <1>6, <1>12, RespondPages DEF Missing
  <1> QED
    BY <1>7, <1>8, <1>9, <1>10, <1>11, <1>12

(* A file is sent from the build that is there, whatever was found before. *)
LEMMA FilePages ==
  ASSUME Layout, IInv, PInv, ServeFile
  PROVE  PInv'
  <1>1. /\ Reading /\ phase = "down" /\ DOMAIN header = HeaderName /\ UNCHANGED files
        /\ header["Content-Type"] = Absent
        /\ header["Cache-Control"] \in {Absent, CachePolicy}
    BY DEF ServeFile, Reading, Handling, app, IInv, TypeOK, PInv, Undecided
  <1>2. CASE req.path = Index
    <2>1. MayAnswer(301, header)
      BY <1>1, <1>2 DEF MayAnswer, CachePolicy, Layout, Absent
    <2>2. Respond(301, header, "redirect")
      BY <1>2 DEF ServeFile
    <2> QED
      BY <1>1, <2>1, <2>2, RespondPages
  <1>3. CASE req.path # Index /\ Exists(req.path)
    <2> DEFINE g == [header EXCEPT !["Content-Type"] = "by extension"]
    <2>1. req.path \in UNION {Files[b] : b \in Build}
      BY <1>3 DEF Exists, PInv
    <2>2. MayAnswer(200, g)
      BY <1>1, <2>1 DEF MayAnswer, CachePolicy, HeaderName, Static, Absent
    <2>3. Respond(200, g, "file")
      BY <1>3 DEF ServeFile
    <2> HIDE DEF g
    <2> QED
      BY <1>1, <2>2, <2>3, RespondPages
  <1>4. CASE ~(req.path = Index \/ Exists(req.path))
    <2>1. MayAnswer(404, PolicyTakenBack)
      BY <1>1 DEF MayAnswer, PolicyTakenBack, Text, HeaderName, Static, Absent
    <2>2. Respond(404, PolicyTakenBack, "text")
      BY <1>4 DEF ServeFile
    <2> QED
      BY <1>1, <2>1, <2>2, RespondPages
  <1> QED
    BY <1>2, <1>3, <1>4

(* The probes' paths below the API prefix, spelt out.                      *)
LEMMA Below ==
  ASSUME NEW a, NEW b
  PROVE  <<a>> \o <<b>> = <<a, b>>
  <1> DEFINE s == <<a>>
             t == <<b>>
             u == s \o t
  <1>1. s \in Seq({a, b}) /\ t \in Seq({a, b}) /\ Len(s) = 1 /\ Len(t) = 1 /\ s[1] = a /\ t[1] = b
    OBVIOUS
  <1> HIDE DEF s, t
  <1>2. /\ u \in Seq({a, b}) /\ Len(u) = Len(s) + Len(t)
        /\ \A i \in 1..Len(s) + Len(t) : u[i] = IF i <= Len(s) THEN s[i] ELSE t[i - Len(s)]
    BY <1>1, ConcatProperties
  <1> HIDE DEF u
  <1>3. u \in Seq({a, b}) /\ Len(u) = 2 /\ u[1] = a /\ u[2] = b
    BY <1>1, <1>2
  <1>4. u = <<a, b>>
    BY <1>3
  <1> QED
    BY <1>4 DEF s, t, u

(* The shell answers what spa.Handler serves and found no file for.        *)
LEMMA FallbackPages ==
  ASSUME Layout, IInv, PInv, Fallback
  PROVE  PInv'
  <1>1. /\ Reading /\ IsSpa /\ DOMAIN header = HeaderName /\ UNCHANGED files
        /\ req.method \in {"GET", "HEAD"} /\ req.path \notin Extended \cup Dotted
    BY DEF Fallback, Reading, ClientRoute, app, IInv, TypeOK, PInv, Looked
  <1>2. ASSUME req.method = "GET"
        PROVE  ~IsPrefix(<<"api">>, req.path) /\ Classify(req.path) # "health"
    <2>1. ~IsPrefix(<<"api">>, req.path)
      BY <1>1 DEF IsSpa, IsApi
    <2>2. APIPrefix \o <<"health">> = <<"api", "health">> /\ APIPrefix \o <<"ready">> = <<"api", "ready">>
      BY Below DEF Layout
    <2>3. Classify(req.path) # "health"
      BY <1>1, <1>2, <2>2 DEF Classify, IsSpa, IsLive, IsReady
    <2> QED
      BY <2>1, <2>3
  <1>3. AsShell["Content-Type"] = "text/html" /\ AsShell["Cache-Control"] = "no-cache"
    BY <1>1 DEF AsShell, HeaderName, Static
  <1>4. MayAnswer(200, AsShell)
    BY <1>1, <1>2, <1>3 DEF MayAnswer
  <1> QED
    BY <1>1, <1>4, RespondPages DEF Fallback

(* The policy spa.Handler prepares is that of the file it saw.             *)
LEMMA LookPages ==
  ASSUME IInv, PInv, Look
  PROVE  PInv'
  <1>1. /\ Reading /\ req.path \notin Dotted /\ DOMAIN header = HeaderName /\ phase = "down"
        /\ UNCHANGED <<req, at, phase, wire, client>>
        /\ found' = IF Exists(req.path) THEN "file" ELSE "nothing"
    BY DEF Look, Reading, Handling, IInv, TypeOK
  <1>2. found = "unknown"
    BY DEF Look
  <1>3. header["Content-Type"] = Absent /\ header["Cache-Control"] = Absent
    BY <1>1, <1>2 DEF PInv, Undecided
  <1>4. /\ header'["Content-Type"] = Absent
        /\ header'["Cache-Control"] = IF Exists(req.path) THEN CachePolicy ELSE Absent
    BY <1>1, <1>3 DEF Look, HeaderName, Static
  <1>5. Handling' /\ CachePolicy' = CachePolicy
    BY <1>1 DEF Reading, Handling, Inner, CachePolicy
  <1>6. Looked'
    BY <1>1, SameRequest DEF Looked, Reading
  <1>7. Undecided' /\ Unsent'
    BY <1>1, <1>4, <1>5 DEF Undecided, Unsent
  <1>8. ShellOnlyForPages'
    BY <1>1 DEF PInv, ShellOnlyForPages, Sends, Classify
  <1> QED
    BY <1>1, <1>6, <1>7, <1>8 DEF PInv

(* An API handler of the model sets neither header.                        *)
LEMMA OperationPages ==
  ASSUME IInv, PInv, IsApi, UNCHANGED app, (\E s \in Statuses : WriteHeader(s)) \/ Write \/ Flush
  PROVE  PInv'
  <1>1. /\ phase = "down" /\ UNCHANGED <<req, at, phase, header, found, client>>
        /\ wire = [status |-> wire.status, header |-> wire.header, body |-> wire.body]
    BY DEF WriteHeader, Write, Flush, Operate, app, files, IInv, Fits, WireFit
  <1>2. header["Content-Type"] = Absent /\ header["Cache-Control"] = Absent
    BY <1>1 DEF PInv, Looked, Undecided, IsSpa
  <1>3. \/ wire'.status = wire.status /\ wire'.header = wire.header
        \/ wire'.header = header
    <2>1. CASE \E s \in Statuses : WriteHeader(s)
      BY <2>1 DEF WriteHeader, Sent
    <2>2. CASE Write
      BY <1>1, <2>2, Commits DEF Write
    <2>3. CASE Flush
      BY <2>3 DEF Flush, Sent
    <2> QED
      BY <2>1, <2>2, <2>3
  <1>4. ShellOnlyForPages'
    BY <1>1, <1>2, <1>3, StillPages DEF PInv, Absent
  <1>5. Looked'
    BY <1>1, SameRequest DEF PInv, Looked
  <1>6. client' \in Build \cup {NoBuild} /\ Undecided' /\ Unsent'
    BY <1>1, <1>2 DEF PInv, Undecided, Unsent
  <1> QED
    BY <1>4, <1>5, <1>6 DEF PInv

(* Nor does who leaves the handler have one prepared.                      *)
LEMMA LeavePages ==
  ASSUME IInv, PInv, UNCHANGED app,
         \/ IsApi /\ (Return \/ Abort)
         \/ Panic /\ ~(Handling /\ IsSpa)
  PROVE  PInv'
  <1>1. /\ phase' # "down" /\ UNCHANGED <<req, at, header, wire, found, client>>
    BY DEF Return, Abort, Panic, app, files
  <1>2. phase = "down" => header["Content-Type"] = Absent /\ header["Cache-Control"] = Absent
    BY DEF PInv, Looked, Undecided, IsSpa
  <1>3. Unsent'
    BY <1>1, <1>2 DEF PInv, Unsent
  <1>4. Looked'
    BY <1>1, SameRequest DEF PInv, Looked
  <1>5. Undecided'
    BY <1>1 DEF Undecided
  <1>6. ShellOnlyForPages'
    BY <1>1 DEF PInv, ShellOnlyForPages, Sends, Classify
  <1> QED
    BY <1>1, <1>3, <1>4, <1>5, <1>6 DEF PInv

(* The way back sends what was prepared, or the envelope.                  *)
LEMMA UpPages ==
  ASSUME IInv, PInv, UNCHANGED app, LogRequest \/ ReturnEarly \/ Recover \/ Repanic
  PROVE  PInv'
  <1>1. /\ phase # "down" /\ phase' \in {"done", "dropped"} /\ UNCHANGED <<req, at, found, client>>
        /\ DOMAIN header = HeaderName
        /\ wire = [status |-> wire.status, header |-> wire.header, body |-> wire.body]
    <2>1. /\ phase # "down" /\ phase' \in {"done", "dropped"} /\ UNCHANGED <<req, at>>
      BY DEF LogRequest, ReturnEarly, Recover, Repanic, Recoverable, AnyPanic
    <2>2. DOMAIN header = HeaderName
      BY DEF IInv, TypeOK
    <2>3. wire = [status |-> wire.status, header |-> wire.header, body |-> wire.body]
      BY DEF IInv, Fits, WireFit
    <2> QED
      BY <2>1, <2>2, <2>3 DEF app, files
  <1>2. /\ wire.status = 0 => header'["Content-Type"] \in {Absent, "application/json"}
        /\ wire.status = 0 => header'["Cache-Control"] = Absent
    BY <1>1 DEF PInv, Unsent, LogRequest, ReturnEarly, Recover, Repanic, AsJSON, HeaderName, Static
  <1>3. \/ wire'.status = wire.status /\ wire'.header = wire.header
           /\ (wire.status = 0 => header' = header)
        \/ wire.status = 0 /\ wire'.status # 0 /\ wire'.header = header'
    <2>1. CASE LogRequest
      <3>1. wire' = Sent(wire, header, 200) /\ header' = header
        BY <2>1 DEF LogRequest
      <3>2. CASE wire.status # 0
        BY <3>1, <3>2 DEF Sent
      <3>3. CASE wire.status = 0
        <4>1. wire' = [status |-> 200, header |-> header, body |-> wire.body]
          BY <3>1, <3>3 DEF Sent, Informational
        <4> QED
          BY <3>1, <3>3, <4>1
      <3> QED
        BY <3>2, <3>3
    <2>2. CASE ReturnEarly \/ Repanic
      BY <2>2 DEF ReturnEarly, Repanic
    <2>3. CASE Recover
      <3> DEFINE v == Sent(wire, header', 500)
      <3>1. v = [status |-> IF wire.status = 0 THEN 500 ELSE wire.status,
                 header |-> IF wire.status = 0 THEN header' ELSE wire.header, body |-> wire.body]
        BY <1>1 DEF Sent, Informational
      <3>2. /\ v = [status |-> v.status, header |-> v.header, body |-> v.body]
            /\ v.status = IF wire.status = 0 THEN 500 ELSE wire.status
            /\ v.header = IF wire.status = 0 THEN header' ELSE wire.header
        BY <3>1
      <3>3. wire' = SentBody(v, header', "envelope")
        BY <2>3 DEF Recover
      <3> HIDE DEF v
      <3>4. wire' = [status |-> IF v.status = 0 THEN 200 ELSE v.status,
                     header |-> IF v.status = 0 THEN header' ELSE v.header,
                     body |-> Append(v.body, "envelope")]
        BY <3>2, <3>3, Written
      <3> QED
        BY <3>2, <3>4
    <2> QED
      BY <2>1, <2>2, <2>3
  <1>4. ShellOnlyForPages'
    <2>1. CASE wire.status = 0
      BY <1>1, <1>2, <1>3, <2>1, StillPages DEF PInv, Absent
    <2>2. CASE wire.status # 0
      BY <1>1, <1>3, <2>2 DEF PInv, ShellOnlyForPages, Sends, Classify
    <2> QED
      BY <2>1, <2>2
  <1>5. Looked'
    BY <1>1, SameRequest DEF PInv, Looked
  <1>6. Undecided'
    BY <1>1 DEF Undecided
  <1>7. Unsent'
    BY <1>1, <1>3 DEF PInv, Unsent
  <1> QED
    BY <1>1, <1>4, <1>5, <1>6, <1>7 DEF PInv

-----------------------------------------------------------------------------
(* No page is sent yet.                                                    *)
LEMMA InitPages == AppInit => PInv
  BY DEF AppInit, Init, PInv, Looked, Undecided, Unsent, ShellOnlyForPages, Sends, NoHeader, HeaderName, Static

(* Every step of the application keeps the pages apart.                    *)
LEMMA StepPages ==
  ASSUME Layout
  PROVE  IInv /\ PInv /\ [AppNext]_avars => PInv'
  <1> SUFFICES ASSUME IInv, PInv, [AppNext]_avars PROVE PInv'
    OBVIOUS
  <1>1. CASE Stack
    BY <1>1, DownPages, UpPages DEF Stack
  <1>2. CASE Handler
    <2>1. CASE BeginProbe \/ Passes
      BY <2>1, PagesRest DEF BeginProbe, Passes, files, PInv
    <2>2. CASE Live \/ Fails \/ AllPassed \/ MethodNotAllowed \/ HiddenFile \/ Missing
      BY <2>2, PlainPages
    <2>3. CASE Look
      BY <2>3, LookPages
    <2>4. CASE ServeFile
      BY <2>4, FilePages
    <2>5. CASE Fallback
      BY <2>5, FallbackPages
    <2>6. CASE IsApi /\ UNCHANGED app /\ ((\E s \in Statuses : WriteHeader(s)) \/ Write \/ Flush)
      BY <2>6, OperationPages
    <2>7. CASE IsApi /\ UNCHANGED app /\ (Return \/ Abort)
      BY <2>7, LeavePages
    <2> QED
      BY <1>2, <2>1, <2>2, <2>3, <2>4, <2>5, <2>6, <2>7 DEF Handler
  <1>3. CASE Tick \/ Cancel
    BY <1>3, PagesRest DEF Tick, Cancel, files, PInv
  <1>4. CASE Environment
    <2>1. CASE Panic /\ ~(Handling /\ IsSpa) /\ UNCHANGED app
      BY <2>1, LeavePages
    <2>2. CASE \E c \in ToSet(Checks), state \in {"up", "down", "hung"} : Change(c, state)
      BY <2>2, PagesRest DEF Change, files, PInv
    <2>3. CASE \E b \in Build \cup {NoBuild} : Replace(b)
      BY <2>3, PagesRest DEF Replace
    <2> QED
      BY <1>3, <1>4, <2>1, <2>2, <2>3 DEF Environment
  <1>5. CASE UNCHANGED avars
    BY <1>5, PagesRest DEF avars, app, files, PInv
  <1> QED
    BY <1>1, <1>2, <1>3, <1>4, <1>5 DEF AppNext

(* The shell answers pages alone, and only a file of a build is sent as    *)
(* immutable, with the directory replaced at any moment.                   *)
THEOREM ShellIsForPages ==
  ASSUME Layout
  PROVE  AppSpec => []ShellOnlyForPages
  <1>1. PInv => ShellOnlyForPages
    BY DEF PInv
  <1>2. IInv /\ PInv /\ [AppNext]_avars => PInv'
    BY StepPages
  <1> QED
    BY <1>1, <1>2, InitPages, Invariant, PTL DEF AppSpec
-----------------------------------------------------------------------------
(* The readiness probe.  Its checks are a sequence.                        *)
LEMMA ChecksFacts ==
  /\ Len(Checks) \in Nat /\ Deadline \in Nat
  /\ ToSet(Checks) = {Checks[i] : i \in 1..Len(Checks)}
  <1>1. Checks \in Seq(STRING) /\ Deadline \in Nat
    BY AppAssumption
  <1> QED
    BY <1>1 DEF ToSet

(* While a probe runs: the checks it has passed were up, what is up or not *)
(* up now is in its history; its checks expire together, Deadline ticks    *)
(* after it began, and nothing heedful goes on for longer.                 *)
Tracked ==
  /\ DOMAIN deps = ToSet(Checks) /\ wasUp \subseteq ToSet(Checks)
  /\ next \in Nat /\ clock \in Nat
  /\ IF next = 0 THEN clock = 0 ELSE due = Deadline
  /\ heedless = {} => clock <= Deadline
  /\ phase = "down" /\ at < 6 => next = 0
  /\ Probing => /\ \A i \in 1..Len(Checks) : i < next => Checks[i] \in wasUp
                /\ ToSet(Checks) \ NotUp(deps) \subseteq wasUp
                /\ NotUp(deps) \subseteq wasDown

(* Once it is over, its answer stands against its history.                 *)
Truthful ==
  /\ wire.body = <<"ready">> => wasUp = ToSet(Checks)
  /\ wire.body = <<"not_ready">> => wasDown # {} \/ gone \/ clock >= Deadline

HInv == Tracked /\ (IsReady /\ phase # "down" => Truthful)

Watch == <<wasUp, wasDown>>

(* Until the readiness handler answers, nothing is in the body.            *)
LEMMA NoBodyYet ==
  ASSUME IInv, IsReady, phase = "down"
  PROVE  wire.body = <<>>
  <1>1. at \in 0..6 /\ ~IsApi
    BY DEF IInv, TypeOK, Order, IsApi
  <1>2. ops = <<>>
    BY <1>1 DEF IInv, Fresh
  <1> QED
    BY <1>2 DEF IInv, Fresh, Fits, WireFit

(* The envelope is no answer of a probe.                                   *)
LEMMA EnvelopeIsNoAnswer ==
  ASSUME NEW s, IsSeq(s)
  PROVE  Append(s, "envelope") # <<"ready">> /\ Append(s, "envelope") # <<"not_ready">>
  <1>1. PICK S : s \in Seq(S)
    BY DEF IsSeq
  <1> DEFINE R == S \cup {"envelope"}
             e == "envelope"
  <1>2. s \in Seq(R) /\ e \in R /\ e = "envelope"
    BY <1>1
  <1> HIDE DEF R, e
  <1>3. Len(s) \in Nat /\ Len(Append(s, e)) = Len(s) + 1 /\ Append(s, e)[Len(s) + 1] = e
    BY <1>2, AppendProperties
  <1>4. ASSUME NEW a, Append(s, e) = <<a>> PROVE a = e
    <2>1. Len(s) + 1 = 1
      BY <1>3, <1>4
    <2> QED
      BY <1>3, <1>4, <2>1
  <1> QED
    BY <1>2, <1>4 DEF e

(* Steps that are none of the probe's own.                                 *)
LEMMA RestTracked ==
  ASSUME Tracked, UNCHANGED <<probe, Watch>>,
         Probing' => Probing,
         phase' = "down" /\ at' < 6 => phase = "down" /\ at < 6
  PROVE  Tracked'
  <1>1. UNCHANGED <<deps, heedless, next, clock, due, wasUp, wasDown>>
    BY DEF probe, Watch
  <1> QED
    BY <1>1 DEF Tracked, NotUp

(* The stack records nothing about a probe, and what it sends is no answer *)
(* of one.                                                                 *)
LEMMA StackProbe ==
  ASSUME IInv, HInv, Stack, UNCHANGED app, ProbeNext
  PROVE  HInv'
  <1>1. at \in 0..6 /\ req' = req /\ UNCHANGED probe /\ IsSeq(wire.body)
        /\ wire = [status |-> wire.status, header |-> wire.header, body |-> wire.body]
    <2>1. at \in 0..6 /\ IsSeq(wire.body)
          /\ wire = [status |-> wire.status, header |-> wire.header, body |-> wire.body]
      BY DEF IInv, TypeOK, Order, Fits, WireFit
    <2> QED
      BY <2>1 DEF app, Stack, RequestID, Recoverer, SecurityHeaders, RealIP, CORS, RequestLogger,
                  LogRequest, ReturnEarly, Recover, Repanic
  <1>2. (IsReady' <=> IsReady) /\ next' = next
    BY <1>1 DEF IsReady, probe
  <1>3. CASE RequestID \/ Recoverer \/ SecurityHeaders \/ RealIP \/ CORS \/ RequestLogger
    <2>1. phase = "down" /\ at < 6 /\ next = 0
      BY <1>1, <1>3, Turn DEF HInv, Tracked, RequestID, Recoverer, SecurityHeaders, RealIP, CORS,
                              RequestLogger
    <2>2. ~Probing' /\ UNCHANGED Watch
      BY <1>2, <2>1 DEF Probing, ProbeNext, Watch
    <2>3. Tracked'
      BY <1>1, <2>1, <2>2, RestTracked DEF HInv
    <2>4. ASSUME IsReady' PROVE Truthful'
      <3>1. wire.body = <<>>
        BY <1>2, <2>1, <2>4, NoBodyYet
      <3>2. wire'.body = <<>>
        BY <1>1, <1>3, <3>1 DEF RequestID, Recoverer, SecurityHeaders, RealIP, CORS, RequestLogger,
                                Sent
      <3> QED
        BY <3>2 DEF Truthful
    <2> QED
      BY <2>3, <2>4 DEF HInv
  <1>4. CASE LogRequest \/ ReturnEarly \/ Recover \/ Repanic
    <2>1. phase # "down" /\ phase' # "down"
      BY <1>4 DEF LogRequest, ReturnEarly, Recover, Repanic, Recoverable, AnyPanic
    <2>2. ~Probing' /\ UNCHANGED Watch
      BY <2>1 DEF Probing, Handling, ProbeNext, Watch
    <2>3. Tracked'
      BY <1>1, <2>1, <2>2, RestTracked DEF HInv
    <2>4. ASSUME IsReady' PROVE Truthful'
      <3>1. Truthful
        BY <1>2, <2>1, <2>4 DEF HInv
      <3>2. CASE ~Recover
        <4>1. wire'.body = wire.body
          <5>1. CASE LogRequest
            BY <5>1 DEF LogRequest, Sent
          <5>2. CASE ReturnEarly \/ Repanic
            BY <5>2 DEF ReturnEarly, Repanic
          <5> QED
            BY <1>4, <3>2, <5>1, <5>2
        <4> QED
          BY <1>1, <2>2, <3>1, <4>1 DEF Truthful, Watch, probe
      <3>3. CASE Recover
        <4> DEFINE v == Sent(wire, header', 500)
        <4>1. v = [status |-> v.status, header |-> v.header, body |-> v.body] /\ v.body = wire.body
          BY <1>1 DEF Sent
        <4>2. wire' = SentBody(v, header', "envelope")
          BY <3>3 DEF Recover
        <4> HIDE DEF v
        <4>3. wire'.body = Append(wire.body, "envelope")
          BY <4>1, <4>2, Written
        <4> QED
          BY <1>1, <4>3, EnvelopeIsNoAnswer DEF Truthful
      <3> QED
        BY <3>2, <3>3
    <2> QED
      BY <2>3, <2>4 DEF HInv
  <1> QED
    BY <1>3, <1>4 DEF Stack

(* Time, a passed check and a dependency that changes are what the history *)
(* is about.                                                               *)
LEMMA RunningProbe ==
  ASSUME HInv, ProbeNext,
         \/ BeginProbe \/ Passes \/ Tick \/ Cancel
         \/ \E c \in ToSet(Checks), state \in {"up", "down", "hung"} : Change(c, state)
  PROVE  HInv'
  <1>1. UNCHANGED vars /\ Handling /\ IsReady
    BY DEF BeginProbe, Passes, Tick, Cancel, Change, Probing
  <1>2. /\ Handling' /\ IsReady' /\ phase' = "down" /\ ~(at' < 6)
        /\ (Probing' <=> next' # 0)
    <2>1. Handling' /\ IsReady' /\ phase' = "down"
      BY <1>1 DEF vars, Handling, Inner, IsReady
    <2>2. at' = 6
      BY <2>1 DEF Handling, Inner, Order
    <2> QED
      BY <2>1, <2>2 DEF Probing
  <1>3. /\ next' \in Nat /\ next' # 0 /\ clock' \in Nat /\ due' = Deadline
        /\ heedless' = {} => clock' <= Deadline
        /\ DOMAIN deps' = ToSet(Checks)
    <2>1. CASE BeginProbe
      BY <2>1, <1>2, ChecksFacts DEF HInv, Tracked, BeginProbe, ProbeNext
    <2>2. CASE Passes
      BY <2>2, <1>2 DEF HInv, Tracked, Passes, Due, ProbeNext, Probing
    <2>3. CASE Tick
      BY <2>3, <1>2, ChecksFacts DEF HInv, Tracked, Tick, Interrupted, Heeds, Expired, ProbeNext, Probing
    <2>5. CASE Cancel
      BY <2>5, <1>2 DEF HInv, Tracked, Cancel, ProbeNext, Probing
    <2>4. CASE \E c \in ToSet(Checks), state \in {"up", "down", "hung"} : Change(c, state)
      BY <2>4, <1>2 DEF HInv, Tracked, Change, ProbeNext, Probing
    <2> QED
      BY <2>1, <2>2, <2>3, <2>4, <2>5
  <1>4. /\ wasUp' = wasUp \cup (DOMAIN deps \ NotUp(deps'))
        /\ wasDown' = wasDown \cup NotUp(deps')
    BY <1>2, <1>3 DEF ProbeNext
  <1>5. DOMAIN deps = ToSet(Checks) /\ wasUp \subseteq ToSet(Checks)
    BY DEF HInv, Tracked
  <1>6. ASSUME NEW i \in 1..Len(Checks), i < next' PROVE Checks[i] \in wasUp'
    <2>1. CASE BeginProbe
      BY <1>6, <2>1, ChecksFacts DEF BeginProbe
    <2>2. CASE ~BeginProbe /\ i < next
      <3>1. Probing
        BY <2>2 DEF Passes, Tick, Cancel, Change
      <3> QED
        BY <1>4, <2>2, <3>1 DEF HInv, Tracked
    <2>3. CASE ~BeginProbe /\ ~(i < next)
      <3>1. Passes
        BY <1>6, <2>3 DEF Tick, Cancel, Change
      <3>2. i = next
        BY <1>6, <2>3, <3>1, ChecksFacts DEF Passes, HInv, Tracked
      <3>3. Checks[i] \in ToSet(Checks) /\ deps[Checks[i]] = "up" /\ deps' = deps
        BY <3>1, <3>2, ChecksFacts DEF Passes
      <3> QED
        BY <1>4, <1>5, <3>3 DEF NotUp
    <2> QED
      BY <2>1, <2>2, <2>3
  <1>7. Tracked'
    BY <1>2, <1>3, <1>4, <1>5, <1>6 DEF Tracked
  <1> QED
    BY <1>2, <1>7 DEF HInv

(* The answer of a probe is its history's.                                 *)
LEMMA AnswerProbe ==
  ASSUME IInv, HInv, ProbeNext, Fails \/ AllPassed
  PROVE  HInv'
  <1>1. Probing /\ phase = "down" /\ UNCHANGED app
    BY DEF Fails, AllPassed, Probing, Handling
  <1>2. PICK d : /\ d \in {"ready", "not_ready"}
                 /\ d = "ready" => AllPassed
                 /\ d = "not_ready" => Fails
                 /\ \E s \in {200, 503} : Respond(s, AsJSON(header), d)
    BY DEF Fails, AllPassed
  <1>3. PICK s \in {200, 503} : Respond(s, AsJSON(header), d)
    BY <1>2
  <1>4. phase' = "up" /\ wire' = SentBody(Sent(wire, AsJSON(header), s), AsJSON(header), d)
    BY <1>3 DEF Respond
  <1>5. ~Probing' /\ UNCHANGED Watch
    BY <1>4 DEF Probing, Handling, ProbeNext, Watch
  <1>6. Tracked'
    BY <1>1, <1>4, <1>5, RestTracked DEF HInv, app
  <1>7. wire'.body = <<d>>
    <2>1. wire.body = <<>>
      BY <1>1, NoBodyYet DEF Probing
    <2>2. wire = [status |-> wire.status, header |-> wire.header, body |-> wire.body]
      BY DEF IInv, Fits, WireFit
    <2> DEFINE v == Sent(wire, AsJSON(header), s)
    <2>3. v = [status |-> v.status, header |-> v.header, body |-> v.body] /\ v.body = <<>>
      BY <2>1, <2>2 DEF Sent
    <2> HIDE DEF v
    <2>4. SentBody(v, AsJSON(header), d).body = Append(<<>>, d)
      BY <2>3, Written
    <2> QED
      BY <1>4, <2>4, First DEF v
  <1>8. CASE d = "ready"
    <2>1. AllPassed /\ next > Len(Checks)
      BY <1>2, <1>8 DEF AllPassed
    <2>2. \A i \in 1..Len(Checks) : Checks[i] \in wasUp
      BY <1>1, <2>1, ChecksFacts DEF HInv, Tracked
    <2>3. wasUp = ToSet(Checks)
      BY <2>2, ChecksFacts DEF HInv, Tracked
    <2>4. wire'.body[1] = "ready" /\ wire'.body # <<"not_ready">>
      BY <1>7, <1>8
    <2>5. Truthful'
      BY <1>5, <2>3, <2>4 DEF Truthful, Watch
    <2> QED
      BY <1>6, <2>5 DEF HInv
  <1>9. CASE d = "not_ready"
    <2>1. Fails /\ next \in 1..Len(Checks)
      BY <1>1, <1>2, <1>9, ChecksFacts DEF Fails, Probing, HInv, Tracked
    <2>2. Checks[next] \in DOMAIN deps
      BY <2>1, ChecksFacts DEF HInv, Tracked
    <2>3. wasDown # {} \/ gone \/ clock >= Deadline
      <3>1. CASE deps[Checks[next]] = "down"
        BY <1>1, <2>2, <3>1 DEF HInv, Tracked, NotUp
      <3>2. CASE Interrupted
        BY <2>1, <3>2, ChecksFacts DEF HInv, Tracked, Interrupted, Expired
      <3> QED
        BY <2>1, <3>1, <3>2 DEF Fails
    <2>4. wire'.body[1] = "not_ready" /\ wire'.body # <<"ready">>
      BY <1>7, <1>9
    <2>5. Truthful'
      BY <1>1, <1>5, <2>3, <2>4 DEF Truthful, Watch, app, probe
    <2> QED
      BY <1>6, <2>5 DEF HInv
  <1> QED
    BY <1>2, <1>8, <1>9

(* Other requests have no probe, and a panic answers nothing itself.       *)
LEMMA OtherProbe ==
  ASSUME IInv, HInv, ProbeNext, UNCHANGED probe, req' = req,
         \/ ~IsReady /\ (phase' = "down" /\ at' < 6 => phase = "down" /\ at < 6)
         \/ Panic
  PROVE  HInv'
  <1>1. IsReady' <=> IsReady
    BY DEF IsReady
  <1>2. CASE ~IsReady /\ (phase' = "down" /\ at' < 6 => phase = "down" /\ at < 6)
    <2>1. ~Probing' /\ UNCHANGED Watch
      BY <1>1, <1>2 DEF Probing, ProbeNext, Watch
    <2> QED
      BY <1>1, <1>2, <2>1, RestTracked DEF HInv
  <1>3. CASE Panic
    <2>1. phase' = "panic" /\ wire' = wire
      BY <1>3 DEF Panic
    <2>2. ~Probing' /\ UNCHANGED Watch
      BY <2>1 DEF Probing, Handling, ProbeNext, Watch
    <2>3. Tracked'
      BY <2>1, <2>2, RestTracked DEF HInv
    <2>4. ASSUME IsReady PROVE Truthful'
      <3>1. CASE phase = "down"
        BY <2>1, <2>4, <3>1, NoBodyYet DEF Truthful
      <3>2. CASE phase # "down"
        BY <2>1, <2>2, <2>4, <3>2 DEF HInv, Truthful, Watch, probe
      <3> QED
        BY <3>1, <3>2
    <2> QED
      BY <1>1, <2>3, <2>4 DEF HInv
  <1> QED
    BY <1>2, <1>3

(* Every step keeps the probe's answer and its history in agreement.       *)
LEMMA StepProbe == IInv /\ HInv /\ [ProbeNext]_pvars => HInv'
  <1> SUFFICES ASSUME IInv, HInv, [ProbeNext]_pvars PROVE HInv'
    OBVIOUS
  <1>1. CASE UNCHANGED pvars
    BY <1>1 DEF pvars, avars, vars, app, probe, files, HInv, Tracked, Truthful, Probing, Handling, Inner,
                IsReady, NotUp
  <1>2. CASE ProbeNext
    <2> USE <1>2
    <2>1. CASE Stack
      BY <2>1, StackProbe DEF Stack
    <2>2. CASE BeginProbe \/ Passes \/ Tick \/ Cancel
               \/ \E c \in ToSet(Checks), state \in {"up", "down", "hung"} : Change(c, state)
      BY <2>2, RunningProbe
    <2>3. CASE Fails \/ AllPassed
      BY <2>3, AnswerProbe
    <2>4. CASE Live \/ MethodNotAllowed \/ HiddenFile \/ Look \/ ServeFile \/ Missing \/ Fallback
               \/ \E b \in Build \cup {NoBuild} : Replace(b)
      <3>1. Handling /\ ~IsReady
        <4>1. CASE Live
          BY <4>1 DEF Live, IsLive, IsReady
        <4>2. CASE ~Live
          BY <2>4, <4>2 DEF MethodNotAllowed, HiddenFile, Look, ServeFile, Missing, Fallback, Replace,
                            Reading, IsSpa
        <4> QED
          BY <4>1, <4>2
      <3>2. UNCHANGED <<probe, req, at>>
        BY <2>4 DEF Live, MethodNotAllowed, HiddenFile, Look, ServeFile, Missing, Fallback, Replace,
                    Respond, app, vars
      <3>3. phase = "down"
        BY <3>1 DEF Handling
      <3> QED
        BY <3>1, <3>2, <3>3, OtherProbe
    <2>5. CASE IsApi /\ UNCHANGED app /\ (\/ \E s \in Statuses : WriteHeader(s)
                                          \/ Write \/ Flush \/ Return \/ Abort)
      <3>1. ~IsReady /\ phase = "down" /\ UNCHANGED <<probe, req, at>>
        BY <2>5 DEF IsApi, app, WriteHeader, Write, Flush, Operate, Return, Abort
      <3> QED
        BY <3>1, OtherProbe
    <2>6. CASE Panic /\ ~(Handling /\ IsSpa) /\ UNCHANGED app
      BY <2>6, OtherProbe DEF Panic, app
    <2> QED
      BY <2>1, <2>2, <2>3, <2>4, <2>5, <2>6 DEF ProbeNext, AppNext, Handler, Environment
  <1> QED
    BY <1>1, <1>2

(* Nothing is known of a probe that has not begun.                         *)
LEMMA InitProbe == ProbeInit => HInv
  BY ChecksFacts DEF ProbeInit, AppInit, Init, HInv, Tracked, Probing

(* "ready" and "not_ready" are about this probe: every dependency was up   *)
(* at some time while it ran, or one was not, the client left or the whole *)
(* deadline went by, and heedful checks never take more than it; for any   *)
(* checks, any deadline and dependencies that come and go.                 *)
THEOREM ProbesAreHonest == ProbeSpec => []ReadyIsHonest
  <1>1. ProbeInit => IInv /\ HInv
    BY InitEstablishes, InitProbe DEF ProbeInit
  <1>2. IInv /\ HInv /\ [ProbeNext]_pvars => IInv' /\ HInv'
    <2>1. [ProbeNext]_pvars => [AppNext]_avars
      BY DEF ProbeNext, pvars
    <2> QED
      BY <2>1, StepKeeps, StepProbe
  <1>3. HInv => ReadyIsHonest
    <2> SUFFICES ASSUME HInv, IsReady, phase = "done" PROVE Truthful /\ (heedless = {} => clock <= Deadline)
      BY DEF ReadyIsHonest, Truthful
    <2> QED
      BY ChecksFacts DEF HInv, Tracked
  <1> QED
    BY <1>1, <1>2, <1>3, PTL DEF ProbeSpec
=============================================================================
