-------------------------------- MODULE MCApp ---------------------------------
(***************************************************************************)
(* An application with two readiness checks and two builds of its client.  *)
(***************************************************************************)
EXTENDS AppProbe

Api == <<"api">>
ApiPath == <<"api", "items">>
Probes == {<<"health">>, <<"api", "health">>, <<"ready">>, <<"api", "ready">>}
OldChunk == <<"_app", "old.js">>
NewChunk == <<"_app", "new.js">>
Robots == <<"robots.txt">>
ClientPaths == {<<>>, <<"settings">>, Index, Robots, OldChunk, NewChunk, <<".env">>}
Paths == Probes \cup ClientPaths \cup {ApiPath}

(* Every request for the API; the others over HTTPS through the proxy and  *)
(* without an id.                                                          *)
Arrivals ==
  {r \in Requests : \/ r.path = ApiPath /\ r.method # "HEAD"
                    \/ r.rid = Absent /\ r.peer = "proxy" /\ r.scheme = "https" /\ r.claimed = <<>>}

TwoChecks == <<"db", "cache">>
Builds == {"old", "new"}
BuildFiles == [b \in Builds |-> {Index, Robots, IF b = "old" THEN OldChunk ELSE NewChunk}]
WithExtension == {Index, Robots, OldChunk, NewChunk}
WithDot == {<<".env">>}
Hashed == {OldChunk, NewChunk}

(* Only a probe reads the dependencies, only the client's handler the      *)
(* directory: for other requests they are any fixed value.                 *)
MCInit == /\ ProbeInit
          /\ ~IsReady => heedless = {} /\ \A c \in DOMAIN deps : deps[c] = "up"
          /\ ~IsSpa => client = "old"

MCSpec == MCInit /\ [][ProbeNext]_pvars /\ Fairness
=============================================================================
