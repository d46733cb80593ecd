-------------------------------- MODULE RealIP --------------------------------
(***************************************************************************)
(* Whose request is it?  TRUSTED_PROXIES (env/env.go) decides which peers  *)
(* may speak for a visitor; RealIP (middleware/realip.go) resolves         *)
(* RemoteAddr, the key of every rate limit, from what the hops in front of *)
(* the server wrote into X-Forwarded-For and the CDN's own header.         *)
(*                                                                         *)
(* A request starts with whatever its sender put into the two headers,     *)
(* goes through at most one edge of the CDN and a few proxies, each of     *)
(* which extends or replaces the chain, and reaches the server, which sees *)
(* the address of the last hop and the headers.                            *)
(***************************************************************************)
EXTENDS Integers, SequencesExt

CONSTANTS Visitors,       \* public addresses of senders
          Neighbours,     \* other hosts of the proxies' private network
          Proxies,        \* the proxies in front of the server, all private
          Edges,          \* the CDN's edges
          Published,      \* those the compiled-in list of edges names
          Literals,       \* what a literal of TRUSTED_PROXIES stands for
          Settings,       \* the values of TRUSTED_PROXIES, as sets of entries
                          \* between its commas, {} when it is not set
          MaxSeeded,      \* bound: hops the sender writes into the header
          MaxProxies      \* bound: proxies a request passes

ASSUME RealIPAssumption == /\ Published \subseteq Edges
                           /\ MaxSeeded \in Nat /\ MaxProxies \in Nat

VARIABLES
  phase,      \* "boot", "refused" (the setting is malformed), "way", "served"
  setting,    \* TRUSTED_PROXIES
  trusted,    \* RealIPConfig.Trusted
  cdn,        \* RealIPConfig.CDN; its Header is configured with it
  sender,     \* who sent the request
  from,       \* the hop it is at, RemoteAddr when it arrives
  forwarded,  \* X-Forwarded-For, <<>> when absent
  visitor,    \* the CDN's header, Garbage when absent or malformed
  seeded,     \* what the sender wrote: how many of the hops are its own
  passed,     \* the hops after the sender, and whether each replaced
  resolved    \* RemoteAddr after RealIP

vars == <<phase, setting, trusted, cdn, sender, from, forwarded, visitor,
          seeded, passed, resolved>>

Garbage == "unparsable"
Private == Neighbours \cup Proxies
Addr == Visitors \cup Private \cup Edges

(* Senders and proxies are no edges, and the literals name addresses.      *)
ASSUME HopAssumption == /\ Edges \cap (Visitors \cup Private) = {}
                        /\ Garbage \notin Addr
                        /\ \A entry \in DOMAIN Literals : Literals[entry] \subseteq Addr

-----------------------------------------------------------------------------
(* env.TrustedProxies and env.CDN: names stand for sets, other entries are *)
(* literals, and "none" is no literal only when it stands alone.           *)

(* env.List leaves out what is empty between two commas. *)
Empty == ","
Entries == setting \ {Empty}

Sets == [private |-> Private, cloudflare |-> Published]

Parses(entry) == entry \in DOMAIN Sets \cup DOMAIN Literals

Meaning(entry) == IF entry \in DOMAIN Sets THEN Sets[entry] ELSE Literals[entry]

(* What env.TrustedProxies returns: <<>> is a nil slice, as append leaves  *)
(* it that finds nothing to append, and <<{}>> one that is empty.          *)
TrustedProxies == CASE setting = {}       -> <<Private>>
                    [] setting = {"none"} -> <<{}>>
                    [] setting = {Empty}  -> <<>>
                    [] OTHER              -> <<UNION {Meaning(entry) : entry \in Entries}>>

(* What the router makes of it.  (Wrong variant: an empty list is unset.)  *)
DefaultWhenEmpty(proxies) == IF proxies \in {<<>>, <<{}>>} THEN Private ELSE proxies[1]

ConfigTrusted(proxies) == IF proxies = <<>> THEN Private ELSE proxies[1]

CDN == IF "cloudflare" \in setting THEN Published ELSE {}

Init == /\ phase = "boot"
        /\ setting \in Settings
        /\ trusted = {} /\ cdn = {}
        /\ sender \in Visitors \cup Neighbours
        /\ from = sender
        /\ forwarded \in BoundedSeq(Addr \cup {Garbage}, MaxSeeded)
        /\ visitor \in Visitors \cup {Garbage}
        /\ seeded = Len(forwarded)
        /\ passed = <<>>
        /\ resolved = sender

Boot ==
  /\ phase = "boot"
  /\ setting = {"none"} \/ \A entry \in Entries : Parses(entry)
  /\ trusted' = ConfigTrusted(TrustedProxies)
  /\ cdn' = CDN
  /\ phase' = "way"
  /\ UNCHANGED <<setting, sender, from, forwarded, visitor, seeded, passed, resolved>>

(* A malformed list stops the app at boot. *)
RefuseToBoot ==
  /\ phase = "boot"
  /\ setting # {"none"} /\ \E entry \in Entries : ~Parses(entry)
  /\ phase' = "refused"
  /\ UNCHANGED <<setting, trusted, cdn, sender, from, forwarded, visitor, seeded, passed, resolved>>

-----------------------------------------------------------------------------
(* The hops, external to the repository.  The CDN is entered from outside, *)
(* extends the chain and overwrites its own header.                        *)

ThroughCDN(edge) ==
  /\ phase = "way" /\ passed = <<>>
  /\ sender \in Visitors
  /\ forwarded' = Append(forwarded, from)
  /\ visitor' = from
  /\ from' = edge
  /\ passed' = <<[hop |-> edge, replaced |-> FALSE]>>
  /\ UNCHANGED <<phase, setting, trusted, cdn, sender, seeded, resolved>>

ThroughProxy(proxy, replaces) ==
  /\ phase = "way"
  /\ \A i \in DOMAIN passed : passed[i].hop # proxy
  /\ Cardinality({i \in DOMAIN passed : passed[i].hop \in Proxies}) < MaxProxies
  /\ forwarded' = IF replaces THEN <<from>> ELSE Append(forwarded, from)
  /\ seeded' = IF replaces THEN 0 ELSE seeded
  /\ from' = proxy
  /\ passed' = Append(passed, [hop |-> proxy, replaced |-> replaces])
  /\ UNCHANGED <<phase, setting, trusted, cdn, sender, visitor, resolved>>

-----------------------------------------------------------------------------
(* middleware/realip.go.  Each takes the two headers, so that a property   *)
(* can ask about others.                                                   *)

Believed == from \in trusted

(* The hops the walk from the right does not skip. *)
Stops(hops) == {i \in DOMAIN hops : hops[i] \notin trusted}

(* (Wrong variant: the walk starts at the client's end.) *)
LeftmostHop(hops) == IF Stops(hops) = {} THEN Garbage ELSE hops[Min(Stops(hops))]

FirstUntrusted(hops) == IF Stops(hops) = {} THEN Garbage ELSE hops[Max(Stops(hops))]

(* clientAddr: the hop found, Garbage when there is none to believe. *)
ClientAddr(hops) == IF Believed /\ hops # <<>> THEN FirstUntrusted(hops) ELSE Garbage

(* (Wrong variant: the CDN's header is believed on the peer's word alone.) *)
AlwaysThroughCDN(hops) == Believed /\ cdn # {}

CameThroughCDN(hops) == Believed /\ hops # <<>> /\ Last(hops) \in cdn

(* (Wrong variant: no fallback to the CDN's header.) *)
ChainOnly(hops, header) == IF ClientAddr(hops) # Garbage THEN ClientAddr(hops) ELSE from

(* resolveClient, and RealIPWith's fallback to the connection's address. *)
ResolveClient(hops, header) ==
  CASE ClientAddr(hops) # Garbage                      -> ClientAddr(hops)
    [] ClientAddr(hops) = Garbage /\ CameThroughCDN(hops) /\ header # Garbage -> header
    [] OTHER                                           -> from

Serve ==
  /\ phase = "way"
  /\ resolved' = ResolveClient(forwarded, visitor)
  /\ phase' = "served"
  /\ UNCHANGED <<setting, trusted, cdn, sender, from, forwarded, visitor, seeded, passed>>

Next == \/ Boot
        \/ RefuseToBoot
        \/ \E edge \in Edges : ThroughCDN(edge)
        \/ \E proxy \in Proxies, replaces \in BOOLEAN : ThroughProxy(proxy, replaces)
        \/ Serve

Spec == Init /\ [][Next]_vars

-----------------------------------------------------------------------------
(* The type invariant; what the sender wrote is a prefix of the chain, and *)
(* the server settles on an address, never on garbage.                     *)
TypeOK ==
  /\ phase \in {"boot", "refused", "way", "served"}
  /\ trusted \subseteq Addr /\ cdn \subseteq Edges
  /\ sender \in Visitors \cup Neighbours
  /\ {from, resolved} \subseteq Addr
  /\ visitor \in Visitors \cup {Garbage}
  /\ \A i \in DOMAIN forwarded : forwarded[i] \in Addr \cup {Garbage}
  /\ seeded \in 0..Len(forwarded)

(* Whom the setting lets speak for others: nobody when it is "none", the   *)
(* private network when it says nothing, else whom one of its entries      *)
(* names.                                                                  *)
MaySpeak(addr) == /\ setting # {"none"}
                  /\ IF Entries = {} THEN addr \in Private
                                     ELSE \E entry \in Entries : addr \in Meaning(entry)

(* Nothing a sender writes into the headers changes whom the request is    *)
(* attributed to, unless the setting lets the sender speak for others: the *)
(* server resolves what it would have resolved from the hops' own entries. *)
Written == SubSeq(forwarded, seeded + 1, Len(forwarded))

WrittenVisitor == IF \E i \in DOMAIN passed : passed[i].hop \in Edges THEN sender ELSE Garbage

SeedsAreInert ==
  phase = "served" /\ ~MaySpeak(sender) =>
    resolved = ResolveClient(Written, WrittenVisitor)

(* Attribution is never to a bystander: the request belongs to its sender  *)
(* or to a hop it really passed.                                           *)
NeverABystander ==
  phase = "served" /\ ~MaySpeak(sender) =>
    resolved \in {sender} \cup {passed[i].hop : i \in DOMAIN passed}

(* Two visitors are told apart: when the setting lets every hop speak that *)
(* the request passed, and either all of them extended the chain or one    *)
(* proxy stood alone (behind the CDN the setting names or behind none),    *)
(* the request belongs to its sender.  An edge trusted by a literal of its *)
(* range only is not known for the CDN's: its header goes unread.          *)
Recoverable ==
  \/ \A i \in DOMAIN passed : ~passed[i].replaced
  \/ /\ Cardinality({i \in DOMAIN passed : passed[i].hop \in Proxies}) = 1
     /\ \A i \in DOMAIN passed : passed[i].hop \in Edges => passed[i].hop \in cdn

VisitorFound ==
  /\ phase = "served"
  /\ ~MaySpeak(sender)
  /\ \A i \in DOMAIN passed : MaySpeak(passed[i].hop)
  /\ Recoverable
  => resolved = sender
=============================================================================
