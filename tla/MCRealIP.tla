------------------------------- MODULE MCRealIP -------------------------------
(* Two visitors, two proxies and a neighbour on their network, two edges,  *)
(* one of them too new for the compiled-in list.                           *)
EXTENDS RealIP, TLC

MCLiterals == ("10.0.0.1" :> {"p1"}) @@ ("10.0.0.0/8" :> {"p1", "p2", "n"})
              @@ ("104.16.0.0/13" :> {"e1", "e2"})

MCSettings == {{}, {Empty}, {"none"}, {"private"}, {"cloudflare"}, {"private", "cloudflare"},
               {"10.0.0.1"}, {"10.0.0.1", "cloudflare"}, {"10.0.0.0/8", "cloudflare"},
               {"private", "104.16.0.0/13"}, {"cloudflare", "104.16.0.0/13", "10.0.0.1"},
               {"none", "private"}, {"not-a-network"}}
=============================================================================
