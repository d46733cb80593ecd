-------------------------------- MODULE MCCsp --------------------------------
(* Layers that open framing, forbid it again or do both, extend a default  *)
(* directive, add one the default lacks, with and without sources, grant a *)
(* feature and relax the opener policy, enforcing or not.                  *)
EXTENDS Csp, TLC

Extras == {<<>>,
           "frame-ancestors" :> {"'none'"},
           "frame-ancestors" :> {"https://embed"},
           "frame-ancestors" :> {"'none'", "https://embed"},
           "object-src" :> {"'self'"},
           "script-src" :> {"https://embed"},
           "worker-src" :> {},
           ("worker-src" :> {"'self'"}) @@ ("frame-ancestors" :> {"https://app"})}

MCLayers ==
  {[enforce |-> enforce, sources |-> extra, allow |-> {}, opener |-> Unset] :
     enforce \in BOOLEAN, extra \in Extras}
  \cup {[enforce |-> FALSE, sources |-> <<>>, allow |-> {"camera"},
         opener |-> "same-origin-allow-popups"],
        [enforce |-> FALSE, sources |-> <<>>, allow |-> {"microphone"},
         opener |-> "unsafe-none"]}

MCForeignPolicies == {"script-src" :> {"'none'"}, "worker-src" :> {"'self'"}}
=============================================================================
