------------------------------- MODULE AppProbe -------------------------------
(***************************************************************************)
(* App with history variables about the probe: which dependencies were up, *)
(* and which were not, while it ran.                                       *)
(***************************************************************************)
EXTENDS App

VARIABLES
  wasUp,       \* the checks whose dependency was up at some time of the probe
  wasDown      \* the checks whose dependency was down or hung at some time of it

NotUp(d) == {c \in DOMAIN d : d[c] # "up"}

ProbeInit == AppInit /\ wasUp = {} /\ wasDown = {}

ProbeNext ==
  /\ AppNext
  /\ IF Probing'
       THEN /\ wasUp' = wasUp \cup (DOMAIN deps \ NotUp(deps'))
            /\ wasDown' = wasDown \cup NotUp(deps')
       ELSE UNCHANGED <<wasUp, wasDown>>

pvars == <<avars, wasUp, wasDown>>

ProbeSpec == ProbeInit /\ [][ProbeNext]_pvars

(* "ready" means that every dependency was up at some time while the probe *)
(* ran; "not_ready" that one of them was not, that the client left, or     *)
(* that the whole deadline went by; and a probe whose checks look at their *)
(* context has ended by the deadline, however many checks share it.        *)
ReadyIsHonest ==
  IsReady /\ phase = "done" =>
    /\ wire.body = <<"ready">> => wasUp = ToSet(Checks)
    /\ wire.body = <<"not_ready">> => wasDown # {} \/ gone \/ clock >= Deadline
    /\ heedless = {} => clock <= Deadline
=============================================================================
