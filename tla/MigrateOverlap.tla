---------------------------- MODULE MigrateOverlap ----------------------------
(***************************************************************************)
(* Migrate with a history variable: whether a baseline ever ran while      *)
(* another command did.  baseline holds no lock while it stamps            *)
(* (migrate/migrate.go:263), so what it promises, it promises an operator  *)
(* who runs it alone; runs, crashes and retries may come before and after. *)
(***************************************************************************)
EXTENDS Migrate

VARIABLE overlapped          \* a baseline ran while another command did

Overlap == \E p, q \in Proc : /\ p # q
                              /\ pc[p] # "idle" /\ op[p].kind = "baseline"
                              /\ pc[q] # "idle"

OverlapInit == Init /\ overlapped = FALSE
OverlapNext == Next /\ overlapped' = (overlapped \/ Overlap')
OverlapSpec == OverlapInit /\ [][OverlapNext]_<<vars, overlapped>> /\ Fairness

(* As long as no baseline overlapped another command, every version has    *)
(* one ledger row: it was executed once or stamped once, never both,       *)
(* across crashes and between the builds of a rolling deploy.              *)
RecordedOnceApart == ~overlapped => RecordedOnce

(* Under the same condition, a baseline that reported success recorded     *)
(* everything up to its target, also when one before it was cut short, and *)
(* none of what it recorded was executed.                                  *)
BaselineExactApart == ~overlapped => BaselineExact
=============================================================================
