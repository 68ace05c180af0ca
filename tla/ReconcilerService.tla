------------------------- MODULE ReconcilerService -------------------------
(***************************************************************************)
(* The reconcile loop implements OverridesService.                         *)
(***************************************************************************)
EXTENDS ReconcilerInv

CONSTANT NoView   \* no reconcile holds a snapshot

ASSUME NoViewAssumption == NoView \notin [Keys -> Specs \cup {Absent}]

(* The specs of the moments the caches have yet to see, the first of them  *)
(* being what they show.                                                   *)
serviceWindow == [i \in DOMAIN crHist |-> SpecsOf(crHist[i])]

serviceView == IF PastGather THEN SpecsOf(seen) ELSE NoView

(* The bootstrap has found no ConfigMap, or may still find none.           *)
serviceVacancy ==
  \/ boot \in {"apply", "patch"}
  \/ boot = "get" /\ \E i \in DOMAIN cmHist : cmHist[i] = Absent

Service == INSTANCE OverridesService WITH
  Snapshots <- [Keys -> Specs \cup {Absent}],
  ForeignBodies <- {Absent, NoKey} \cup Foreign,
  Missing <- Absent,
  window <- serviceWindow,
  view <- serviceView,
  served <- Live(cmHist),
  vacancy <- serviceVacancy

(* What stands in the ConfigMap is at every moment what the abstract       *)
(* service allows: a third party's doing, the output of one snapshot of    *)
(* the CRs that is no older than the one served before, or the empty body  *)
(* in place of a ConfigMap that was missing since the process started.     *)
ServesTheService == Service!ServiceSpec
=============================================================================
