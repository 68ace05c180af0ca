-------------------------- MODULE ReconcilerClaims --------------------------
(***************************************************************************)
(* What the repository's comments say of a CR's status, stated over        *)
(* Reconciler's states as they say it.  The code does not keep it.         *)
(***************************************************************************)
EXTENDS Reconciler

(* common_types.go: Applied is True when the CR's contribution has been    *)
(* written into the output ConfigMap.  Asked of the operator at rest only. *)
AppliedMeansWritten ==
  Settled =>
    \A k \in Present(Live(crHist)) :
      LET cr == Live(crHist)[k]
      IN  cr.status.applied # NoHash =>
            Effective(k, cr.spec) \in DOMAIN Live(cmHist).overrides
=============================================================================
