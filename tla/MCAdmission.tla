---------------------------- MODULE MCAdmission ----------------------------
(***************************************************************************)
(* The instances of MCReconciler behind the webhook and the policy: the    *)
(* second CR's namespace is one that may write the first one's tenant.     *)
(***************************************************************************)
EXTENDS Admission

CONSTANTS MaxEdits, MaxStatusErrors, MaxRelistCRs

First  == [ns |-> 1, name |-> 1]
Second == [ns |-> 2, name |-> 1]

MCKeys == { First, Second }

MCFields == {"f", "g"}

MCValues == {"high", "bad"}

(* f = "bad" is rejected alone, f = "high" with g = "high" only together.  *)
MCValidOverrides ==
  { doc \in OverrideMaps :
      /\ \A f \in DOMAIN doc : doc[f] # "bad"
      /\ DOMAIN doc # MCFields }

Spec1(tenantId, f, v) ==
  [tenantId |-> tenantId, weight |-> 0, overrides |-> (f :> v)]

\* one's own tenant by default, the clash with it, invalid in tenant 2
MCSpecs == { Spec1(0, "f", "high"), Spec1(1, "g", "high"), Spec1(2, "f", "bad") }

\* half of a clash, in the first one's tenant
HalfClash ==
  { [k \in Keys |-> IF k = Second THEN Spec1(1, "g", "high") ELSE Absent] }

MCLimit ==
  [kind \in Disturbances |->
     CASE kind = "edit"        -> MaxEdits
       [] kind = "statusError" -> MaxStatusErrors
       [] kind = "relistCR"    -> MaxRelistCRs
       [] OTHER                -> 0]
=============================================================================
