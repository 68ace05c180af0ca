----------------------------- MODULE MCReplicas -----------------------------
(***************************************************************************)
(* Two replicas on a small instance: one CR.                               *)
(***************************************************************************)
EXTENDS Replicas

CONSTANTS MaxEdits, MaxCrashes

First == [ns |-> 1, name |-> 1]

OneKey == { First }

MCValidOverrides == OverrideMaps

MCSpec == [tenantId |-> 1, weight |-> 0, overrides |-> ("f" :> "low")]

OneSpec == { MCSpec }

MCInitialSpecs == { [k \in Keys |-> MCSpec] }

MCLimit ==
  [kind \in Disturbances |->
     CASE kind = "edit"  -> MaxEdits
       [] kind = "crash" -> MaxCrashes
       [] OTHER          -> 0]
=============================================================================
