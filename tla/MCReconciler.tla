---------------------------- MODULE MCReconciler ----------------------------
(***************************************************************************)
(* Small instances of Reconciler: two CRs in two namespaces, two fields,   *)
(* and specs chosen so that the CRs share a tenant, collide on a field,    *)
(* are invalid alone, are invalid only when merged, or (lists of maps)     *)
(* cannot be compared by the merge.                                        *)
(***************************************************************************)
EXTENDS ReconcilerClaims, ReconcilerService

CONSTANTS MaxEdits, MaxTampers, MaxCrashes, MaxFaults, MaxStatusErrors,
          MaxRelistCRs, MaxRelistCMs

First  == [ns |-> 1, name |-> 1]
Second == [ns |-> 2, name |-> 1]

MCKeys == { First, Second }

OneKey == { First }

MCFields == {"f", "g"}

MCValues == {"low", "high", "streams", "bad"}

(* f = "bad" is rejected alone, f = "high" with g = "high" only together.  *)
MCValidOverrides ==
  { doc \in OverrideMaps :
      /\ \A f \in DOMAIN doc : doc[f] # "bad"
      /\ ~ (DOMAIN doc = MCFields /\ doc["f"] = "high" /\ doc["g"] = "high") }

MCUncomparable == {<<"streams", "streams">>}

Spec1(tenantId, weight, f, v) ==
  [tenantId |-> tenantId, weight |-> weight, overrides |-> (f :> v)]

\* the tenant defaults to the namespace, or is namespace 1's
Layers == { Spec1(0, 0, "f", "low"), Spec1(1, 1, "f", "high"),
            Spec1(1, 0, "f", "bad") }

\* valid alone, invalid together
Clashing == { Spec1(1, 0, "f", "high"), Spec1(1, 0, "g", "high") }

\* a list of maps, which two CRs of one tenant may both set
Streams == { Spec1(1, 0, "f", "streams") }

\* what users submit in a cluster that starts with half a clash
Awkward == Clashing \cup { Spec1(0, 0, "f", "bad") }

NoCRs == { [k \in Keys |-> Absent] }

OneCR == { [k \in Keys |-> IF k = First THEN Spec1(0, 0, "f", "low") ELSE Absent] }

TwoCRs == { [k \in Keys |-> IF k = First THEN Spec1(0, 0, "f", "low")
                                        ELSE Spec1(1, 1, "f", "high")] }

\* half of a clash
HalfClash ==
  { [k \in Keys |-> IF k = First THEN Spec1(1, 0, "f", "high") ELSE Absent] }

MCLimit ==
  [kind \in Disturbances |->
     CASE kind = "edit"        -> MaxEdits
       [] kind = "tamper"      -> MaxTampers
       [] kind = "crash"       -> MaxCrashes
       [] kind = "fault"       -> MaxFaults
       [] kind = "statusError" -> MaxStatusErrors
       [] kind = "relistCR"    -> MaxRelistCRs
       [] kind = "relistCM"    -> MaxRelistCMs]
=============================================================================
