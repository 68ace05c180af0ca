----------------------------- MODULE MCOperator -----------------------------
(***************************************************************************)
(* Both targets on a small instance: one Mimir CR, and on the Loki side    *)
(* either no CR or two whose lists of maps make every merge panic.         *)
(***************************************************************************)
EXTENDS Operator

CONSTANT MaxCrashes

First  == [ns |-> 1, name |-> 1]
Second == [ns |-> 2, name |-> 1]

OneKey  == { First }
TwoKeys == { First, Second }

MCValues == {"low", "streams"}

MCValidOverrides == OverrideMaps

MCUncomparable == {<<"streams", "streams">>}

Sets(v) == [tenantId |-> 1, weight |-> 0, overrides |-> ("f" :> v)]

Low     == { Sets("low") }
Streams == { Sets("streams") }

MCInitialSpecs ==
  { [k \in Keys |-> Absent], [k \in Keys |-> Sets("streams")] }

MCMimirInitialSpecs == { [k \in MimirKeys |-> Sets("low")] }

MCLimit == [kind \in Disturbances |-> IF kind = "crash" THEN MaxCrashes ELSE 0]
=============================================================================
