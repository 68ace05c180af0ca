---------------------------- MODULE TenantOutput ----------------------------
(***************************************************************************)
(* The pure part of a reconcile: from the specs of all CRs of one target   *)
(* (LokiTenantOverride or MimirTenantOverride) to the body written under   *)
(* the output ConfigMap's data key, and to each CR's peers.                *)
(*                                                                         *)
(* A CR is named by a record [ns, name]; namespaces, names and tenant IDs  *)
(* are numbers that stand for the rank of the string in lexical order, 0   *)
(* being the empty string.  An overrides document is a function from field *)
(* to leaf value; module TrackingMerge has the nested documents.           *)
(* A snapshot of specs is a function from Keys to a spec or to Absent.     *)
(***************************************************************************)
EXTENDS Integers, SequencesExt

CONSTANTS
  Keys,           \* the CR names users may create
  Fields,         \* top-level fields of the target's Limits schema
  Values,         \* leaf values
  Specs,          \* the specs users may submit
  ValidOverrides, \* documents the target's Validator accepts
  Uncomparable,   \* pairs of leaf values on which comparing panics
  Absent          \* no such object

OverrideMaps == UNION { [F -> Values] : F \in SUBSET Fields }

ASSUME KeysAssumption == Keys \subseteq [ns : Nat \ {0}, name : Nat \ {0}]

ASSUME SpecsAssumption ==
  Specs \subseteq [tenantId : Nat, weight : Int, overrides : OverrideMaps]

ASSUME ValidAssumption == ValidOverrides \subseteq OverrideMaps

ASSUME AbsentAssumption == Absent \notin Specs

-----------------------------------------------------------------------------
(* gather: default the tenant from the namespace and validate each CR.     *)

Effective(k, spec) == IF spec.tenantId = 0 THEN k.ns ELSE spec.tenantId

Tenants == { Effective(k, spec) : k \in Keys, spec \in Specs }

Outputs == UNION { [T -> OverrideMaps] : T \in SUBSET Tenants }

Validate(doc) == doc \in ValidOverrides

ValidKeys(specs) ==
  { k \in Keys : specs[k] # Absent /\ Validate(specs[k].overrides) }

(* merge.GroupByTenant: the valid CRs of one tenant.                       *)
GroupByTenant(specs, t) ==
  { k \in ValidKeys(specs) : Effective(k, specs[k]) = t }

(* The comparison SortGroup sorts by: weight, then namespace, then name.   *)
LayeredBelow(specs, a, b) ==
  LET wa == specs[a].weight
      wb == specs[b].weight
  IN  \/ wa < wb
      \/ wa = wb /\ a.ns < b.ns
      \/ wa = wb /\ a.ns = b.ns /\ a.name < b.name

SortGroup(specs, G) ==
  SetToSortSeq(G, LAMBDA a, b : LayeredBelow(specs, a, b))

(* On flat documents DeepMerge lets the later document's leaves win.       *)
DeepMerge(dst, src) == src @@ dst

Merged(specs, G) ==
  FoldLeft(LAMBDA doc, k : DeepMerge(doc, specs[k].overrides),
           [f \in {} |-> f], SortGroup(specs, G))

(* leafValuesEqual compares a leaf with the one its previous writer left;  *)
(* on lists of one length, where it gets to two maps, Go's == panics.      *)
GroupPanics(specs, G) ==
  \E a, b \in G : \E f \in Fields :
    LET Writes(k) == f \in DOMAIN specs[k].overrides
    IN  /\ LayeredBelow(specs, a, b)
        /\ Writes(a) /\ Writes(b)
        /\ ~ \E c \in G : /\ Writes(c)
                          /\ LayeredBelow(specs, a, c)
                          /\ LayeredBelow(specs, c, b)
        /\ <<specs[a].overrides[f], specs[b].overrides[f]>> \in Uncomparable

MergePanics(specs) ==
  \E t \in Tenants : GroupPanics(specs, GroupByTenant(specs, t))

(* Mutant: the merged documents are not validated again.                   *)
OutputUnchecked(specs) ==
  [t \in { t \in Tenants : GroupByTenant(specs, t) # {} } |->
     Merged(specs, GroupByTenant(specs, t))]

(* The tenants whose merged document passes the second validation.         *)
Output(specs) ==
  LET merged == [t \in Tenants |-> Merged(specs, GroupByTenant(specs, t))]
      kept   == { t \in Tenants : /\ GroupByTenant(specs, t) # {}
                                  /\ Validate(merged[t]) }
  IN  [t \in kept |-> merged[t]]

(* render.Render wraps the tenants; the YAML text is deterministic, so the *)
(* text and the function it prints determine each other.                   *)
Render(out) == [overrides |-> out]

(* SHA-256, taken to be injective.                                         *)
Hash(text) == [sha256 |-> text]

EmptyBody == Render([t \in {} |-> t])

Desired(specs) == Render(Output(specs))

(* The other valid CRs of the same tenant.  The code lists them in layering *)
(* order, which the set determines: no two CRs have the same rank.         *)
computePeers(specs, k) ==
  { [peer |-> j, weight |-> specs[j].weight] :
      j \in GroupByTenant(specs, Effective(k, specs[k])) \ {k} }
=============================================================================
