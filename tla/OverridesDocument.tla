------------------------- MODULE OverridesDocument -------------------------
(***************************************************************************)
(* Nested overrides documents, and what TrackingMerge does with them: its  *)
(* deep merge, the leaves it walks, and the comparison of two leaves.      *)
(*                                                                         *)
(* A value is a scalar, a list or a map, tagged with its kind; a document  *)
(* is the function of a map.                                               *)
(***************************************************************************)
EXTENDS Integers, SequencesExt

EmptyDocument == [k \in {} |-> k]

IsMap(v) == v.kind = "map"

RECURSIVE DeepMerge(_, _)
DeepMerge(dst, src) ==
  [k \in DOMAIN dst \cup DOMAIN src |->
     IF k \notin DOMAIN src THEN dst[k]
     ELSE IF k \in DOMAIN dst /\ IsMap(dst[k]) /\ IsMap(src[k])
          THEN [kind |-> "map", fields |-> DeepMerge(dst[k].fields, src[k].fields)]
          ELSE src[k]]

(* The leaves of a document, as a function from path to value.             *)
RECURSIVE walkLeaves(_, _)
walkLeaves(doc, prefix) ==
  FoldSet(LAMBDA k, leaves :
            leaves @@ IF IsMap(doc[k])
                      THEN walkLeaves(doc[k].fields, Append(prefix, k))
                      ELSE Append(prefix, k) :> doc[k],
          EmptyDocument, DOMAIN doc)

Leaves(doc) == walkLeaves(doc, <<>>)

(* Go's == on two values of dynamic type: different types are unequal, two *)
(* maps panic.                                                             *)
InterfaceEqual(a, b) ==
  CASE a.kind # b.kind -> "differ"
    [] IsMap(a) /\ IsMap(b) -> "panic"
    [] OTHER -> IF a = b THEN "equal" ELSE "differ"

(* The first pair of elements that is not equal decides.                   *)
RECURSIVE leafValuesEqual(_, _)
leafValuesEqual(a, b) ==
  IF a.kind # "list" THEN InterfaceEqual(a, b)
  ELSE IF b.kind # "list" \/ Len(a.items) # Len(b.items) THEN "differ"
  ELSE LET verdicts == [i \in DOMAIN a.items |->
                          leafValuesEqual(a.items[i], b.items[i])]
           unequal  == SelectSeq(verdicts, LAMBDA v : v # "equal")
       IN  IF unequal = <<>> THEN "equal" ELSE Head(unequal)

(* The value a document has at a path, if the path leads through maps.     *)
RECURSIVE At(_, _)
At(doc, path) ==
  IF Head(path) \notin DOMAIN doc THEN {}
  ELSE LET v == doc[Head(path)]
       IN  IF Len(path) = 1 THEN {v}
           ELSE IF IsMap(v) THEN At(v.fields, Tail(path)) ELSE {}

(* A document hides what earlier ones have at a path: it has a value       *)
(* there, or something other than a map on the way.                        *)
HidesPath(doc, path) ==
  \/ At(doc, path) # {}
  \/ \E n \in 1 .. Len(path) - 1 :
       \E v \in At(doc, SubSeq(path, 1, n)) : ~ IsMap(v)
=============================================================================
