-------------------------- MODULE MCTrackingMerge --------------------------
(***************************************************************************)
(* Groups of three CRs over documents with a scalar, a struct that may be  *)
(* null, empty or partly set, and lists of scalars, lists and maps; and    *)
(* lists of managedFields entries.                                         *)
(***************************************************************************)
EXTENDS TrackingMerge, OverridesDocument, FieldManagers, TLC

Scalar(v)   == [kind |-> "scalar", v |-> v]
List(items) == [kind |-> "list", items |-> items]
Map(fields) == [kind |-> "map", fields |-> fields]

One  == Scalar("1")
Two  == Scalar("2")
Null == Scalar("null")

Scalars == { "a" :> One, "a" :> Two }

Structs == { "n" :> Null, "n" :> Map(Empty), "n" :> Map("x" :> One),
             "n" :> Map("x" :> Two), "n" :> Map("x" :> One @@ "y" :> Two) }

Lists == { "l" :> List(<<One, Two>>), "l" :> List(<<One, One>>),
           "l" :> List(<<One>>), "l" :> List(<<Map(Empty), One>>),
           "l" :> List(<<One, Map(Empty)>>), "l" :> List(<<List(<<One>>), Two>>) }

Docs == {Empty} \cup Scalars \cup Structs \cup Lists
          \cup { d @@ e : d \in Scalars, e \in Structs }

\* every document merging can make of these
MCDocuments ==
  { d @@ e @@ f : d \in {Empty} \cup Scalars, f \in {Empty} \cup Lists,
                  e \in Structs \cup {Empty, "n" :> Map("x" :> Two @@ "y" :> Two)} }

Weights == { <<0, 0, 0>>, <<0, 0, 1>>, <<0, 1, 1>>, <<0, 1, 2>> }

MCGroups ==
  { [i \in 1 .. 3 |-> [weight |-> ws[i], overrides |-> ds[i]]] :
      ws \in Weights, ds \in [1 .. 3 -> Docs] } \cup { <<>> }

\* a blank name, and two names that agree in their first 64 bytes
MCManagers == {"operator", " ", "kubectl", "long-a", "long-b"}

MCShortName ==
  [m \in MCManagers |-> CASE m = " "                     -> ""
                          [] m \in {"long-a", "long-b"} -> "long"
                          [] OTHER                      -> m]

(* A tenant is merged, or, with none to merge, drift is attributed.        *)
MCInit == Init /\ FieldsInit

MCNext ==
  \/ Next /\ UNCHANGED fieldsVars
  \/ group = <<>> /\ FieldsNext /\ UNCHANGED vars

MCSpec == MCInit /\ [][MCNext]_<<vars, fieldsVars>>
=============================================================================
