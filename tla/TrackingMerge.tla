--------------------------- MODULE TrackingMerge ---------------------------
(***************************************************************************)
(* merge.TrackingMerge: one call, from the CRs of one tenant in layering   *)
(* order to the merged document and the conflicts.  Go walks a map in any  *)
(* order, so a call is a behaviour: the leaves of each CR are visited one  *)
(* by one in every order.  CRs are named by their position in the group.   *)
(*                                                                         *)
(* What a document is, module OverridesDocument says; the loop relies on   *)
(* no more of it than the laws assumed here.                               *)
(***************************************************************************)
EXTENDS Integers, Sequences

CONSTANTS
  Documents,     \* overrides documents, and what merging makes of them
  Groups,        \* the inputs: sequences of [weight, overrides], sorted
  LeavesOf(_),   \* a document's leaves, as a function from path to value
  Merge(_, _),   \* the second document over the first
  Compare(_, _), \* of two leaf values: "equal", "differ" or "panic"
  Hides(_, _)    \* a document has something of its own at or above a path

Empty == [k \in {} |-> k]

ASSUME GroupsAreSorted ==
  \A group \in Groups : \A i, j \in DOMAIN group :
    i < j => group[i].weight <= group[j].weight

ASSUME GroupsAreSequences ==
  \A group \in Groups :
    /\ Len(group) \in Nat /\ DOMAIN group = 1 .. Len(group)
    /\ \A i \in DOMAIN group : group[i].overrides \in Documents

(* A merge serves the leaves of the second document, and those of the      *)
(* first that it does not hide.                                            *)
ASSUME MergeLaw ==
  /\ Empty \in Documents /\ LeavesOf(Empty) = Empty
  /\ \A dst, src \in Documents :
       LET old  == LeavesOf(dst)
           new  == LeavesOf(src)
           kept == { path \in DOMAIN old : ~ Hides(src, path) }
       IN  /\ Merge(dst, src) \in Documents
           /\ LeavesOf(Merge(dst, src)) =
                [path \in DOMAIN new \cup kept |->
                   IF path \in DOMAIN new THEN new[path] ELSE old[path]]
           /\ \A path \in DOMAIN new : Hides(src, path)

(* A comparison that does not panic tells equal values from others.        *)
ASSUME CompareLaw ==
  \A d, e \in Documents : \A path \in DOMAIN LeavesOf(d) \cap DOMAIN LeavesOf(e) :
    LET a == LeavesOf(d)[path]
        b == LeavesOf(e)[path]
    IN  /\ Compare(a, b) = "equal" => a = b
        /\ Compare(a, b) = "differ" => a # b

VARIABLES
  group,      \* the argument
  at,         \* the CR the loop is at; Len(group) + 1 after the loop
  left,       \* paths of its leaves walkLeaves has yet to visit
  merged,     \* the document so far
  provenance, \* path -> the last CR that wrote it
  conflicts,  \* path -> [winner, losers, sameWeight]
  order,      \* pathKeyOrder
  panicked    \* a comparison has panicked

vars == <<group, at, left, merged, provenance, conflicts, order, panicked>>

-----------------------------------------------------------------------------
Doc(i) == group[i].overrides

LeavesAt(i) == IF i \in DOMAIN group THEN DOMAIN LeavesOf(Doc(i)) ELSE {}

Value(i, path) == LeavesOf(Doc(i))[path]

(* Assigning a key of a Go map.                                            *)
Put(f, key, value) ==
  [k \in DOMAIN f \cup {key} |-> IF k = key THEN value ELSE f[k]]

(* Mutant: the winner of the first pair of writers stays.                  *)
AddConflictKeepWinner(path, prior) ==
  LET fresh == path \notin DOMAIN conflicts
      fc == IF fresh THEN [winner |-> at, losers |-> <<>>, sameWeight |-> FALSE]
                     ELSE conflicts[path]
  IN  /\ conflicts' = Put(conflicts, path, [fc EXCEPT !.losers = Append(@, prior)])
      /\ order' = IF fresh THEN Append(order, path) ELSE order

(* A conflict is created by its first pair of writers and extended by the  *)
(* later ones.                                                             *)
AddConflict(path, prior) ==
  LET fresh == path \notin DOMAIN conflicts
      fc == IF fresh THEN [winner |-> at, losers |-> <<>>, sameWeight |-> FALSE]
                     ELSE conflicts[path]
  IN  /\ conflicts' =
           Put(conflicts, path,
               [winner     |-> at,
                losers     |-> Append(fc.losers, prior),
                sameWeight |-> \/ fc.sameWeight
                               \/ group[prior].weight = group[at].weight])
      /\ order' = IF fresh THEN Append(order, path) ELSE order

(* Mutant: a writer that agrees with the one before it is not recorded.    *)
VisitLeafKeepsFirst(path) ==
  /\ ~ panicked
  /\ path \in left
  /\ LET known   == path \in DOMAIN provenance
         verdict == IF known
                    THEN Compare(Value(provenance[path], path), Value(at, path))
                    ELSE "equal"
     IN  /\ verdict # "panic"
         /\ provenance' = IF known THEN provenance ELSE Put(provenance, path, at)
         /\ IF verdict = "differ" THEN AddConflict(path, provenance[path])
                                  ELSE UNCHANGED <<conflicts, order>>
  /\ left' = left \ {path}
  /\ UNCHANGED <<group, at, merged, panicked>>

(* The callback of walkLeaves on one leaf of the current CR.               *)
VisitLeaf(path) ==
  /\ ~ panicked
  /\ path \in left
  /\ LET known   == path \in DOMAIN provenance
         verdict == IF known
                    THEN Compare(Value(provenance[path], path), Value(at, path))
                    ELSE "equal"
     IN  \/ /\ verdict = "panic"
            /\ panicked' = TRUE
            /\ UNCHANGED <<left, provenance, conflicts, order>>
         \/ /\ verdict = "differ"
            /\ AddConflict(path, provenance[path])
            /\ left' = left \ {path}
            /\ provenance' = Put(provenance, path, at)
            /\ UNCHANGED panicked
         \/ /\ verdict = "equal"
            /\ left' = left \ {path}
            /\ provenance' = Put(provenance, path, at)
            /\ UNCHANGED <<conflicts, order, panicked>>
  /\ UNCHANGED <<group, at, merged>>

(* Mutant: the layers below win.                                           *)
MergeCRBelow ==
  /\ ~ panicked
  /\ at \in DOMAIN group
  /\ left = {}
  /\ merged' = Merge(Doc(at), merged)
  /\ at' = at + 1
  /\ left' = LeavesAt(at + 1)
  /\ UNCHANGED <<group, provenance, conflicts, order, panicked>>

MergeCR ==
  /\ ~ panicked
  /\ at \in DOMAIN group
  /\ left = {}
  /\ merged' = Merge(merged, Doc(at))
  /\ at' = at + 1
  /\ left' = LeavesAt(at + 1)
  /\ UNCHANGED <<group, provenance, conflicts, order, panicked>>

Init ==
  /\ group \in Groups
  /\ at = 1
  /\ left = LeavesAt(1)
  /\ merged = Empty
  /\ provenance = Empty
  /\ conflicts = Empty
  /\ order = <<>>
  /\ panicked = FALSE

Next ==
  \/ \E path \in left : VisitLeaf(path)
  \/ MergeCR

Spec == Init /\ [][Next]_vars

-----------------------------------------------------------------------------
Returned == at = Len(group) + 1

Writers(path) == { i \in DOMAIN group : path \in LeavesAt(i) }

(* Merge folded over the group is layering: a leaf is served exactly       *)
(* when some CR wrote it and no later CR hides it, with that CR's value.   *)
MergeIsLayering ==
  Returned =>
    LET served == { path \in UNION { LeavesAt(i) : i \in DOMAIN group } :
                      \E i \in Writers(path) :
                        \A j \in i + 1 .. Len(group) : ~ Hides(Doc(j), path) }
        last(path) == CHOOSE i \in Writers(path) :
                        \A j \in Writers(path) : j <= i
    IN  LeavesOf(merged) = [path \in served |-> Value(last(path), path)]

(* The conflicts describe the document that is served: at a served leaf    *)
(* the winner's value is the served one, and a conflict is reported        *)
(* whenever some CR wanted another value there.                            *)
ConflictsExplainOutput ==
  Returned =>
    \A path \in DOMAIN LeavesOf(merged) :
      /\ path \in DOMAIN conflicts =>
           Value(conflicts[path].winner, path) = LeavesOf(merged)[path]
      /\ \A i \in Writers(path) :
           Value(i, path) # LeavesOf(merged)[path] => path \in DOMAIN conflicts

(* w is the next writer of a path after i, with another value.             *)
OverriddenBy(path, i, w) ==
  /\ i < w /\ Value(i, path) # Value(w, path)
  /\ \A j \in Writers(path) : ~ (i < j /\ j < w)

Overridings(path) ==
  { pair \in Writers(path) \X Writers(path) : OverriddenBy(path, pair[1], pair[2]) }

(* What is reported is a matter of the group, in whatever order Go walks   *)
(* the maps and whatever becomes of the leaf in the merged document: the   *)
(* losers of a path are, each once and in layering order, the writers that *)
(* the next writer disagreed with; the winner is the last that disagreed,  *)
(* and SameWeight tells of a pair of one weight.  Each path is listed once;*)
(* the order of the list is Go's.                                          *)
(*                                                                         *)
(* This is what the code reports and not what its comment says, where the  *)
(* losers are the writers that disagree with the winner: of the values     *)
(* 1, 2, 1 the first writer is a loser here, of 1, 1, 2 it is none.        *)
ReportIsOfGroup ==
  Returned =>
    /\ \A path \in DOMAIN conflicts :
         LET fc    == conflicts[path]
             pairs == Overridings(path)
         IN  /\ { fc.losers[n] : n \in DOMAIN fc.losers } = { pair[1] : pair \in pairs }
             /\ \A m, n \in DOMAIN fc.losers : m < n => fc.losers[m] < fc.losers[n]
             /\ \E pair \in pairs : fc.winner = pair[2]
             /\ \A pair \in pairs : pair[2] <= fc.winner
             /\ fc.sameWeight <=>
                  \E pair \in pairs : group[pair[1]].weight = group[pair[2]].weight
    /\ \A i \in DOMAIN group : \A path \in LeavesAt(i) :
         Overridings(path) # {} => path \in DOMAIN conflicts
    /\ { order[n] : n \in DOMAIN order } = DOMAIN conflicts
    /\ \A m, n \in DOMAIN order : order[m] = order[n] => m = n
=============================================================================
