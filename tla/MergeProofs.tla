---------------------------- MODULE MergeProofs ----------------------------
(***************************************************************************)
(* The merge loop: whatever the documents and the order in which Go walks  *)
(* a map, the merged document is the layered one and the conflicts are     *)
(* those of its leaves.  By induction over the loop; of the documents the  *)
(* proofs use the laws assumed in TrackingMerge.                           *)
(*                                                                         *)
(* And the loop over managedFields: for every list of entries it blames a  *)
(* most recent other writer.                                               *)
(***************************************************************************)
EXTENDS TrackingMerge, FieldManagers, TLAPS

(* The writers of a path that the loop has visited.                        *)
Visited(path) == { i \in Writers(path) : i < at \/ (i = at /\ path \notin left) }

MergeTypeOK ==
  /\ group \in Groups
  /\ at \in 1 .. Len(group) + 1
  /\ left \subseteq LeavesAt(at)
  /\ merged \in Documents

(* provenance has the last of them.                                        *)
LastVisited ==
  /\ \A path : Visited(path) # {} => path \in DOMAIN provenance
  /\ \A path \in DOMAIN provenance :
       /\ provenance[path] \in Visited(path)
       /\ \A i \in Visited(path) : i <= provenance[path]

(* What is reported of a path are the overridings among its visited        *)
(* writers; and the winner's value is the last writer's.                   *)
Reported(path, fc) ==
  /\ path \in DOMAIN provenance
  /\ fc.winner \in Visited(path)
  /\ Value(fc.winner, path) = Value(provenance[path], path)
  /\ \E i \in Visited(path) : OverriddenBy(path, i, fc.winner)
  /\ \A i, w \in Visited(path) :
       OverriddenBy(path, i, w) =>
         w <= fc.winner /\ \E n \in DOMAIN fc.losers : fc.losers[n] = i
  /\ fc.sameWeight <=>
       \E i, w \in Visited(path) :
         OverriddenBy(path, i, w) /\ group[i].weight = group[w].weight

LosersInOrder(path, losers) ==
  /\ losers \in Seq(Nat)
  /\ \A n \in DOMAIN losers :
       /\ losers[n] \in Visited(path)
       /\ \E w \in Visited(path) : OverriddenBy(path, losers[n], w)
  /\ \A m, n \in DOMAIN losers : m < n => losers[m] < losers[n]

Contradictions ==
  \A path \in DOMAIN conflicts :
    Reported(path, conflicts[path]) /\ LosersInOrder(path, conflicts[path].losers)

(* Each conflict is listed once.                                           *)
Listed ==
  /\ order \in Seq(DOMAIN conflicts)
  /\ \A path \in DOMAIN conflicts : \E n \in DOMAIN order : order[n] = path
  /\ \A m, n \in DOMAIN order : order[m] = order[n] => m = n

(* Where none is reported all visited writers agree.                       *)
Agreement ==
  \A path \in DOMAIN provenance \ DOMAIN conflicts :
    \A i \in Visited(path) : Value(i, path) = Value(provenance[path], path)

(* The document so far is the layering of the CRs merged.                  *)
Unhidden(path) ==
  \E i \in Writers(path) :
    i < at /\ \A j \in DOMAIN group : i < j /\ j < at => ~ Hides(Doc(j), path)

ValueOfLast(path, v) ==
  \E i \in Writers(path) :
    /\ i < at /\ v = Value(i, path)
    /\ \A j \in Writers(path) : j < at => j <= i

Layered ==
  LET leaves == LeavesOf(merged)
  IN  /\ leaves = [path \in DOMAIN leaves |-> leaves[path]]
      /\ \A path : path \in DOMAIN leaves <=> Unhidden(path)
      /\ \A path \in DOMAIN leaves : ValueOfLast(path, leaves[path])

MergeInv ==
  MergeTypeOK /\ LastVisited /\ Contradictions /\ Listed /\ Agreement /\ Layered

-----------------------------------------------------------------------------
LEMMA GroupFacts ==
  ASSUME MergeTypeOK
  PROVE  /\ Len(group) \in Nat /\ DOMAIN group = 1 .. Len(group)
         /\ \A i \in DOMAIN group : Doc(i) \in Documents
         /\ at \in Nat \ {0} /\ at <= Len(group) + 1
         /\ \A path : Writers(path) \subseteq DOMAIN group /\ Visited(path) \subseteq Writers(path)
         /\ \A path : \A i \in Writers(path) : i \in Nat
         /\ \A path \in left : at \in Writers(path) /\ at \notin Visited(path)
BY GroupsAreSequences DEF MergeTypeOK, Doc, Writers, Visited, LeavesAt

LEMMA MergeInit == Init => MergeInv
<1> SUFFICES ASSUME Init PROVE MergeInv
  OBVIOUS
<1>1. MergeTypeOK
  <2>1. Len(group) \in Nat
    BY GroupsAreSequences DEF Init
  <2> QED BY <2>1, MergeLaw DEF Init, MergeTypeOK
<1>2. \A path : Visited(path) = {}
  <2> SUFFICES ASSUME NEW path, NEW i \in Visited(path) PROVE FALSE
    OBVIOUS
  <2>1. i \in 1 .. Len(group) /\ Len(group) \in Nat /\ i \in Writers(path)
    BY <1>1, GroupFacts
  <2>2. i = 1 /\ path \notin LeavesAt(1)
    BY <2>1 DEF Init, Visited
  <2> QED BY <2>1, <2>2 DEF Writers
<1>3. LastVisited /\ Contradictions /\ Listed /\ Agreement
  BY <1>2 DEF Init, Empty, LastVisited, Contradictions, Listed, Agreement
<1>4. Layered
  <2>1. LeavesOf(merged) = Empty
    BY MergeLaw DEF Init
  <2>2. \A path : ~ Unhidden(path)
    BY <1>1, GroupFacts DEF Init, Unhidden
  <2> QED BY <2>1, <2>2 DEF Layered, Empty
<1> QED BY <1>1, <1>3, <1>4 DEF MergeInv

-----------------------------------------------------------------------------
(* One CR is merged.                                                       *)

LEMMA MergeCRKeeps ==
  ASSUME MergeInv, MergeCR
  PROVE  MergeInv'
<1> USE DEF MergeCR
<1>0. /\ MergeTypeOK /\ at \in DOMAIN group /\ at + 1 \in 1 .. Len(group) + 1
      /\ Len(group) \in Nat /\ DOMAIN group = 1 .. Len(group) /\ at \in Nat
  BY GroupFacts DEF MergeInv
<1>1. MergeTypeOK'
  BY <1>0, GroupFacts, MergeLaw DEF MergeTypeOK, LeavesAt, Doc
<1>2. \A path : Writers(path)' = Writers(path)
  BY DEF Writers, LeavesAt, Doc
<1>3. \A path : Visited(path)' = Visited(path)
  <2> SUFFICES ASSUME NEW path, NEW i \in Writers(path)
               PROVE  i \in Visited(path)' <=> i \in Visited(path)
    BY <1>2 DEF Visited
  <2>1. i \in 1 .. Len(group) /\ path \in LeavesAt(i)
    BY <1>0 DEF Writers
  <2>2. i \in Visited(path) <=> i < at \/ i = at
    BY DEF Visited
  <2>3. i \in Visited(path)' <=> i < at + 1 \/ (i = at + 1 /\ path \notin LeavesAt(at + 1))
    BY <1>2 DEF Visited
  <2> QED BY <1>0, <2>1, <2>2, <2>3
<1>4. LastVisited'
  BY <1>3 DEF MergeInv, LastVisited
<1>5. Contradictions' /\ Listed' /\ Agreement'
  <2>1. \A path, i, w : OverriddenBy(path, i, w)' <=> OverriddenBy(path, i, w)
    BY <1>2 DEF OverriddenBy, Value, Doc
  <2>2. Contradictions'
    BY <1>3, <2>1 DEF MergeInv, Contradictions, Reported, LosersInOrder, Value, Doc
  <2>3. Listed' /\ Agreement'
    BY <1>3 DEF MergeInv, Listed, Agreement, Value, Doc
  <2> QED BY <2>2, <2>3
<1>6. Layered'
  <2> DEFINE old == LeavesOf(merged)
             new == LeavesOf(Doc(at))
             kept == { path \in DOMAIN old : ~ Hides(Doc(at), path) }
  <2>1. /\ old' = [path \in DOMAIN new \cup kept |->
                       IF path \in DOMAIN new THEN new[path] ELSE old[path]]
        /\ \A path \in DOMAIN new : Hides(Doc(at), path)
    BY <1>0, GroupFacts, MergeLaw DEF MergeTypeOK
  <2>2. \A path : at \in Writers(path) <=> path \in DOMAIN new
    BY <1>0 DEF Writers, LeavesAt
  <2>3. /\ \A path : path \in DOMAIN old <=> Unhidden(path)
        /\ \A path \in DOMAIN old : ValueOfLast(path, old[path])
    BY DEF MergeInv, Layered
  <2>4. \A path : \A i \in Writers(path) : i \in 1 .. Len(group)
    BY <1>0 DEF Writers
  <2> HIDE DEF old, new
  <2>5. ASSUME NEW path
        PROVE  path \in DOMAIN old' <=> Unhidden(path)'
    <3>1. Unhidden(path)' <=>
            \E i \in Writers(path) :
              i < at + 1 /\ \A j \in DOMAIN group : i < j /\ j < at + 1 => ~ Hides(Doc(j), path)
      BY <1>2 DEF Unhidden, Doc
    <3>2. Unhidden(path)' <=> at \in Writers(path) \/ (Unhidden(path) /\ ~ Hides(Doc(at), path))
      <4>1. ASSUME NEW i \in Writers(path)
            PROVE  (/\ i < at + 1
                    /\ \A j \in DOMAIN group : i < j /\ j < at + 1 => ~ Hides(Doc(j), path))
                   <=> \/ i = at
                       \/ /\ i < at /\ ~ Hides(Doc(at), path)
                          /\ \A j \in DOMAIN group : i < j /\ j < at => ~ Hides(Doc(j), path)
        <5>1. i \in Nat /\ at \in Nat
          BY <1>0, <2>4
        <5>2. CASE i = at
          <6>1. i < at + 1 /\ \A j \in DOMAIN group : ~ (i < j /\ j < at + 1)
            BY <1>0, <5>2
          <6> QED BY <5>2, <6>1
        <5>3. CASE i < at
          <6>1. /\ i < at + 1 /\ at < at + 1
                /\ \A j \in DOMAIN group : j < at + 1 <=> j < at \/ j = at
            BY <1>0, <5>1, <5>3
          <6> QED BY <1>0, <5>3, <6>1
        <5>4. CASE at < i
          <6>1. ~ (i < at + 1) /\ i # at /\ ~ (i < at)
            BY <5>1, <5>4
          <6> QED BY <6>1
        <5> QED BY <5>1, <5>2, <5>3, <5>4
      <4> QED BY <3>1, <4>1 DEF Unhidden
    <3> QED BY <2>1, <2>2, <2>3, <3>2
  <2>6. ASSUME NEW path \in DOMAIN old'
        PROVE  ValueOfLast(path, old[path])'
    <3>1. SUFFICES \E i \in Writers(path) :
                     /\ i < at + 1 /\ old'[path] = Value(i, path)
                     /\ \A j \in Writers(path) : j < at + 1 => j <= i
      BY <1>2 DEF ValueOfLast, Value, Doc
    <3>2. CASE path \in DOMAIN new
      <4>1. at \in Writers(path) /\ old'[path] = Value(at, path)
        BY <2>1, <2>2, <3>2 DEF Value, new
      <4> QED BY <1>0, <2>4, <4>1
    <3>3. CASE path \notin DOMAIN new
      <4>1. path \in DOMAIN old /\ old'[path] = old[path] /\ at \notin Writers(path)
        BY <2>1, <2>2, <3>3
      <4>2. PICK i \in Writers(path) : /\ i < at /\ old[path] = Value(i, path)
                                       /\ \A j \in Writers(path) : j < at => j <= i
        BY <2>3, <4>1 DEF ValueOfLast
      <4> QED BY <1>0, <2>4, <4>1, <4>2
    <3> QED BY <3>2, <3>3
  <2>7. old' = [path \in DOMAIN old' |-> old'[path]]
    BY <2>1
  <2>8. \A path : path \in DOMAIN old' <=> Unhidden(path)'
    BY <2>5
  <2>9. \A path \in DOMAIN old' : ValueOfLast(path, old[path])'
    BY <2>6
  <2> QED BY <2>7, <2>8, <2>9 DEF Layered, old
<1> QED BY <1>1, <1>4, <1>5, <1>6 DEF MergeInv

-----------------------------------------------------------------------------
(* One leaf is visited.                                                    *)

(* What holds of a recorded path when its leaf is visited again.           *)
LEMMA PriorWriter ==
  ASSUME MergeInv, NEW path \in left
  PROVE  LET prior == provenance[path]
         IN  /\ at \in Writers(path) /\ at \in Nat
             /\ \A i \in Visited(path) : i \in Nat /\ i < at
             /\ \A i \in Writers(path) : i \in Nat /\ (i < at => i \in Visited(path))
             /\ path \in DOMAIN provenance =>
                  /\ prior \in Visited(path)
                  /\ \A i \in Writers(path) : ~ (prior < i /\ i < at)
                  /\ Compare(Value(prior, path), Value(at, path)) = "equal" =>
                       Value(prior, path) = Value(at, path)
                  /\ Compare(Value(prior, path), Value(at, path)) = "differ" =>
                       Value(prior, path) # Value(at, path)
             /\ path \notin DOMAIN provenance => Visited(path) = {}
<1> DEFINE prior == provenance[path]
<1>1. /\ MergeTypeOK /\ at \in Nat /\ at \in Writers(path)
      /\ \A i \in Writers(path) : i \in Nat /\ i \in DOMAIN group
  BY GroupFacts DEF MergeInv
<1>2. \A i \in Visited(path) : i \in Writers(path) /\ i < at
  BY DEF Visited
<1>3. \A i \in Writers(path) : i < at => i \in Visited(path)
  BY DEF Visited
<1>4. ASSUME path \in DOMAIN provenance
      PROVE  /\ prior \in Visited(path)
             /\ \A i \in Writers(path) : ~ (prior < i /\ i < at)
             /\ Compare(Value(prior, path), Value(at, path)) = "equal" =>
                  Value(prior, path) = Value(at, path)
             /\ Compare(Value(prior, path), Value(at, path)) = "differ" =>
                  Value(prior, path) # Value(at, path)
  <2>1. prior \in Visited(path) /\ \A i \in Visited(path) : i <= prior
    BY <1>4 DEF MergeInv, LastVisited
  <2>2. \A i \in Writers(path) : ~ (prior < i /\ i < at)
    <3> SUFFICES ASSUME NEW i \in Writers(path), prior < i, i < at
                 PROVE  FALSE
      OBVIOUS
    <3>1. i <= prior /\ i \in Nat /\ prior \in Nat
      BY <1>1, <1>2, <1>3, <2>1
    <3> QED BY <3>1
  <2>3. \A i \in {prior, at} : Doc(i) \in Documents /\ path \in DOMAIN LeavesOf(Doc(i))
    BY <1>1, <1>2, <2>1, GroupFacts DEF Writers, LeavesAt
  <2>4. /\ Compare(Value(prior, path), Value(at, path)) = "equal" =>
             Value(prior, path) = Value(at, path)
        /\ Compare(Value(prior, path), Value(at, path)) = "differ" =>
             Value(prior, path) # Value(at, path)
    BY <2>3, CompareLaw DEF Value
  <2> QED BY <2>1, <2>2, <2>4
<1>5. path \notin DOMAIN provenance => Visited(path) = {}
  BY DEF MergeInv, LastVisited
<1> QED BY <1>1, <1>2, <1>3, <1>4, <1>5

LEMMA VisitLeafKeeps ==
  ASSUME MergeInv, NEW path \in left, VisitLeaf(path)
  PROVE  MergeInv'
<1> DEFINE known   == path \in DOMAIN provenance
           prior   == provenance[path]
           verdict == IF known THEN Compare(Value(prior, path), Value(at, path))
                               ELSE "equal"
<1>0. UNCHANGED <<group, at, merged>>
  BY DEF VisitLeaf
<1>1. /\ \A q : Writers(q)' = Writers(q)
      /\ \A i, q : Value(i, q)' = Value(i, q)
      /\ \A i, w, q : OverriddenBy(q, i, w)' <=> OverriddenBy(q, i, w)
  BY <1>0 DEF Writers, LeavesAt, Value, Doc, OverriddenBy
<1>2. Layered'
  <2>1. /\ \A q : Unhidden(q)' <=> Unhidden(q)
        /\ \A q, v : ValueOfLast(q, v)' <=> ValueOfLast(q, v)
    BY <1>0, <1>1 DEF Unhidden, ValueOfLast, Doc
  <2> QED BY <1>0, <2>1 DEF MergeInv, Layered
<1>3. CASE verdict = "panic"
  <2>1. UNCHANGED <<left, provenance, conflicts, order>>
    BY <1>3 DEF VisitLeaf
  <2>2. \A q : Visited(q)' = Visited(q)
    BY <1>0, <1>1, <2>1 DEF Visited
  <2>3. MergeTypeOK' /\ LastVisited' /\ Listed' /\ Agreement'
    BY <1>0, <1>1, <2>1, <2>2
       DEF MergeInv, MergeTypeOK, LastVisited, Listed, Agreement, LeavesAt, Doc
  <2>4. Contradictions'
    BY <1>0, <1>1, <2>1, <2>2 DEF MergeInv, Contradictions, Reported, LosersInOrder
  <2> QED BY <1>2, <2>3, <2>4 DEF MergeInv
<1>4. CASE verdict # "panic"
  <2>1. left' = left \ {path} /\ provenance' = Put(provenance, path, at)
    BY <1>4 DEF VisitLeaf
  <2>2. /\ DOMAIN provenance' = DOMAIN provenance \cup {path}
        /\ provenance'[path] = at
        /\ \A q \in DOMAIN provenance : q # path => provenance'[q] = provenance[q]
    BY <2>1 DEF Put
  <2>3. /\ at \in Writers(path) /\ at \in Nat
        /\ \A i \in Visited(path) : i \in Nat /\ i < at
        /\ \A i \in Writers(path) : i \in Nat /\ (i < at => i \in Visited(path))
    BY PriorWriter
  <2>4. /\ \A q : q # path => Visited(q)' = Visited(q)
        /\ Visited(path)' = Visited(path) \cup {at}
    <3>1. \A q : q # path => (q \in left' <=> q \in left)
      BY <2>1
    <3>2. path \notin left' /\ path \in left
      BY <2>1
    <3> QED BY <1>0, <1>1, <2>3, <3>1, <3>2 DEF Visited
  <2>5. MergeTypeOK'
    BY <1>0, <2>1 DEF MergeInv, MergeTypeOK, LeavesAt, Doc
  <2>6. LastVisited'
    <3>1. /\ \A q : Visited(q)' # {} => q \in DOMAIN provenance'
      BY <2>2, <2>4 DEF MergeInv, LastVisited
    <3>2. ASSUME NEW q \in DOMAIN provenance'
          PROVE  /\ provenance'[q] \in Visited(q)'
                 /\ \A i \in Visited(q)' : i <= provenance'[q]
      <4>1. CASE q = path
        BY <2>2, <2>3, <2>4, <4>1
      <4>2. CASE q # path
        BY <2>2, <2>4, <3>2, <4>2 DEF MergeInv, LastVisited
      <4> QED BY <4>1, <4>2
    <3> QED BY <3>1, <3>2 DEF LastVisited
  <2>7. ASSUME NEW q \in DOMAIN conflicts, q # path, conflicts'[q] = conflicts[q]
        PROVE  Reported(q, conflicts[q])' /\ LosersInOrder(q, conflicts[q].losers)'
    <3>1. /\ Visited(q)' = Visited(q)
          /\ q \in DOMAIN provenance => provenance'[q] = provenance[q] /\ q \in DOMAIN provenance'
      BY <2>2, <2>4, <2>7
    <3>2. Reported(q, conflicts[q]) /\ LosersInOrder(q, conflicts[q].losers)
      BY <2>7 DEF MergeInv, Contradictions
    <3>3. Reported(q, conflicts[q])'
      BY <1>0, <1>1, <2>7, <3>1, <3>2 DEF Reported
    <3>4. LosersInOrder(q, conflicts[q].losers)'
      BY <1>1, <2>7, <3>1, <3>2 DEF LosersInOrder
    <3> QED BY <3>3, <3>4
  <2>8. ASSUME NEW q \in DOMAIN provenance' \ DOMAIN conflicts, q # path
        PROVE  \A i \in Visited(q)' : Value(i, q)' = Value(provenance[q], q)'
    <3>1. q \in DOMAIN provenance /\ provenance'[q] = provenance[q]
      BY <2>2, <2>8
    <3>2. \A i \in Visited(q) : Value(i, q) = Value(provenance[q], q)
      BY <2>8, <3>1 DEF MergeInv, Agreement
    <3> QED BY <1>1, <2>4, <2>8, <3>1, <3>2
  <2>9. ASSUME known
        PROVE  /\ prior \in Visited(path) /\ prior \in Nat /\ prior < at
               /\ \A i \in Visited(path) : i <= prior
               /\ \A i \in Writers(path) : ~ (prior < i /\ i < at)
    BY <2>3, <2>9, PriorWriter DEF MergeInv, LastVisited
  <2>10. ASSUME known, NEW i \in Visited(path)', NEW w \in Visited(path)'
         PROVE  OverriddenBy(path, i, w) <=>
                  \/ i \in Visited(path) /\ w \in Visited(path) /\ OverriddenBy(path, i, w)
                  \/ i = prior /\ w = at /\ Value(prior, path) # Value(at, path)
    <3>1. i \in Nat /\ w \in Nat /\ i <= at /\ w <= at
      BY <2>3, <2>4, <2>10
    <3>2. CASE w # at
      <4>1. w \in Visited(path) /\ w < at
        BY <2>3, <2>4, <2>10, <3>2
      <4>2. i < w => i \in Visited(path)
        BY <2>3, <2>4, <2>10, <3>1, <4>1
      <4> QED BY <3>2, <4>1, <4>2 DEF OverriddenBy
    <3>3. CASE w = at
      <4>1. w \notin Visited(path)
        BY <2>3, <3>3
      <4>2. i < w => i \in Visited(path) /\ i <= prior /\ (i < prior => prior < w)
        BY <2>3, <2>4, <2>9, <2>10, <3>1, <3>3
      <4>3. prior \in Writers(path)
        BY <2>9, <2>10 DEF Visited
      <4>4. i < w /\ i # prior => ~ OverriddenBy(path, i, w)
        BY <2>9, <2>10, <3>1, <4>2, <4>3 DEF OverriddenBy
      <4>5. OverriddenBy(path, prior, at) <=> Value(prior, path) # Value(at, path)
        BY <2>9, <2>10 DEF OverriddenBy
      <4> QED BY <3>3, <4>1, <4>4, <4>5 DEF OverriddenBy
    <3> QED BY <3>2, <3>3
  <2>11. CASE verdict = "differ"
    <3>0. known /\ AddConflict(path, prior)
      BY <2>11 DEF VisitLeaf
    <3>1. /\ prior \in Visited(path) /\ prior \in Nat /\ prior < at
          /\ \A i \in Visited(path) : i <= prior
          /\ prior \in Visited(path)' /\ at \in Visited(path)'
          /\ Value(prior, path) # Value(at, path)
      BY <2>4, <2>9, <2>11, <3>0, PriorWriter
    <3>2. OverriddenBy(path, prior, at)
      BY <2>10, <3>0, <3>1
    <3> DEFINE fresh == path \notin DOMAIN conflicts
               old   == IF fresh THEN <<>> ELSE conflicts[path].losers
               fc    == conflicts'[path]
    <3>3. /\ DOMAIN conflicts' = DOMAIN conflicts \cup {path}
          /\ fc.winner = at
          /\ fc.losers = Append(old, prior)
          /\ fc.sameWeight <=> \/ ~ fresh /\ conflicts[path].sameWeight
                               \/ group[prior].weight = group[at].weight
          /\ \A q \in DOMAIN conflicts : q # path => conflicts'[q] = conflicts[q]
          /\ order' = IF fresh THEN Append(order, path) ELSE order
      BY <3>0 DEF AddConflict, Put
    <3>4. fresh => \A i, w \in Visited(path) : ~ OverriddenBy(path, i, w)
      BY <3>0 DEF MergeInv, Agreement, OverriddenBy
    <3>5. LosersInOrder(path, old)
      BY DEF MergeInv, Contradictions, LosersInOrder
    <3>6. old \in Seq(Nat) /\ fc.losers \in Seq(Nat)
      BY <3>1, <3>3, <3>5 DEF LosersInOrder
    <3>7. /\ DOMAIN fc.losers = 1 .. Len(old) + 1 /\ DOMAIN old = 1 .. Len(old)
          /\ Len(old) \in Nat
          /\ fc.losers[Len(old) + 1] = prior
          /\ \A n \in DOMAIN old : fc.losers[n] = old[n]
      BY <3>1, <3>3, <3>6
    <3>8. \A n \in DOMAIN old : old[n] \in Nat /\ old[n] < prior
      <4>1. ASSUME NEW n \in DOMAIN old, NEW w \in Visited(path), OverriddenBy(path, old[n], w)
            PROVE  old[n] < prior
        BY <2>3, <3>1, <3>6, <4>1 DEF OverriddenBy
      <4> QED BY <3>5, <3>6, <4>1 DEF LosersInOrder
    <3> HIDE DEF fc, old
    <3>9. LosersInOrder(path, conflicts[path].losers)'
      <4>1. ASSUME NEW n \in DOMAIN fc.losers
            PROVE  /\ fc.losers[n] \in Visited(path)'
                   /\ \E w \in Visited(path)' : OverriddenBy(path, fc.losers[n], w)
        <5>1. CASE n = Len(old) + 1
          BY <3>1, <3>2, <3>7, <5>1
        <5>2. CASE n # Len(old) + 1
          <6>1. n \in DOMAIN old /\ fc.losers[n] = old[n]
            BY <3>7, <4>1, <5>2
          <6> QED BY <2>4, <3>5, <6>1 DEF LosersInOrder
        <5> QED BY <5>1, <5>2
      <4>2. ASSUME NEW m \in DOMAIN fc.losers, NEW n \in DOMAIN fc.losers, m < n
            PROVE  fc.losers[m] < fc.losers[n]
        <5>1. m \in DOMAIN old /\ fc.losers[m] = old[m]
          BY <3>7, <4>2
        <5>2. CASE n = Len(old) + 1
          BY <3>7, <3>8, <5>1, <5>2
        <5>3. CASE n # Len(old) + 1
          <6>1. n \in DOMAIN old /\ fc.losers[n] = old[n]
            BY <3>7, <4>2, <5>3
          <6> QED BY <3>5, <4>2, <5>1, <6>1 DEF LosersInOrder
        <5> QED BY <5>2, <5>3
      <4> QED BY <1>1, <3>6, <4>1, <4>2 DEF LosersInOrder, fc
    <3>10. Reported(path, conflicts[path])'
      <4>1. \E i \in Visited(path)' : OverriddenBy(path, i, at)
        BY <3>1, <3>2
      <4>2. ASSUME NEW i \in Visited(path)', NEW w \in Visited(path)', OverriddenBy(path, i, w)
            PROVE  w <= at /\ \E n \in DOMAIN fc.losers : fc.losers[n] = i
        <5>1. w <= at
          BY <2>3, <2>4, <4>2
        <5>2. CASE i = prior
          BY <3>7, <5>1, <5>2
        <5>3. CASE i # prior
          <6>1. i \in Visited(path) /\ w \in Visited(path)
            BY <2>10, <3>0, <4>2, <5>3
          <6>2. ~ fresh /\ Reported(path, conflicts[path])
            BY <3>4, <4>2, <6>1 DEF MergeInv, Contradictions
          <6>3. PICK n \in DOMAIN conflicts[path].losers : conflicts[path].losers[n] = i
            BY <4>2, <6>1, <6>2 DEF Reported
          <6>4. n \in DOMAIN old /\ old[n] = i
            BY <6>2, <6>3 DEF old
          <6>5. n \in DOMAIN fc.losers /\ fc.losers[n] = i
            BY <3>7, <6>4
          <6> QED BY <5>1, <6>5
        <5> QED BY <5>2, <5>3
      <4>3. fc.sameWeight <=>
              \E i, w \in Visited(path)' :
                OverriddenBy(path, i, w) /\ group[i].weight = group[w].weight
        <5>1. (\E i, w \in Visited(path)' :
                 OverriddenBy(path, i, w) /\ group[i].weight = group[w].weight)
              <=> \/ \E i, w \in Visited(path) :
                       OverriddenBy(path, i, w) /\ group[i].weight = group[w].weight
                  \/ group[prior].weight = group[at].weight
          BY <2>4, <2>10, <3>0, <3>1, <3>2
        <5>2. CASE fresh
          BY <3>3, <3>4, <5>1, <5>2 DEF fc
        <5>3. CASE ~ fresh
          <6>1. conflicts[path].sameWeight <=>
                  \E i, w \in Visited(path) :
                    OverriddenBy(path, i, w) /\ group[i].weight = group[w].weight
            BY <5>3 DEF MergeInv, Contradictions, Reported
          <6> QED BY <3>3, <5>1, <5>3, <6>1 DEF fc
        <5> QED BY <5>2, <5>3
      <4> QED BY <1>0, <1>1, <2>2, <2>4, <3>3, <4>1, <4>2, <4>3 DEF Reported, fc
    <3>11. Contradictions'
      BY <2>7, <3>3, <3>9, <3>10 DEF Contradictions
    <3>12. Listed'
      <4>1. CASE fresh
        <5>1. /\ order \in Seq(DOMAIN conflicts) /\ Len(order) \in Nat
              /\ \A n \in DOMAIN order : order[n] \in DOMAIN conflicts /\ order[n] # path
              /\ DOMAIN order = 1 .. Len(order)
          BY <4>1 DEF MergeInv, Listed
        <5>2. /\ DOMAIN order' = 1 .. Len(order) + 1
              /\ order'[Len(order) + 1] = path
              /\ \A n \in DOMAIN order : order'[n] = order[n]
          BY <3>3, <4>1, <5>1
        <5>3. order' \in Seq(DOMAIN conflicts')
          <6>1. order \in Seq(DOMAIN conflicts') /\ path \in DOMAIN conflicts'
            BY <3>3, <5>1
          <6> QED BY <3>3, <4>1, <6>1
        <5>4. \A q \in DOMAIN conflicts' : \E n \in DOMAIN order' : order'[n] = q
          <6>1. \A q \in DOMAIN conflicts : \E n \in DOMAIN order : order[n] = q
            BY DEF MergeInv, Listed
          <6>2. \A n \in DOMAIN order : n \in DOMAIN order'
            BY <5>1, <5>2
          <6>3. Len(order) + 1 \in DOMAIN order'
            BY <5>1, <5>2
          <6> QED BY <3>3, <5>2, <6>1, <6>2, <6>3
        <5>5. ASSUME NEW m \in DOMAIN order', NEW n \in DOMAIN order', order'[m] = order'[n]
              PROVE  m = n
          <6>1. \A k \in DOMAIN order' : k \in DOMAIN order \/ k = Len(order) + 1
            BY <5>1, <5>2
          <6>2. \A j, k \in DOMAIN order : order[j] = order[k] => j = k
            BY DEF MergeInv, Listed
          <6> QED BY <5>1, <5>2, <5>5, <6>1, <6>2
        <5> QED BY <5>3, <5>4, <5>5 DEF Listed
      <4>2. CASE ~ fresh
        <5>1. order' = order /\ DOMAIN conflicts' = DOMAIN conflicts
          BY <3>3, <4>2
        <5> QED BY <5>1 DEF MergeInv, Listed
      <4> QED BY <4>1, <4>2
    <3>13. Agreement'
      BY <2>8, <3>3 DEF Agreement
    <3> QED BY <1>2, <2>5, <2>6, <3>11, <3>12, <3>13 DEF MergeInv
  <2>12. CASE verdict # "differ"
    <3>0. UNCHANGED <<conflicts, order>> /\ verdict = "equal"
      BY <1>4, <2>12 DEF VisitLeaf
    <3>1. known => /\ prior \in Visited(path)
                   /\ Value(prior, path) = Value(at, path)
      BY <3>0, PriorWriter
    <3>2. ASSUME path \in DOMAIN conflicts
          PROVE  Reported(path, conflicts[path])' /\ LosersInOrder(path, conflicts[path].losers)'
      <4>1. Reported(path, conflicts[path]) /\ LosersInOrder(path, conflicts[path].losers)
        BY <3>2 DEF MergeInv, Contradictions
      <4>2. known
        BY <4>1 DEF Reported
      <4>3. \A i, w \in Visited(path)' :
              OverriddenBy(path, i, w) <=>
                i \in Visited(path) /\ w \in Visited(path) /\ OverriddenBy(path, i, w)
        BY <2>10, <3>1, <4>2
      <4>4. \A i \in Visited(path) : i \in Visited(path)'
        BY <2>4
      <4>5. Reported(path, conflicts[path])'
        <5>1. path \in DOMAIN provenance' /\ conflicts[path].winner \in Visited(path)'
          BY <2>2, <4>1, <4>4 DEF Reported
        <5>2. Value(conflicts[path].winner, path) = Value(at, path)
          BY <3>1, <4>1, <4>2 DEF Reported
        <5>3. \E i \in Visited(path)' : OverriddenBy(path, i, conflicts[path].winner)
          BY <4>1, <4>4 DEF Reported
        <5>4. \A i, w \in Visited(path)' :
                OverriddenBy(path, i, w) =>
                  /\ w <= conflicts[path].winner
                  /\ \E n \in DOMAIN conflicts[path].losers : conflicts[path].losers[n] = i
          BY <4>1, <4>3 DEF Reported
        <5>5. conflicts[path].sameWeight <=>
                \E i, w \in Visited(path)' :
                  OverriddenBy(path, i, w) /\ group[i].weight = group[w].weight
          BY <4>1, <4>3, <4>4 DEF Reported
        <5> QED BY <1>0, <1>1, <2>2, <3>0, <5>1, <5>2, <5>3, <5>4, <5>5 DEF Reported
      <4>6. LosersInOrder(path, conflicts[path].losers)'
        BY <1>1, <3>0, <4>1, <4>4 DEF LosersInOrder
      <4> QED BY <4>5, <4>6
    <3>3. Contradictions'
      BY <2>7, <3>0, <3>2 DEF Contradictions
    <3>4. ASSUME path \notin DOMAIN conflicts
          PROVE  \A i \in Visited(path)' : Value(i, path)' = Value(provenance[path], path)'
      <4>1. known => \A i \in Visited(path) : Value(i, path) = Value(prior, path)
        BY <3>4 DEF MergeInv, Agreement
      <4>2. ~ known => Visited(path) = {}
        BY PriorWriter
      <4> QED BY <1>1, <2>2, <2>4, <3>1, <4>1, <4>2
    <3>5. Agreement'
      BY <2>8, <3>0, <3>4 DEF Agreement
    <3>6. Listed'
      BY <3>0 DEF MergeInv, Listed
    <3> QED BY <1>2, <2>5, <2>6, <3>3, <3>5, <3>6 DEF MergeInv
  <2> QED BY <2>11, <2>12
<1> QED BY <1>3, <1>4

-----------------------------------------------------------------------------
LEMMA MergeNext ==
  ASSUME MergeInv, [Next]_vars
  PROVE  MergeInv'
<1>1. CASE UNCHANGED vars
  BY <1>1 DEF MergeInv, MergeTypeOK, LastVisited, Contradictions, Reported, LosersInOrder,
              Listed, Agreement, Layered, Unhidden, ValueOfLast, OverriddenBy, Visited,
              Writers, LeavesAt, Value, Doc, vars
<1>2. CASE MergeCR
  BY <1>2, MergeCRKeeps
<1>3. CASE \E path \in left : VisitLeaf(path)
  BY <1>3, VisitLeafKeeps
<1> QED BY <1>1, <1>2, <1>3 DEF Next

(* At every moment of the loop the provenance, the conflicts and the       *)
(* document so far are those of the leaves visited and the CRs merged.     *)
THEOREM MergeInvariant == Spec => []MergeInv
BY MergeInit, MergeNext, PTL DEF Spec

(* After the loop all writers have been visited.                           *)
LEMMA AfterTheLoop ==
  ASSUME MergeInv, Returned
  PROVE  /\ Len(group) \in Nat /\ at = Len(group) + 1
         /\ \A path : Visited(path) = Writers(path)
         /\ \A path : \A i \in Writers(path) : i \in 1 .. Len(group) /\ i < at
<1>1. /\ MergeTypeOK /\ Len(group) \in Nat /\ DOMAIN group = 1 .. Len(group)
      /\ at = Len(group) + 1
  BY GroupFacts DEF MergeInv, Returned
<1>2. \A path : \A i \in Writers(path) : i \in 1 .. Len(group) /\ i < at
  BY <1>1 DEF Writers
<1> QED BY <1>1, <1>2 DEF Visited

(* When a merge returns, each conflict's winner has the value served, and  *)
(* no writer of a served leaf was overridden without a conflict.           *)
THEOREM ConflictsExplain == Spec => []ConflictsExplainOutput
<1>1. ASSUME MergeInv, Returned, NEW path \in DOMAIN LeavesOf(merged)
      PROVE  /\ path \in DOMAIN conflicts =>
                  Value(conflicts[path].winner, path) = LeavesOf(merged)[path]
             /\ \A i \in Writers(path) :
                  Value(i, path) # LeavesOf(merged)[path] => path \in DOMAIN conflicts
  <2>1. PICK i \in Writers(path) :
          /\ LeavesOf(merged)[path] = Value(i, path)
          /\ \A j \in Writers(path) : j < at => j <= i
    BY <1>1 DEF MergeInv, Layered, ValueOfLast
  <2>2. /\ path \in DOMAIN provenance /\ provenance[path] \in Writers(path)
        /\ \A j \in Writers(path) : j <= provenance[path]
    BY <1>1, <2>1, AfterTheLoop DEF MergeInv, LastVisited
  <2>3. provenance[path] = i
    <3>1. /\ i \in Nat /\ provenance[path] \in Nat
          /\ i <= provenance[path] /\ provenance[path] <= i
      BY <1>1, <2>1, <2>2, AfterTheLoop
    <3> QED BY <3>1
  <2>4. path \in DOMAIN conflicts =>
          Value(conflicts[path].winner, path) = Value(provenance[path], path)
    BY <1>1 DEF MergeInv, Contradictions, Reported
  <2>5. path \notin DOMAIN conflicts =>
          \A j \in Writers(path) : Value(j, path) = Value(provenance[path], path)
    BY <1>1, <2>2, AfterTheLoop DEF MergeInv, Agreement
  <2> QED BY <2>1, <2>3, <2>4, <2>5
<1>2. MergeInv => ConflictsExplainOutput
  BY <1>1 DEF ConflictsExplainOutput
<1> QED BY <1>2, MergeInvariant, PTL

(* When a merge returns, its report is what the group's writers determine, *)
(* whatever order the leaves were visited in: for every path its losers,   *)
(* its winner and its SameWeight, and each such path once.                 *)
THEOREM ReportIsExact == Spec => []ReportIsOfGroup
<1>1. ASSUME MergeInv, Returned, NEW path \in DOMAIN conflicts
      PROVE  LET fc    == conflicts[path]
                 pairs == Overridings(path)
             IN  /\ { fc.losers[n] : n \in DOMAIN fc.losers } = { pair[1] : pair \in pairs }
                 /\ \A m, n \in DOMAIN fc.losers : m < n => fc.losers[m] < fc.losers[n]
                 /\ \E pair \in pairs : fc.winner = pair[2]
                 /\ \A pair \in pairs : pair[2] <= fc.winner
                 /\ fc.sameWeight <=>
                      \E pair \in pairs : group[pair[1]].weight = group[pair[2]].weight
  <2> DEFINE fc    == conflicts[path]
             pairs == Overridings(path)
  <2>1. Reported(path, fc) /\ LosersInOrder(path, fc.losers) /\ Visited(path) = Writers(path)
    BY <1>1, AfterTheLoop DEF MergeInv, Contradictions
  <2>2. \A i, w \in Writers(path) : OverriddenBy(path, i, w) => <<i, w>> \in pairs
    BY DEF Overridings
  <2>3. \A pair \in pairs : /\ pair[1] \in Writers(path) /\ pair[2] \in Writers(path)
                            /\ OverriddenBy(path, pair[1], pair[2])
    BY DEF Overridings
  <2> HIDE DEF fc, pairs
  <2>4. { fc.losers[n] : n \in DOMAIN fc.losers } = { pair[1] : pair \in pairs }
    <3>1. ASSUME NEW n \in DOMAIN fc.losers
          PROVE  \E pair \in pairs : pair[1] = fc.losers[n]
      <4>1. PICK w \in Writers(path) : fc.losers[n] \in Writers(path) /\ OverriddenBy(path, fc.losers[n], w)
        BY <2>1, <3>1 DEF LosersInOrder
      <4>2. <<fc.losers[n], w>> \in pairs
        BY <2>2, <4>1
      <4> QED BY <4>2
    <3>2. ASSUME NEW pair \in pairs
          PROVE  \E n \in DOMAIN fc.losers : fc.losers[n] = pair[1]
      BY <2>1, <2>3, <3>2 DEF Reported
    <3> QED BY <3>1, <3>2
  <2>5. \A m, n \in DOMAIN fc.losers : m < n => fc.losers[m] < fc.losers[n]
    BY <2>1 DEF LosersInOrder
  <2>6. \E pair \in pairs : fc.winner = pair[2]
    <3>1. PICK i \in Writers(path) : fc.winner \in Writers(path) /\ OverriddenBy(path, i, fc.winner)
      BY <2>1 DEF Reported
    <3>2. <<i, fc.winner>> \in pairs
      BY <2>2, <3>1
    <3> QED BY <3>2
  <2>7. \A pair \in pairs : pair[2] <= fc.winner
    BY <2>1, <2>3 DEF Reported
  <2>8. fc.sameWeight <=>
          \E pair \in pairs : group[pair[1]].weight = group[pair[2]].weight
    <3>1. ASSUME NEW i \in Writers(path), NEW w \in Writers(path),
                 OverriddenBy(path, i, w), group[i].weight = group[w].weight
          PROVE  \E pair \in pairs : group[pair[1]].weight = group[pair[2]].weight
      <4>1. <<i, w>> \in pairs
        BY <2>2, <3>1
      <4> QED BY <3>1, <4>1
    <3> QED BY <2>1, <2>3, <3>1 DEF Reported
  <2> QED BY <2>4, <2>5, <2>6, <2>7, <2>8 DEF fc, pairs
<1>2. ASSUME MergeInv, Returned, NEW i \in DOMAIN group, NEW path \in LeavesAt(i),
             Overridings(path) # {}
      PROVE  path \in DOMAIN conflicts
  <2>1. PICK j \in Visited(path), w \in Visited(path) : OverriddenBy(path, j, w)
    BY <1>2, AfterTheLoop DEF Overridings
  <2> QED BY <1>2, <2>1 DEF OverriddenBy, MergeInv, LastVisited, Agreement
<1>3. ASSUME MergeInv
      PROVE  /\ { order[n] : n \in DOMAIN order } = DOMAIN conflicts
             /\ \A m, n \in DOMAIN order : order[m] = order[n] => m = n
  <2>1. order \in Seq(DOMAIN conflicts)
    BY <1>3 DEF MergeInv, Listed
  <2>2. \A n \in DOMAIN order : order[n] \in DOMAIN conflicts
    BY <2>1
  <2> QED BY <1>3, <2>2 DEF MergeInv, Listed
<1>4. MergeInv => ReportIsOfGroup
  BY <1>1, <1>2, <1>3 DEF ReportIsOfGroup
<1> QED BY <1>4, MergeInvariant, PTL

(* When a merge returns, the document serves exactly the leaves that no    *)
(* later layer hides, each with the value of its last writer.              *)
THEOREM MergeLayers == Spec => []MergeIsLayering
<1>1. ASSUME MergeInv, Returned
      PROVE  LET served == { path \in UNION { LeavesAt(i) : i \in DOMAIN group } :
                               \E i \in Writers(path) :
                                 \A j \in i + 1 .. Len(group) : ~ Hides(Doc(j), path) }
                 last(path) == CHOOSE i \in Writers(path) :
                                 \A j \in Writers(path) : j <= i
             IN  LeavesOf(merged) = [path \in served |-> Value(last(path), path)]
  <2> DEFINE written == UNION { LeavesAt(i) : i \in DOMAIN group }
             served == { path \in written :
                           \E i \in Writers(path) :
                             \A j \in i + 1 .. Len(group) : ~ Hides(Doc(j), path) }
             last(path) == CHOOSE i \in Writers(path) :
                             \A j \in Writers(path) : j <= i
             leaves == LeavesOf(merged)
  <2>1. /\ Len(group) \in Nat /\ at = Len(group) + 1
        /\ DOMAIN group = 1 .. Len(group)
        /\ \A path : \A i \in Writers(path) : i \in 1 .. Len(group) /\ i < at
    BY <1>1, AfterTheLoop, GroupFacts DEF MergeInv
  <2>2. ASSUME NEW path
        PROVE  path \in DOMAIN leaves <=> path \in served
    <3>1. ASSUME NEW i \in Writers(path)
          PROVE  (\A j \in DOMAIN group : i < j /\ j < at => ~ Hides(Doc(j), path))
                   <=> \A j \in i + 1 .. Len(group) : ~ Hides(Doc(j), path)
      <4>1. \A j : (j \in DOMAIN group /\ i < j /\ j < at) <=> j \in i + 1 .. Len(group)
        BY <2>1
      <4> QED BY <4>1
    <3>2. Unhidden(path) <=>
            \E i \in Writers(path) : \A j \in i + 1 .. Len(group) : ~ Hides(Doc(j), path)
      BY <2>1, <3>1 DEF Unhidden
    <3>3. Writers(path) # {} => path \in written
      BY DEF Writers
    <3>4. path \in DOMAIN leaves <=> Unhidden(path)
      BY <1>1 DEF MergeInv, Layered
    <3> QED BY <3>2, <3>3, <3>4
  <2>3. ASSUME NEW path \in DOMAIN leaves
        PROVE  leaves[path] = Value(last(path), path)
    <3>1. PICK i \in Writers(path) :
            /\ leaves[path] = Value(i, path)
            /\ \A j \in Writers(path) : j < at => j <= i
      BY <1>1 DEF MergeInv, Layered, ValueOfLast
    <3>2. \A j \in Writers(path) : j <= i
      BY <2>1, <3>1
    <3>3. last(path) \in Writers(path) /\ \A j \in Writers(path) : j <= last(path)
      BY <3>1, <3>2
    <3> HIDE DEF last
    <3>4. last(path) = i
      BY <2>1, <3>1, <3>2, <3>3
    <3> QED BY <3>1, <3>4
  <2>4. leaves = [path \in DOMAIN leaves |-> leaves[path]]
    BY <1>1 DEF MergeInv, Layered
  <2> HIDE DEF leaves, served, last
  <2>5. leaves = [path \in served |-> Value(last(path), path)]
    BY <2>2, <2>3, <2>4
  <2> QED BY <2>5 DEF leaves, served, last
<1>2. MergeInv => MergeIsLayering
  BY <1>1 DEF MergeIsLayering
<1> QED BY <1>2, MergeInvariant, PTL

-----------------------------------------------------------------------------
(* The loop over managedFields: the others among the entries it has        *)
(* visited.                                                                *)
Others == { i \in 1 .. visited : IsOther(managedFields[i]) }

FieldsTypeOK ==
  /\ managedFields \in Seq(Entries)
  /\ visited \in 0 .. Len(managedFields)

(* What the loop has found in the entries it has visited.                  *)
BestOfVisited ==
  \/ /\ bestTime = NoTime
     /\ \A i \in Others : managedFields[i].time = NoTime
  \/ /\ bestTime \in EntryTimes
     /\ \E i \in Others : /\ managedFields[i].time = bestTime
                          /\ bestName = shortName[managedFields[i].manager]
     /\ \A i \in Others : managedFields[i].time # NoTime =>
                            managedFields[i].time <= bestTime

FallbackOfVisited ==
  \/ /\ fallbackName = ""
     /\ \A i \in Others : managedFields[i].time # NoTime
  \/ /\ fallbackName # ""
     /\ \E i \in Others : /\ managedFields[i].time = NoTime
                          /\ fallbackName = shortName[managedFields[i].manager]

FieldsInv == FieldsTypeOK /\ BestOfVisited /\ FallbackOfVisited

-----------------------------------------------------------------------------
LEMMA EntryTimeType ==
  ASSUME FieldsTypeOK, NEW i \in 1 .. Len(managedFields)
  PROVE  managedFields[i].time \in EntryTimes \cup {NoTime}
<1>1. managedFields[i] \in Entries
  BY DEF FieldsTypeOK
<1> QED BY <1>1 DEF Entries

LEMMA FieldsWrittenInv ==
  ASSUME FieldsInv, FieldsWritten
  PROVE  FieldsInv'
<1>1. PICK mf \in Entries : managedFields' = Append(managedFields, mf)
  BY DEF FieldsWritten
<1>2. visited' = 0 /\ UNCHANGED found /\ Others = {} /\ Others' = {}
  BY DEF FieldsWritten, Others
<1>3. FieldsTypeOK'
  BY <1>1, <1>2 DEF FieldsInv, FieldsTypeOK
<1>4. BestOfVisited' /\ FallbackOfVisited'
  BY <1>2 DEF FieldsInv, BestOfVisited, FallbackOfVisited, found
<1> QED BY <1>3, <1>4 DEF FieldsInv

LEMMA VisitInv ==
  ASSUME FieldsInv, Visit
  PROVE  FieldsInv'
<1> DEFINE n  == visited + 1
           mf == managedFields[n]
<1>1. /\ visited \in Nat /\ n \in 1 .. Len(managedFields)
      /\ visited' = n /\ UNCHANGED managedFields
      /\ mf.time \in EntryTimes \cup {NoTime}
  <2>1. /\ visited \in Nat /\ n \in 1 .. Len(managedFields)
        /\ visited' = n /\ UNCHANGED managedFields
    BY DEF FieldsInv, FieldsTypeOK, Visit
  <2> QED BY <2>1, EntryTimeType DEF FieldsInv
<1>2. FieldsTypeOK'
  BY <1>1 DEF FieldsInv, FieldsTypeOK
<1>3. Others' = IF IsOther(mf) THEN Others \cup {n} ELSE Others
  <2>1. Others' = { i \in 1 .. n : IsOther(managedFields[i]) }
    BY <1>1 DEF Others, IsOther
  <2>2. 1 .. n = (1 .. visited) \cup {n}
    BY <1>1
  <2> HIDE DEF n
  <2> QED BY <2>1, <2>2 DEF Others
<1>4. CASE ~ IsOther(mf)
  <2>1. UNCHANGED found
    BY <1>4 DEF Visit
  <2>2. BestOfVisited' /\ FallbackOfVisited'
    BY <1>1, <1>3, <1>4, <2>1
       DEF FieldsInv, BestOfVisited, FallbackOfVisited, found
  <2> QED BY <1>2, <2>2 DEF FieldsInv
<1>5. CASE IsOther(mf)
  <2>0. shortName[mf.manager] # "" /\ Blame(mf)
    BY <1>5 DEF IsOther, Visit
  <2>1. Others' = Others \cup {n}
    BY <1>3, <1>5
  <2> HIDE DEF mf, n
  <2>2. CASE mf.time = NoTime
    <3>1. /\ UNCHANGED <<bestName, bestTime>>
          /\ fallbackName' = IF fallbackName = "" THEN shortName[mf.manager]
                                                  ELSE fallbackName
      BY <2>0, <2>2 DEF Blame
    <3>2. BestOfVisited'
      BY <1>1, <2>1, <2>2, <3>1 DEF FieldsInv, BestOfVisited, mf
    <3>3. FallbackOfVisited'
      BY <1>1, <2>0, <2>1, <2>2, <3>1 DEF FieldsInv, FallbackOfVisited, mf
    <3> QED BY <1>2, <3>2, <3>3 DEF FieldsInv
  <2>3. CASE mf.time # NoTime
    <3>1. mf.time \in EntryTimes /\ mf.time \in Int
      BY <1>1, <2>3, EntryTimesAssumption
    <3>2. UNCHANGED fallbackName
      BY <2>0, <2>3 DEF Blame
    <3>3. FallbackOfVisited'
      BY <1>1, <2>1, <2>3, <3>2 DEF FieldsInv, FallbackOfVisited, mf
    <3>4. \A i \in Others : \/ managedFields[i].time = NoTime
                            \/ managedFields[i].time \in Int
      <4>1. \A i \in Others : i \in 1 .. Len(managedFields)
        BY <1>1 DEF FieldsInv, FieldsTypeOK, Others
      <4> QED BY <4>1, EntryTimeType, EntryTimesAssumption DEF FieldsInv
    <3>5. CASE Later(mf.time)
      <4>1. bestName' = shortName[mf.manager] /\ bestTime' = mf.time
        BY <2>0, <2>3, <3>5 DEF Blame
      <4>2. ASSUME NEW i \in Others, managedFields[i].time # NoTime
            PROVE  managedFields[i].time <= mf.time
        <5>1. /\ bestTime \in Int /\ bestTime # NoTime
              /\ managedFields[i].time <= bestTime
              /\ managedFields[i].time \in Int
          BY <3>4, <4>2, EntryTimesAssumption DEF FieldsInv, BestOfVisited
        <5>2. mf.time > bestTime
          BY <3>5, <5>1 DEF Later
        <5> QED BY <3>1, <5>1, <5>2
      <4>3. \A i \in Others' : managedFields[i].time # NoTime =>
                                 managedFields[i].time <= mf.time
        <5>1. mf.time <= mf.time
          BY <3>1
        <5> QED BY <2>1, <4>2, <5>1 DEF mf
      <4>4. n \in Others' /\ managedFields[n] = mf
        BY <2>1 DEF mf
      <4>5. BestOfVisited'
        BY <1>1, <3>1, <4>1, <4>3, <4>4 DEF BestOfVisited
      <4> QED BY <1>2, <3>3, <4>5 DEF FieldsInv
    <3>6. CASE ~ Later(mf.time)
      <4>1. UNCHANGED <<bestName, bestTime>> /\ bestTime # NoTime
        BY <2>0, <2>3, <3>6 DEF Blame, Later
      <4>2. /\ bestTime \in EntryTimes /\ bestTime \in Int
            /\ \E i \in Others : /\ managedFields[i].time = bestTime
                                 /\ bestName = shortName[managedFields[i].manager]
            /\ \A i \in Others : managedFields[i].time # NoTime =>
                                   managedFields[i].time <= bestTime
        BY <4>1, EntryTimesAssumption DEF FieldsInv, BestOfVisited
      <4>3. mf.time <= bestTime
        BY <3>1, <3>6, <4>2 DEF Later
      <4>4. \A i \in Others' : managedFields[i].time # NoTime =>
                                 managedFields[i].time <= bestTime
        BY <2>1, <4>2, <4>3 DEF mf
      <4>5. BestOfVisited'
        BY <1>1, <2>1, <4>1, <4>2, <4>4 DEF BestOfVisited
      <4> QED BY <1>2, <3>3, <4>5 DEF FieldsInv
    <3> QED BY <3>5, <3>6
  <2> QED BY <2>2, <2>3
<1> QED BY <1>4, <1>5

(* A most recent other writer is blamed for drift, in whatever order the   *)
(* API server lists the entries and however many there are.                *)
THEOREM RightWriterBlamed == FieldsSpec => []MostRecentOtherBlamed
<1>1. ASSUME FieldsInit
      PROVE  FieldsInv
  <2>1. visited = 0 /\ managedFields = <<>>
    BY <1>1 DEF FieldsInit
  <2>2. FieldsTypeOK /\ Others = {}
    BY <2>1 DEF FieldsTypeOK, Others
  <2>3. BestOfVisited /\ FallbackOfVisited
    BY <1>1, <2>2 DEF FieldsInit, BestOfVisited, FallbackOfVisited
  <2> QED BY <2>2, <2>3 DEF FieldsInv
<1>2. ASSUME FieldsInv, [FieldsNext]_fieldsVars
      PROVE  FieldsInv'
  <2>1. CASE UNCHANGED fieldsVars
    BY <1>2, <2>1 DEF FieldsInv, FieldsTypeOK, BestOfVisited, FallbackOfVisited,
                      Others, fieldsVars, found
  <2> QED BY <1>2, <2>1, FieldsWrittenInv, VisitInv DEF FieldsNext
<1>3. ASSUME FieldsInv
      PROVE  MostRecentOtherBlamed
  <2> DEFINE latest == { i \in Others : \A j \in Others :
                      managedFields[j].time # NoTime =>
                        /\ managedFields[i].time # NoTime
                        /\ managedFields[j].time <= managedFields[i].time }
             blamed == extractConflictingFieldManager
             blame(i) == shortName[managedFields[i].manager]
  <2> SUFFICES ASSUME visited = Len(managedFields)
               PROVE  IF Others = {} THEN blamed = unknownFieldManager
                      ELSE blamed \in { blame(i) : i \in latest }
    <3>1. visited = Len(managedFields) =>
            { i \in DOMAIN managedFields : IsOther(managedFields[i]) } = Others
      BY <1>3 DEF FieldsInv, FieldsTypeOK, Others
    <3> QED BY <3>1 DEF MostRecentOtherBlamed
  <2>1. CASE bestTime # NoTime
    <3>1. PICK i \in Others : managedFields[i].time = bestTime /\ bestName = blame(i)
      BY <1>3, <2>1 DEF FieldsInv, BestOfVisited
    <3>2. i \in latest
      BY <1>3, <2>1, <3>1 DEF FieldsInv, BestOfVisited
    <3>3. blamed = blame(i)
      BY <2>1, <3>1 DEF extractConflictingFieldManager
    <3> QED BY <3>1, <3>2, <3>3
  <2>2. CASE bestTime = NoTime /\ fallbackName # ""
    <3>1. \A j \in Others : managedFields[j].time = NoTime
      BY <1>3, <2>2, EntryTimesAssumption DEF FieldsInv, BestOfVisited
    <3>2. PICK i \in Others : fallbackName = blame(i)
      BY <1>3, <2>2 DEF FieldsInv, FallbackOfVisited
    <3>3. i \in latest
      BY <3>1
    <3>4. blamed = blame(i)
      BY <2>2, <3>2 DEF extractConflictingFieldManager
    <3> QED BY <3>2, <3>3, <3>4
  <2>3. CASE bestTime = NoTime /\ fallbackName = ""
    <3>1. Others = {}
      BY <1>3, <2>3, EntryTimesAssumption
         DEF FieldsInv, BestOfVisited, FallbackOfVisited
    <3>2. blamed = unknownFieldManager
      BY <2>3 DEF extractConflictingFieldManager
    <3> QED BY <3>1, <3>2
  <2> QED BY <2>1, <2>2, <2>3
<1> QED BY <1>1, <1>2, <1>3, PTL DEF FieldsSpec
=============================================================================
