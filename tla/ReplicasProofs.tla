--------------------------- MODULE ReplicasProofs ---------------------------
(***************************************************************************)
(* Between two replicas no update is lost: whoever holds the lease and is  *)
(* at rest serves the union of the valid CRs.  Each replica keeps the      *)
(* invariant of ReplicaProofs, and both see the same API server.           *)
(***************************************************************************)
EXTENDS Replicas, ReplicaProofs

(* What ReplicaProofs says of a replica, said of the peer.                 *)
PeerP == INSTANCE ReplicaProofs WITH
  crHist <- peerCrHist, cmHist <- peerCmHist, up <- peerUp,
  queued <- peerQueued, hashCache <- peerHashCache, pc <- peerPc,
  drift <- peerDrift, seen <- peerSeen, body <- peerBody, fresh <- peerFresh,
  todo <- peerTodo, conflictHit <- peerConflictHit, boot <- peerBoot,
  bootHash <- peerBootHash

-----------------------------------------------------------------------------
(* Peer and PeerP instantiate the same definitions and name them apart;    *)
(* those of pure operators are also this replica's.                        *)

USE DEF Peer!LayeredBelow, PeerP!LayeredBelow, LayeredBelow

LEMMA SameSequences ==
  ASSUME NEW S
  PROVE  Peer!SetToSeq(S) = SetToSeq(S) /\ PeerP!SetToSeq(S) = SetToSeq(S)
BY DEF Peer!SetToSeq, PeerP!SetToSeq, SetToSeq, Peer!IsInjective,
       PeerP!IsInjective, IsInjective, Peer!Cardinality, PeerP!Cardinality,
       Cardinality

LEMMA SameMerged ==
  ASSUME NEW specs, NEW G
  PROVE  Peer!Merged(specs, G) = Merged(specs, G) /\ PeerP!Merged(specs, G) = Merged(specs, G)
<1>1. /\ Peer!SortGroup(specs, G) = SortGroup(specs, G)
      /\ PeerP!SortGroup(specs, G) = SortGroup(specs, G)
  BY SameSequences DEF Peer!SortGroup, PeerP!SortGroup, SortGroup,
     Peer!SetToSortSeq, PeerP!SetToSortSeq, SetToSortSeq
<1> QED
  BY <1>1 DEF Peer!Merged, PeerP!Merged, Merged, Peer!FoldLeft, PeerP!FoldLeft,
     FoldLeft, Peer!MapThenFoldSet, PeerP!MapThenFoldSet, MapThenFoldSet, Peer!Max,
     PeerP!Max, Max, Peer!DeepMerge, PeerP!DeepMerge, DeepMerge

LEMMA SameGroups ==
  /\ Peer!Tenants = Tenants /\ PeerP!Tenants = Tenants
  /\ \A specs, t : /\ Peer!GroupByTenant(specs, t) = GroupByTenant(specs, t)
                   /\ PeerP!GroupByTenant(specs, t) = GroupByTenant(specs, t)
BY DEF Peer!Tenants, PeerP!Tenants, Tenants, Peer!GroupByTenant,
       PeerP!GroupByTenant, GroupByTenant, Peer!ValidKeys, PeerP!ValidKeys,
       ValidKeys, Peer!Effective, PeerP!Effective, Effective, Peer!Validate,
       PeerP!Validate, Validate

LEMMA SameDesired ==
  ASSUME NEW specs
  PROVE  Peer!Desired(specs) = Desired(specs) /\ PeerP!Desired(specs) = Desired(specs)
BY SameMerged, SameGroups DEF Peer!Desired, PeerP!Desired, Desired, Peer!Render,
   PeerP!Render, Render, Peer!Output, PeerP!Output, Output, Peer!Validate,
   PeerP!Validate, Validate

LEMMA SamePanics ==
  ASSUME NEW specs
  PROVE  Peer!MergePanics(specs) <=> PeerP!MergePanics(specs)
<1>1. \A t : Peer!GroupPanics(specs, PeerP!GroupByTenant(specs, t))
                <=> PeerP!GroupPanics(specs, PeerP!GroupByTenant(specs, t))
  BY DEF Peer!GroupPanics, PeerP!GroupPanics
<1> QED BY <1>1, SameGroups DEF Peer!MergePanics, PeerP!MergePanics

LEMMA SameStatus ==
  ASSUME NEW crs, NEW k, NEW hash
  PROVE  Peer!computeDesiredStatus(crs, k, hash) = PeerP!computeDesiredStatus(crs, k, hash)
<1>1. Peer!computePeers(Peer!SpecsOf(crs), k) = PeerP!computePeers(Peer!SpecsOf(crs), k)
  BY SameGroups DEF Peer!computePeers, PeerP!computePeers, Peer!Effective, PeerP!Effective
<1> QED
  BY <1>1 DEF Peer!computeDesiredStatus, PeerP!computeDesiredStatus,
     Peer!Effective, PeerP!Effective, Peer!ValidKeys, PeerP!ValidKeys,
     Peer!Validate, PeerP!Validate, Peer!SpecsOf, PeerP!SpecsOf

USE DEF Peer!Cached, PeerP!Cached, Cached, Peer!Live, PeerP!Live, Live,
        Peer!Present, PeerP!Present, Present, Peer!SpecsOf, PeerP!SpecsOf, SpecsOf,
        Peer!Hash, PeerP!Hash, Peer!Push, PeerP!Push, Peer!Nothing, PeerP!Nothing,
        Peer!EndReconcile, PeerP!EndReconcile, Peer!FailReconcile,
        PeerP!FailReconcile, Peer!Exit, PeerP!Exit, Peer!bootVars, PeerP!bootVars,
        Peer!locals, PeerP!locals

LEMMA PeerGathers == Peer!Gather <=> PeerP!Gather
BY SameDesired, SamePanics DEF Peer!Gather, PeerP!Gather

LEMMA PeerUpdatesStatus ==
  ASSUME NEW k \in Keys
  PROVE  Peer!UpdateStatus(k) <=> PeerP!UpdateStatus(k)
BY SameStatus DEF Peer!UpdateStatus, PeerP!UpdateStatus, Peer!NeedsUpdate,
   PeerP!NeedsUpdate, Peer!WriteStatus, PeerP!WriteStatus, Peer!DesiredStatus,
   PeerP!DesiredStatus, Peer!WriteCR, PeerP!WriteCR

LEMMA PeerSteps ==
  /\ Peer!ReconcileStep <=> PeerP!ReconcileStep
  /\ Peer!DeliverCR <=> PeerP!DeliverCR
  /\ Peer!DeliverCM <=> PeerP!DeliverCM
  /\ Peer!BootStep <=> PeerP!BootStep
  /\ Peer!Crash <=> PeerP!Crash
  /\ Peer!Settled <=> PeerP!Settled
<1>1. Peer!CheckDrift <=> PeerP!CheckDrift
  BY DEF Peer!CheckDrift, PeerP!CheckDrift
<1>2. Peer!ApplyGet <=> PeerP!ApplyGet
  BY DEF Peer!ApplyGet, PeerP!ApplyGet, Peer!Applied, PeerP!Applied
<1>3. Peer!PatchCM <=> PeerP!PatchCM
  BY DEF Peer!PatchCM, PeerP!PatchCM, Peer!ServerSideApply, PeerP!ServerSideApply
<1>4. Peer!ReGet <=> PeerP!ReGet
  BY DEF Peer!ReGet, PeerP!ReGet, Peer!Applied, PeerP!Applied
<1>5. Peer!ReconcileDone <=> PeerP!ReconcileDone
  BY DEF Peer!ReconcileDone, PeerP!ReconcileDone
<1>6. Peer!ReconcileStep <=> PeerP!ReconcileStep
  BY <1>1, <1>2, <1>3, <1>4, <1>5, PeerGathers, PeerUpdatesStatus
     DEF Peer!ReconcileStep, PeerP!ReconcileStep
<1>7. Peer!DeliverCR <=> PeerP!DeliverCR
  BY DEF Peer!DeliverCR, PeerP!DeliverCR, Peer!GenerationChanged, PeerP!GenerationChanged
<1>8. Peer!DeliverCM <=> PeerP!DeliverCM
  BY DEF Peer!DeliverCM, PeerP!DeliverCM, Peer!outputCMPredicate, PeerP!outputCMPredicate
<1>9. Peer!BootStep <=> PeerP!BootStep
  <2>1. Peer!BootGet <=> PeerP!BootGet
    BY DEF Peer!BootGet, PeerP!BootGet
  <2>2. Peer!BootApplyGet <=> PeerP!BootApplyGet
    BY DEF Peer!BootApplyGet, PeerP!BootApplyGet, Peer!EmptyBody, PeerP!EmptyBody,
       Peer!Render, PeerP!Render
  <2>3. Peer!BootPatch <=> PeerP!BootPatch
    BY DEF Peer!BootPatch, PeerP!BootPatch, Peer!ServerSideApply,
       PeerP!ServerSideApply, Peer!EmptyBody, PeerP!EmptyBody, Peer!Render, PeerP!Render
  <2>4. Peer!BootReGet <=> PeerP!BootReGet
    BY DEF Peer!BootReGet, PeerP!BootReGet, Peer!EmptyBody, PeerP!EmptyBody,
       Peer!Render, PeerP!Render
  <2>5. Peer!BootSet <=> PeerP!BootSet
    BY DEF Peer!BootSet, PeerP!BootSet
  <2> QED BY <2>1, <2>2, <2>3, <2>4, <2>5 DEF Peer!BootStep, PeerP!BootStep
<1>10. Peer!Crash <=> PeerP!Crash
  BY DEF Peer!Crash, PeerP!Crash, Peer!Spend, PeerP!Spend
<1>11. Peer!Settled <=> PeerP!Settled
  BY DEF Peer!Settled, PeerP!Settled
<1> QED BY <1>6, <1>7, <1>8, <1>9, <1>10, <1>11

LEMMA SameData ==
  /\ PeerP!Snapshots = Snapshots
  /\ PeerP!ConfigMaps = ConfigMaps
  /\ PeerP!Disturbances = Disturbances
  /\ PeerP!OverrideMaps = OverrideMaps
  /\ PeerP!Bodies = Bodies
  /\ PeerP!CRs = CRs
<1>1. PeerP!Disturbances = Disturbances
  BY DEF PeerP!Disturbances, Disturbances
<1>2. PeerP!OverrideMaps = OverrideMaps
  BY DEF PeerP!OverrideMaps, OverrideMaps
<1>3. PeerP!Bodies = Bodies
  BY <1>2, SameGroups DEF PeerP!Bodies, Bodies, PeerP!Outputs, Outputs
<1>4. PeerP!Statuses = Statuses
  BY <1>3, SameGroups DEF PeerP!Statuses, Statuses
<1>5. PeerP!CRs = CRs
  BY <1>4 DEF PeerP!CRs, CRs
<1>6. PeerP!Snapshots = Snapshots
  BY <1>5 DEF PeerP!Snapshots, Snapshots
<1>7. PeerP!ConfigMaps = ConfigMaps
  BY <1>3 DEF PeerP!ConfigMaps, ConfigMaps
<1> QED BY <1>1, <1>2, <1>3, <1>5, <1>6, <1>7

(* What module Reconciler assumes of the constants, in PeerP's names.      *)
LEMMA PeerAssumptions ==
  /\ Keys \subseteq [ns : Nat \ {0}, name : Nat \ {0}]
  /\ Specs \subseteq [tenantId : Nat, weight : Int, overrides : PeerP!OverrideMaps]
  /\ ValidOverrides \subseteq PeerP!OverrideMaps
  /\ Absent \notin Specs
  /\ InitialSpecs \subseteq [Keys -> Specs \cup {Absent}]
  /\ InitialCMs \subseteq {Absent, NoKey} \cup Foreign
  /\ Limit \in [PeerP!Disturbances -> Nat]
  /\ Absent # NoKey
  /\ Absent \notin Foreign
  /\ Absent \notin PeerP!CRs
  /\ \A x \in {Absent, NoKey, NoBody} \cup Foreign : x \notin PeerP!Bodies
BY KeysAssumption, SpecsAssumption, ValidAssumption, AbsentAssumption,
   InitialAssumption, LimitAssumption, DistinctAssumption, SameData

LEMMA SameComparisons ==
  ASSUME NEW old, NEW new
  PROVE  /\ PeerP!Kept(old, new) <=> Kept(old, new)
         /\ PeerP!GenerationChanged(old, new) <=> GenerationChanged(old, new)
BY DEF PeerP!Kept, Kept, PeerP!Observed, Observed, PeerP!GenerationChanged,
       GenerationChanged

HIDE DEF Peer!LayeredBelow, PeerP!LayeredBelow, LayeredBelow, Peer!Cached,
         PeerP!Cached, Cached, Peer!Live, PeerP!Live, Live, Peer!Present,
         PeerP!Present, Present, Peer!SpecsOf, PeerP!SpecsOf, SpecsOf,
         Peer!Hash, PeerP!Hash, Peer!Push, PeerP!Push, Peer!Nothing,
         PeerP!Nothing, Peer!EndReconcile, PeerP!EndReconcile,
         Peer!FailReconcile, PeerP!FailReconcile, Peer!Exit, PeerP!Exit,
         Peer!bootVars, PeerP!bootVars, Peer!locals, PeerP!locals

LEMMA SameLive == \A hist : PeerP!Live(hist) = Live(hist)
BY DEF PeerP!Live, Live

-----------------------------------------------------------------------------
(* What holds of two replicas: each keeps its own invariant, as a leader   *)
(* or as a follower, and their histories end in one API server's state.    *)

Elected == leads \subseteq {"this", "peer"} /\ lease \in {"this", "peer"}

OneServer ==
  /\ Live(crHist) = Live(peerCrHist)
  /\ Live(cmHist) = Live(peerCmHist)

ThisInv == ReplicaInv("this" \in leads)

PeerInv == PeerP!ReplicaInv("peer" \in leads)

ReplicasInv == Elected /\ OneServer /\ ThisInv /\ PeerInv

(* The histories and the invariant's parts, whoever leads.                 *)
LEMMA ThisParts ==
  ASSUME ThisInv
  PROVE  /\ BaseInv /\ BodyFromSeen
         /\ "this" \in leads => LeaderInv
         /\ "this" \notin leads => FollowerInv
BY DEF ThisInv, ReplicaInv

LEMMA PeerParts ==
  ASSUME PeerInv
  PROVE  /\ PeerP!BaseInv /\ PeerP!BodyFromSeen
         /\ "peer" \in leads => PeerP!LeaderInv
         /\ "peer" \notin leads => PeerP!FollowerInv
BY DEF PeerInv, PeerP!ReplicaInv

LEMMA ThisWhole ==
  ASSUME BaseInv', BodyFromSeen',
         "this" \in leads' => LeaderInv',
         "this" \notin leads' => FollowerInv'
  PROVE  ThisInv'
BY DEF ThisInv, ReplicaInv

LEMMA PeerWhole ==
  ASSUME PeerP!BaseInv', PeerP!BodyFromSeen',
         "peer" \in leads' => PeerP!LeaderInv',
         "peer" \notin leads' => PeerP!FollowerInv'
  PROVE  PeerInv'
BY DEF PeerInv, PeerP!ReplicaInv

(* What a change of the API server is, one kind of object at a time: a     *)
(* status write, an edit that bears a wake-up, or a new ConfigMap.         *)
Changes(crs, newCrs, cm, newCm) ==
  /\ newCrs \in Snapshots /\ newCm \in ConfigMaps
  /\ \/ newCrs = crs
     \/ newCm = cm /\ (Kept(crs, newCrs) \/ GenerationChanged(crs, newCrs))

LEMMA ThisIsShown ==
  ASSUME ThisInv, OneServer, ShownToThis, used' \in [Disturbances -> Nat],
         Changes(Live(crHist), Live(peerCrHist'), Live(cmHist), Live(peerCmHist')),
         "this" \in leads' <=> "this" \in leads
  PROVE  ThisInv' /\ OneServer'
<1> DEFINE crs == Live(peerCrHist')
           cm == Live(peerCmHist')
<1>0. crs \in Snapshots /\ cm \in ConfigMaps
  BY DEF Changes
<1>1. /\ crHist' = IF crs = Live(crHist) THEN crHist
                   ELSE IF "this" \in leads THEN Append(crHist, crs) ELSE <<crs>>
      /\ cmHist' = IF cm = Live(cmHist) THEN cmHist
                   ELSE IF up THEN Append(cmHist, cm) ELSE <<cm>>
      /\ fresh' = fresh \ { k \in Keys : crs[k] # Live(crHist)[k] }
      /\ UNCHANGED own
  BY DEF ShownToThis, Shown, Touched, OneServer, thisOwn, own
<1>2. \/ crs = Live(crHist)
      \/ cm = Live(cmHist) /\ (Kept(Live(crHist), crs) \/ GenerationChanged(Live(crHist), crs))
  BY DEF Changes
<1>3. BaseInv /\ BodyFromSeen /\ crHist \in Seq(Snapshots) /\ crHist # <<>>
      /\ cmHist \in Seq(ConfigMaps) /\ cmHist # <<>>
  BY ThisParts DEF BaseInv, TypeOK
<1>4. OneServer'
  BY <1>0, <1>1, <1>3, AppendFacts, SingletonFacts DEF OneServer
<1> HIDE DEF crs, cm
<1>5. PICK leading \in BOOLEAN : leading <=> "this" \in leads
  OBVIOUS
<1>6. ReplicaInv(leading)
  BY <1>5 DEF ThisInv, ReplicaInv
<1>7. /\ BaseInv' /\ BodyFromSeen'
      /\ IF leading THEN LeaderInv' ELSE FollowerInv'
  <2>1. CASE crs = Live(crHist) /\ cm = Live(cmHist)
    <3>1. UNCHANGED <<crHist, cmHist, fresh, own>>
      BY <1>1, <2>1
    <3> QED BY <1>6, <3>1, NothingShown
  <2>2. CASE crs # Live(crHist)
    <3>1. /\ crHist' = IF leading THEN Append(crHist, crs) ELSE <<crs>>
          /\ UNCHANGED <<cmHist, own>>
      BY <1>1, <1>2, <1>5, <2>2
    <3> QED BY <1>0, <1>1, <1>2, <1>6, <2>2, <3>1, CRsShown
  <2>3. CASE crs = Live(crHist) /\ cm # Live(cmHist)
    <3>1. /\ cmHist' = IF up THEN Append(cmHist, cm) ELSE <<cm>>
          /\ UNCHANGED <<crHist, fresh, own>>
      BY <1>1, <2>3
    <3> QED BY <1>0, <1>6, <3>1, CMShown
  <2> QED BY <2>1, <2>2, <2>3
<1> QED BY <1>4, <1>5, <1>7, ThisWhole

LEMMA PeerIsShown ==
  ASSUME PeerInv, OneServer, ShownToPeer, used' \in [Disturbances -> Nat],
         Changes(Live(peerCrHist), Live(crHist'), Live(peerCmHist), Live(cmHist')),
         "peer" \in leads' <=> "peer" \in leads
  PROVE  PeerInv' /\ OneServer'
<1> DEFINE crs == Live(crHist')
           cm == Live(cmHist')
<1>0. crs \in Snapshots /\ cm \in ConfigMaps
  BY DEF Changes
<1>1. /\ peerCrHist' = IF crs = Live(peerCrHist) THEN peerCrHist
                   ELSE IF "peer" \in leads THEN Append(peerCrHist, crs) ELSE <<crs>>
      /\ peerCmHist' = IF cm = Live(peerCmHist) THEN peerCmHist
                   ELSE IF peerUp THEN Append(peerCmHist, cm) ELSE <<cm>>
      /\ peerFresh' = peerFresh \ { k \in Keys : crs[k] # Live(peerCrHist)[k] }
      /\ UNCHANGED PeerP!own
  BY DEF ShownToPeer, Shown, Touched, OneServer, peerOwn, PeerP!own, PeerP!bootVars
<1>2. \/ crs = Live(peerCrHist)
      \/ /\ cm = Live(peerCmHist)
         /\ Kept(Live(peerCrHist), crs) \/ GenerationChanged(Live(peerCrHist), crs)
  BY DEF Changes
<1>3. /\ peerCrHist \in Seq(Snapshots) /\ peerCrHist # <<>>
      /\ peerCmHist \in Seq(ConfigMaps) /\ peerCmHist # <<>>
  BY PeerParts, SameData DEF PeerP!BaseInv, PeerP!TypeOK
<1>4. OneServer'
  BY <1>0, <1>1, <1>3, AppendFacts, SingletonFacts DEF OneServer
<1> HIDE DEF crs, cm
<1>5. PICK leading \in BOOLEAN : leading <=> "peer" \in leads
  OBVIOUS
<1>6. PeerP!ReplicaInv(leading)
  BY <1>5 DEF PeerInv, PeerP!ReplicaInv
<1>7. /\ PeerP!BaseInv' /\ PeerP!BodyFromSeen'
      /\ IF leading THEN PeerP!LeaderInv' ELSE PeerP!FollowerInv'
  <2>1. CASE crs = Live(peerCrHist) /\ cm = Live(peerCmHist)
    <3>1. UNCHANGED <<peerCrHist, peerCmHist, peerFresh, PeerP!own>>
      BY <1>1, <2>1
    <3> QED BY <1>6, <3>1, PeerAssumptions, SameData, PeerP!NothingShown
  <2>2. CASE crs # Live(peerCrHist)
    <3>1. /\ peerCrHist' = IF leading THEN Append(peerCrHist, crs) ELSE <<crs>>
          /\ UNCHANGED <<peerCmHist, PeerP!own>>
      BY <1>1, <1>2, <1>5, <2>2
    <3> QED BY <1>0, <1>1, <1>2, <1>6, <2>2, <3>1, PeerAssumptions, SameData, SameLive,
           SameComparisons, PeerP!CRsShown
  <2>3. CASE crs = Live(peerCrHist) /\ cm # Live(peerCmHist)
    <3>1. /\ peerCmHist' = IF peerUp THEN Append(peerCmHist, cm) ELSE <<cm>>
          /\ UNCHANGED <<peerCrHist, peerFresh, PeerP!own>>
      BY <1>1, <2>3
    <3> QED BY <1>0, <1>6, <3>1, PeerAssumptions, SameData, PeerP!CMShown
  <2> QED BY <2>1, <2>2, <2>3
<1> QED BY <1>4, <1>5, <1>7, PeerWhole

-----------------------------------------------------------------------------
(* The replicas' steps.                                                    *)

LEMMA ThisWorks ==
  ASSUME ReplicasInv, OwnStep, "this" \in leads \/ BootStep, ShownToPeer,
         leads' = IF up' THEN leads ELSE leads \ {"this"}, UNCHANGED lease
  PROVE  ReplicasInv'
<1>1. PICK leading \in BOOLEAN, leads1 \in BOOLEAN :
        /\ leading <=> "this" \in leads
        /\ leads1 <=> "this" \in leads'
  OBVIOUS
<1>2. ReplicaInv(leading)
  BY <1>1 DEF ReplicasInv, ThisInv, ReplicaInv
<1>3. leads1 <=> leading /\ up'
  BY <1>1
<1>4. ThisInv'
  BY <1>1, <1>2, <1>3, ReplicaWorks, ThisWhole
<1>5. PeerInv' /\ OneServer'
  <2>1. /\ Changes(Live(peerCrHist), Live(crHist'), Live(peerCmHist), Live(cmHist'))
        /\ used' \in [Disturbances -> Nat]
    BY ThisParts, OwnShows DEF ReplicasInv, OneServer, Changes
  <2> QED BY <2>1, PeerIsShown DEF ReplicasInv
<1>6. Elected'
  BY DEF ReplicasInv, Elected
<1> QED BY <1>4, <1>5, <1>6 DEF ReplicasInv

LEMMA PeerWorks ==
  ASSUME ReplicasInv, PeerP!OwnStep, "peer" \in leads \/ PeerP!BootStep, ShownToThis,
         leads' = IF peerUp' THEN leads ELSE leads \ {"peer"}, UNCHANGED lease
  PROVE  ReplicasInv'
<1>1. PICK leading \in BOOLEAN, leads1 \in BOOLEAN :
        /\ leading <=> "peer" \in leads
        /\ leads1 <=> "peer" \in leads'
  OBVIOUS
<1>2. PeerP!ReplicaInv(leading)
  BY <1>1 DEF ReplicasInv, PeerInv, PeerP!ReplicaInv
<1>3. leads1 <=> leading /\ peerUp'
  BY <1>1
<1>4. PeerInv'
  BY <1>1, <1>2, <1>3, PeerAssumptions, PeerP!ReplicaWorks, PeerWhole
<1>5. ThisInv' /\ OneServer'
  <2>1. /\ Changes(Live(crHist), Live(peerCrHist'), Live(cmHist), Live(peerCmHist'))
        /\ used' \in [Disturbances -> Nat]
    BY PeerParts, PeerAssumptions, SameData, SameLive, SameComparisons, PeerP!OwnShows
       DEF ReplicasInv, OneServer, Changes
  <2> QED BY <2>1, ThisIsShown DEF ReplicasInv
<1>6. Elected'
  BY DEF ReplicasInv, Elected
<1> QED BY <1>4, <1>5, <1>6 DEF ReplicasInv

LEMMA ThisControls ==
  ASSUME ReplicasInv, ThisReconciles \/ ThisWatches
  PROVE  ReplicasInv'
<1>1. /\ "this" \in leads /\ ShownToPeer /\ UNCHANGED <<leads, lease>>
      /\ ReconcileStep \/ DeliverCR \/ DeliverCM
  BY DEF ThisReconciles, ThisWatches, election
<1>2. UNCHANGED up /\ up
  BY <1>1, ControllersStay, ThisParts DEF ReplicasInv, LeaderInv
<1> QED BY <1>1, <1>2, ThisWorks DEF OwnStep

LEMMA PeerControls ==
  ASSUME ReplicasInv, PeerReconciles \/ PeerWatches
  PROVE  ReplicasInv'
<1>1. /\ "peer" \in leads /\ ShownToThis /\ UNCHANGED <<leads, lease>>
      /\ PeerP!ReconcileStep \/ PeerP!DeliverCR \/ PeerP!DeliverCM
  BY PeerSteps DEF PeerReconciles, PeerWatches, election
<1>2. UNCHANGED peerUp /\ peerUp
  BY <1>1, PeerAssumptions, PeerP!ControllersStay, PeerParts
     DEF ReplicasInv, PeerP!LeaderInv
<1> QED BY <1>1, <1>2, PeerWorks DEF PeerP!OwnStep

LEMMA Bootstraps ==
  ASSUME ReplicasInv, ThisBootstraps \/ PeerBootstraps
  PROVE  ReplicasInv'
<1>1. CASE ThisBootstraps
  BY <1>1, ThisWorks DEF ThisBootstraps, OwnStep
<1>2. CASE PeerBootstraps
  BY <1>2, PeerSteps, PeerWorks DEF PeerBootstraps, PeerP!OwnStep
<1> QED BY <1>1, <1>2

(* A step that a replica takes no part in.                                 *)
LEMMA ThisUntouched ==
  ASSUME ThisInv, UNCHANGED thisVars, used' \in [Disturbances -> Nat],
         "this" \in leads' <=> "this" \in leads
  PROVE  ThisInv'
<1>1. PICK leading \in BOOLEAN : leading <=> "this" \in leads
  OBVIOUS
<1>2. ReplicaInv(leading)
  BY <1>1 DEF ThisInv, ReplicaInv
<1>3. UNCHANGED <<crHist, cmHist, fresh, own>>
  BY DEF thisVars, process, locals, bootVars, own
<1> QED BY <1>1, <1>2, <1>3, NothingShown, ThisWhole

LEMMA PeerUntouched ==
  ASSUME PeerInv, UNCHANGED peerVars, used' \in [Disturbances -> Nat],
         "peer" \in leads' <=> "peer" \in leads
  PROVE  PeerInv'
<1>1. PICK leading \in BOOLEAN : leading <=> "peer" \in leads
  OBVIOUS
<1>2. PeerP!ReplicaInv(leading)
  BY <1>1 DEF PeerInv, PeerP!ReplicaInv
<1>3. UNCHANGED <<peerCrHist, peerCmHist, peerFresh, PeerP!own>>
  BY DEF peerVars, peerOwn, PeerP!own, PeerP!bootVars
<1> QED BY <1>1, <1>2, <1>3, SameData, PeerAssumptions, PeerP!NothingShown, PeerWhole

LEMMA UsedType ==
  ASSUME ReplicasInv
  PROVE  /\ used \in [Disturbances -> Nat]
         /\ \A kind \in Disturbances : Spend(kind) => used' \in [Disturbances -> Nat]
BY ThisParts, SpendType DEF ReplicasInv, BaseInv, TypeOK

LEMMA LeaseTaken ==
  ASSUME ReplicasInv, ThisTakesLease \/ PeerTakesLease
  PROVE  ReplicasInv'
<1>1. CASE ThisTakesLease
  <2> USE <1>1 DEF ThisTakesLease
  <2>1. ReplicaInv(FALSE)
    BY DEF ReplicasInv, ThisInv, ReplicaInv
  <2>3. BaseInv' /\ BodyFromSeen' /\ LeaderInv'
    BY <2>1, UsedType, LeaderStarts DEF StartQueue
  <2>4. PeerInv'
    BY UsedType, PeerUntouched DEF ReplicasInv
  <2>5. OneServer'
    BY ThisParts, TypeFacts, SingletonFacts DEF ReplicasInv, OneServer, BaseInv, peerVars
  <2>6. Elected' /\ "this" \in leads'
    BY DEF ReplicasInv, Elected
  <2> QED BY <2>3, <2>4, <2>5, <2>6, ThisWhole DEF ReplicasInv
<1>2. CASE PeerTakesLease
  <2> USE <1>2 DEF PeerTakesLease
  <2>1. PeerP!ReplicaInv(FALSE)
    BY DEF ReplicasInv, PeerInv, PeerP!ReplicaInv
  <2>2. used' \in [Disturbances -> Nat]
    BY UsedType DEF LeaseLost, Disturbances
  <2>3. PeerP!BaseInv' /\ PeerP!BodyFromSeen' /\ PeerP!LeaderInv'
    <3>1. /\ peerCrHist' = <<PeerP!Live(peerCrHist)>>
          /\ peerQueued' = (\/ PeerP!Present(PeerP!Live(peerCrHist)) # {}
                            \/ PeerP!Cached(peerCmHist) # Absent)
          /\ UNCHANGED <<peerCmHist, peerUp, peerHashCache, PeerP!locals, PeerP!bootVars>>
      BY SameLive DEF StartQueue, PeerP!Present, Present, PeerP!Cached, Cached,
         PeerP!locals, PeerP!bootVars
    <3> QED BY <2>1, <2>2, <3>1, SameData, PeerAssumptions, PeerP!LeaderStarts
  <2>4. ThisInv'
    BY <2>2, ThisUntouched DEF ReplicasInv
  <2>5. OneServer'
    BY ThisParts, TypeFacts, SingletonFacts DEF ReplicasInv, OneServer, BaseInv, thisVars
  <2>6. Elected' /\ "peer" \in leads'
    BY DEF ReplicasInv, Elected
  <2> QED BY <2>3, <2>4, <2>5, <2>6, PeerWhole DEF ReplicasInv
<1> QED BY <1>1, <1>2

LEMMA Follows ==
  ASSUME ReplicasInv, ThisFollows \/ PeerFollows
  PROVE  ReplicasInv'
<1>0. Elected' /\ UNCHANGED <<leads, used>>
  BY DEF ReplicasInv, Elected, ThisFollows, PeerFollows, election
<1>1. CASE ThisFollows
  <2> USE <1>1 DEF ThisFollows
  <2>1. ReplicaInv(FALSE) /\ "this" \notin leads'
    BY <1>0 DEF ReplicasInv, ThisInv, ReplicaInv
  <2>2. BaseInv' /\ BodyFromSeen' /\ FollowerInv' /\ Live(cmHist') = Live(cmHist)
    BY <2>1, FollowerWatches
  <2>3. PeerInv'
    BY <1>0, UsedType, PeerUntouched DEF ReplicasInv
  <2> QED BY <1>0, <2>1, <2>2, <2>3, ThisWhole DEF ReplicasInv, OneServer, peerVars
<1>2. CASE PeerFollows
  <2> USE <1>2 DEF PeerFollows
  <2>1. PeerP!ReplicaInv(FALSE) /\ "peer" \notin leads'
    BY <1>0 DEF ReplicasInv, PeerInv, PeerP!ReplicaInv
  <2>2. UNCHANGED <<peerCrHist, PeerP!process, used>>
    BY DEF PeerP!process, PeerP!locals, PeerP!bootVars, peerOwn
  <2>3. /\ PeerP!BaseInv' /\ PeerP!BodyFromSeen' /\ PeerP!FollowerInv'
        /\ Live(peerCmHist') = Live(peerCmHist)
    BY <2>1, <2>2, SameLive, PeerAssumptions, PeerP!FollowerWatches
  <2>4. ThisInv'
    BY <1>0, UsedType, ThisUntouched DEF ReplicasInv
  <2> QED BY <1>0, <2>1, <2>3, <2>4, PeerWhole DEF ReplicasInv, OneServer, thisVars
<1> QED BY <1>1, <1>2

LEMMA Starts ==
  ASSUME ReplicasInv, ThisStarts \/ PeerStarts
  PROVE  ReplicasInv'
<1>0. Elected' /\ UNCHANGED <<leads, used>>
  BY DEF ReplicasInv, Elected, ThisStarts, PeerStarts, election
<1>1. CASE ThisStarts
  <2> USE <1>1 DEF ThisStarts
  <2>1. ReplicaInv(FALSE) /\ "this" \notin leads'
    BY <1>0 DEF ReplicasInv, ThisInv, ReplicaInv, LeaderInv
  <2>2. BaseInv' /\ BodyFromSeen' /\ FollowerInv'
    BY <2>1, FollowerStarts
  <2>3. PeerInv'
    BY <1>0, UsedType, PeerUntouched DEF ReplicasInv
  <2> QED BY <1>0, <2>1, <2>2, <2>3, ThisWhole DEF ReplicasInv, OneServer, peerVars
<1>2. CASE PeerStarts
  <2> USE <1>2 DEF PeerStarts
  <2>1. PeerP!ReplicaInv(FALSE) /\ "peer" \notin leads'
    BY <1>0 DEF ReplicasInv, PeerInv, PeerP!ReplicaInv, PeerP!LeaderInv
  <2>2. UNCHANGED <<peerCrHist, peerCmHist, peerQueued, peerHashCache, PeerP!locals,
                    PeerP!bootVars, used>>
    BY DEF PeerP!locals, PeerP!bootVars
  <2>3. PeerP!BaseInv' /\ PeerP!BodyFromSeen' /\ PeerP!FollowerInv'
    BY <2>1, <2>2, PeerAssumptions, PeerP!FollowerStarts
  <2>4. ThisInv'
    BY <1>0, UsedType, ThisUntouched DEF ReplicasInv
  <2> QED BY <1>0, <2>1, <2>3, <2>4, PeerWhole DEF ReplicasInv, OneServer, thisVars
<1> QED BY <1>1, <1>2

LEMMA Ends ==
  ASSUME ReplicasInv, ThisStepsDown \/ ThisCrashes \/ PeerCrashes
  PROVE  ReplicasInv'
<1>0. Elected'
  BY DEF ReplicasInv, Elected, ThisStepsDown, ThisCrashes, PeerCrashes
<1>1. CASE ThisStepsDown \/ ThisCrashes
  <2>1. /\ Exit /\ leads' = leads \ {"this"}
        /\ UNCHANGED peerVars /\ used' \in [Disturbances -> Nat]
    BY <1>1, UsedType DEF ThisStepsDown, ThisCrashes, Crash, Disturbances
  <2>2. /\ BaseInv' /\ BodyFromSeen' /\ FollowerInv'
        /\ Live(crHist') = Live(crHist) /\ Live(cmHist') = Live(cmHist)
    BY <2>1, ThisParts, ReplicaEnds DEF ReplicasInv
  <2>3. PeerInv'
    BY <2>1, PeerUntouched DEF ReplicasInv
  <2> QED BY <1>0, <2>1, <2>2, <2>3, ThisWhole DEF ReplicasInv, OneServer, peerVars
<1>2. CASE PeerCrashes
  <2>1. /\ PeerP!Exit /\ leads' = leads \ {"peer"}
        /\ UNCHANGED thisVars /\ used' \in [Disturbances -> Nat]
    <3>1. Peer!Spend("crash") <=> Spend("crash")
      BY DEF Peer!Spend, Spend
    <3>2. PeerP!Spend("crash") <=> Spend("crash")
      BY DEF PeerP!Spend, Spend
    <3>3. PeerP!Crash /\ leads' = leads \ {"peer"} /\ UNCHANGED thisVars
      BY <1>2, PeerSteps DEF PeerCrashes
    <3> QED BY <3>2, <3>3, UsedType DEF PeerP!Crash, Disturbances
  <2>2. /\ PeerP!BaseInv' /\ PeerP!BodyFromSeen' /\ PeerP!FollowerInv'
        /\ Live(peerCrHist') = Live(peerCrHist) /\ Live(peerCmHist') = Live(peerCmHist)
    BY <2>1, PeerParts, SameLive, SameData, PeerAssumptions, PeerP!ReplicaEnds
       DEF ReplicasInv
  <2>3. ThisInv'
    BY <2>1, ThisUntouched DEF ReplicasInv
  <2> QED BY <1>0, <2>1, <2>2, <2>3, PeerWhole DEF ReplicasInv, OneServer, thisVars
<1> QED BY <1>1, <1>2

LEMMA EditedCRs ==
  ASSUME ReplicasInv, CRsEdited
  PROVE  ReplicasInv'
<1>0. /\ UserEdit /\ ShownToPeer /\ UNCHANGED <<leads, lease>>
      /\ BaseInv /\ BodyFromSeen /\ Elected'
  BY ThisParts DEF CRsEdited, election, ReplicasInv, Elected
<1>1. BaseInv' /\ BodyFromSeen'
  BY <1>0, BaseNext, BodyFromSeenStep DEF Next
<1>2. PICK x \in Snapshots : /\ crHist' = Push(crHist, x)
                             /\ GenerationChanged(Live(crHist), x)
  BY <1>0, EditWakes
<1>3. Live(crHist') = x /\ UNCHANGED cmHist
  BY <1>0, <1>2, PushFacts DEF BaseInv, TypeOK, UserEdit
<1>4. PeerInv' /\ OneServer'
  <2>1. Live(cmHist) \in ConfigMaps /\ used' \in [Disturbances -> Nat]
    BY <1>0, <1>1, TypeFacts DEF BaseInv, TypeOK
  <2>2. Changes(Live(peerCrHist), Live(crHist'), Live(peerCmHist), Live(cmHist'))
    BY <1>2, <1>3, <2>1 DEF Changes, ReplicasInv, OneServer
  <2> QED BY <1>0, <2>1, <2>2, PeerIsShown DEF ReplicasInv
<1>5. CASE "this" \in leads
  <2>1. LeaderInv'
    BY <1>0, <1>2, <1>5, ThisParts, LeaderEdited DEF ReplicasInv
  <2> QED BY <1>0, <1>1, <1>4, <1>5, <2>1, ThisWhole DEF ReplicasInv
<1>6. CASE "this" \notin leads
  <2>1. FollowerInv'
    BY <1>0, <1>6, ThisParts DEF ReplicasInv, FollowerInv, UserEdit
  <2> QED BY <1>0, <1>1, <1>4, <1>6, <2>1, ThisWhole DEF ReplicasInv
<1> QED BY <1>5, <1>6

LEMMA DeletedConfigMap ==
  ASSUME ReplicasInv, ConfigMapDeleted
  PROVE  ReplicasInv'
<1>0. /\ cmHist' = Push(cmHist, Absent) /\ UNCHANGED <<crHist, fresh, own>>
      /\ ShownToPeer /\ UNCHANGED <<leads, lease>>
      /\ BaseInv /\ Elected' /\ Absent \in ConfigMaps
      /\ used' \in [Disturbances -> Nat]
  BY ThisParts, UsedType DEF ConfigMapDeleted, election, ReplicasInv, Elected,
     process, locals, bootVars, own, ConfigMaps, Disturbances
<1>1. PICK leading \in BOOLEAN : leading <=> "this" \in leads
  OBVIOUS
<1>2. ReplicaInv(leading)
  BY <1>1 DEF ReplicasInv, ThisInv, ReplicaInv
<1>3. ThisInv'
  BY <1>0, <1>1, <1>2, CMShown, ThisWhole DEF Push
<1>4. Live(cmHist') = Absent /\ Live(crHist') = Live(crHist) /\ Live(crHist) \in Snapshots
  <2>1. cmHist \in Seq(ConfigMaps) /\ cmHist # <<>> /\ Live(crHist) \in Snapshots
    BY <1>0, TypeFacts DEF BaseInv, TypeOK
  <2>2. Live(cmHist') = Absent
    BY <1>0, <2>1, PushFacts
  <2> QED BY <1>0, <2>1, <2>2
<1>5. PeerInv' /\ OneServer'
  <2>1. Changes(Live(peerCrHist), Live(crHist'), Live(peerCmHist), Live(cmHist'))
    BY <1>0, <1>4 DEF Changes, ReplicasInv, OneServer
  <2> QED BY <1>0, <2>1, PeerIsShown DEF ReplicasInv
<1> QED BY <1>0, <1>3, <1>5 DEF ReplicasInv

-----------------------------------------------------------------------------
LEMMA SettledCRsType ==
  ASSUME NEW specs \in InitialSpecs
  PROVE  /\ SettledCRs(specs) \in Snapshots
         /\ SpecsOf(SettledCRs(specs)) = specs
<1> DEFINE new == [k \in Keys |-> IF specs[k] = Absent THEN Absent
                                                      ELSE NewCR(specs[k])]
           hash == Hash(Desired(specs))
           cr(k) == [new[k] EXCEPT !.status = computeDesiredStatus(new, k, hash)]
<1>0. /\ specs \in [Keys -> Specs \cup {Absent}]
      /\ Desired(specs) \in Bodies
  BY InitialAssumption, DesiredType
<1>1. new \in Snapshots
  BY <1>0, NewCRType DEF Snapshots
<1>2. ASSUME NEW k \in Keys, specs[k] # Absent
      PROVE  cr(k) \in CRs /\ cr(k) # Absent /\ cr(k).spec = specs[k]
  <2>1. new[k] = NewCR(specs[k]) /\ new[k] \in CRs /\ new[k] # Absent
    BY <1>0, <1>2, NewCRType, DistinctAssumption
  <2>2. computeDesiredStatus(new, k, hash) \in Statuses
    BY <1>0, <1>1, <2>1, StatusType
  <2>3. cr(k) \in CRs /\ cr(k).spec = new[k].spec
    BY <2>1, <2>2 DEF CRs
  <2> QED BY <2>1, <2>3, DistinctAssumption DEF NewCR
<1>3. SettledCRs(specs) = [k \in Keys |-> IF specs[k] = Absent THEN Absent ELSE cr(k)]
  BY DEF SettledCRs
<1> HIDE DEF new, hash, cr
<1>4. SettledCRs(specs) \in Snapshots
  BY <1>2, <1>3 DEF Snapshots
<1>5. SpecsOf(SettledCRs(specs)) = specs
  BY <1>0, <1>2, <1>3 DEF SpecsOf
<1> QED BY <1>4, <1>5

LEMMA BothInit == ReplicasInit => ReplicasInv
<1> SUFFICES ASSUME ReplicasInit PROVE ReplicasInv
  OBVIOUS
<1> USE DEF ReplicasInit
<1>1. PICK specs \in InitialSpecs : /\ crHist = <<SettledCRs(specs)>>
                                    /\ cmHist = <<Desired(specs)>>
                                    /\ hashCache = Hash(Desired(specs))
  OBVIOUS
<1>2. /\ SettledCRs(specs) \in Snapshots /\ SpecsOf(SettledCRs(specs)) = specs
      /\ Desired(specs) \in Bodies /\ Desired(specs) \in ConfigMaps \ {Absent}
      /\ Hash(Desired(specs)) \in Hashes
  BY SettledCRsType, DesiredType, DistinctAssumption DEF ConfigMaps, Hashes, Hash
<1>3. /\ crHist \in Seq(Snapshots) /\ crHist # <<>> /\ Live(crHist) = SettledCRs(specs)
      /\ cmHist \in Seq(ConfigMaps) /\ cmHist # <<>> /\ Live(cmHist) = Desired(specs)
      /\ Cached(cmHist) = Desired(specs)
      /\ Len(crHist) = 1 /\ Len(cmHist) = 1
  BY <1>1, <1>2, SingletonFacts
<1>4. Nothing \in Snapshots
  BY DEF Nothing, Snapshots
<1>5. BaseInv
  <2>1. TypeOK
    BY <1>1, <1>2, <1>3, <1>4 DEF TypeOK, Disturbances, Hashes
  <2>2. PhaseInv /\ FreshInv
    BY DEF PhaseInv, PastGather, FreshInv
  <2> QED BY <2>1, <2>2 DEF BaseInv
<1>6. LeaderInv
  <2>1. ChangesWake
    <3>1. DOMAIN crHist = {1} /\ crHist[1] = Live(crHist)
      BY <1>1, <1>3 DEF Live
    <3> QED BY <3>1, KeptReflexive DEF ChangesWake
  <2>2. Converged
    BY <1>2, <1>3 DEF Converged
  <2> QED
    BY <1>2, <1>3, <2>1, <2>2 DEF LeaderInv, OutputInHand, SeenCurrent, WrittenBody,
       IdleConverged, LeaderAwaits, PastGather
<1>7. ThisInv
  BY <1>5, <1>6 DEF ThisInv, ReplicaInv, BodyFromSeen, PastGather
<1>8. PeerInv
  <2>1. PeerP!TypeOK
    <3>1. NoHash \in PeerP!Hashes /\ peerSeen \in PeerP!Snapshots
      BY <1>4, SameData DEF PeerP!Hashes
    <3> QED BY <1>3, <3>1, SameData DEF PeerP!TypeOK, Disturbances
  <2>2. PeerP!PhaseInv /\ PeerP!FreshInv /\ PeerP!BodyFromSeen /\ PeerP!FollowerInv
    BY <1>3 DEF PeerP!PhaseInv, PeerP!PastGather, PeerP!FreshInv, PeerP!BodyFromSeen,
       PeerP!FollowerInv
  <2> QED BY <2>1, <2>2 DEF PeerInv, PeerP!ReplicaInv, PeerP!BaseInv
<1> QED BY <1>7, <1>8 DEF ReplicasInv, Elected, OneServer

LEMMA BothNext == ReplicasInv /\ [ReplicasNext]_replicaVars => ReplicasInv'
<1> SUFFICES ASSUME ReplicasInv, [ReplicasNext]_replicaVars
             PROVE  ReplicasInv'
  OBVIOUS
<1>1. CASE ThisStep
  BY <1>1, ThisControls, Follows, Bootstraps, LeaseTaken, Ends, Starts DEF ThisStep
<1>2. CASE PeerStep
  BY <1>2, PeerControls, Follows, Bootstraps, LeaseTaken, Starts DEF PeerStep
<1>3. CASE ThisCrashes \/ PeerCrashes
  BY <1>3, Ends
<1>4. CASE CRsEdited \/ ConfigMapDeleted
  BY <1>4, EditedCRs, DeletedConfigMap
<1>5. CASE UNCHANGED replicaVars
  <2>1. /\ UNCHANGED thisVars /\ UNCHANGED peerVars
        /\ UNCHANGED <<leads, lease, used>>
    BY <1>5 DEF replicaVars, election
  <2>2. ThisInv' /\ PeerInv'
    BY <2>1, UsedType, ThisUntouched, PeerUntouched DEF ReplicasInv
  <2> QED BY <2>1, <2>2 DEF ReplicasInv, Elected, OneServer, thisVars, peerVars
<1> QED BY <1>1, <1>2, <1>3, <1>4, <1>5 DEF ReplicasNext

(* Each replica's own invariant holds beside the other's, and both look at *)
(* one API server, through crashes, hand-overs and deposed leaders.        *)
THEOREM BothInvariant == ReplicasSpec => []ReplicasInv
BY BothInit, BothNext, PTL DEF ReplicasSpec

(* Two replicas never lose an update between them, however often the lease *)
(* changes hands, a deposed leader goes on writing, a replica dies or a    *)
(* follower's bootstrap writes.                                            *)
THEOREM NoUpdateLostBetween == ReplicasSpec => []LeaderServes
<1>1. ASSUME ReplicasInv
      PROVE  LeaderServes
  <2> SUFFICES ASSUME lease \in leads, LeaderAtRest
               PROVE  Converged \/ NothingToServe
    BY DEF LeaderServes
  <2>1. CASE lease = "this"
    BY <1>1, <2>1, ThisParts, LeaderSettled
       DEF LeaderAtRest, ReplicasInv, NothingToServe
  <2>2. CASE lease # "this"
    <3>1. "peer" \in leads /\ PeerP!Settled
      BY <1>1, <2>2, PeerSteps DEF ReplicasInv, Elected, LeaderAtRest
    <3>2. \/ PeerP!Converged
          \/ /\ PeerP!Live(peerCmHist) = Absent
             /\ PeerP!Present(PeerP!Live(peerCrHist)) = {}
      BY <1>1, <3>1, PeerParts, PeerAssumptions, PeerP!LeaderSettled DEF ReplicasInv
    <3>3. PeerP!Converged => Converged
      BY <1>1, SameLive, SameDesired DEF PeerP!Converged, Converged, PeerP!SpecsOf,
         SpecsOf, ReplicasInv, OneServer
    <3> QED
      BY <1>1, <3>2, <3>3, SameLive DEF ReplicasInv, OneServer, NothingToServe,
         PeerP!Present, Present
  <2> QED BY <2>1, <2>2
<1> QED BY <1>1, BothInvariant, PTL

-----------------------------------------------------------------------------
(* What is in the API server, whichever replica wrote it.                  *)

LEMMA SameClaims ==
  OneServer => /\ PeerP!OutputSafe <=> OutputSafe
               /\ PeerP!StatusTruthful <=> StatusTruthful
<1> SUFFICES ASSUME OneServer
             PROVE  /\ PeerP!OutputSafe <=> OutputSafe
                    /\ PeerP!StatusTruthful <=> StatusTruthful
  OBVIOUS
<1>1. PeerP!OutputSafe <=> OutputSafe
  BY SameData, SameLive DEF OneServer, PeerP!OutputSafe, OutputSafe, PeerP!Validate, Validate
<1>2. PeerP!StatusTruthful <=> StatusTruthful
  BY SameLive DEF OneServer, PeerP!StatusTruthful, StatusTruthful, PeerP!Present,
     Present, PeerP!Validate, Validate, PeerP!Effective, Effective
<1> QED BY <1>1, <1>2

(* Every change of the API server is a step of one replica or of a user.   *)
LEMMA ServerSteps ==
  ASSUME ReplicasInv, [ReplicasNext]_replicaVars
  PROVE  \/ [Next]_vars
         \/ [PeerP!Next]_PeerP!vars
         \/ /\ Live(crHist') = Live(crHist)
            /\ Live(cmHist') \in {Live(cmHist), Absent}
<1> DEFINE Quiet == /\ Live(crHist') = Live(crHist)
                    /\ Live(cmHist') \in {Live(cmHist), Absent}
<1>0. BaseInv /\ crHist \in Seq(Snapshots) /\ cmHist \in Seq(ConfigMaps) /\ cmHist # <<>>
  BY ThisParts DEF ReplicasInv, BaseInv, TypeOK
<1>1. CASE ThisReconciles \/ ThisWatches \/ ThisBootstraps \/ ThisCrashes \/ CRsEdited
  BY <1>1 DEF ThisReconciles, ThisWatches, ThisBootstraps, ThisCrashes, CRsEdited, Next
<1>2. CASE PeerReconciles \/ PeerWatches \/ PeerBootstraps \/ PeerCrashes
  BY <1>2, PeerSteps DEF PeerReconciles, PeerWatches, PeerBootstraps, PeerCrashes,
     PeerP!Next
<1>3. CASE UNCHANGED thisVars
  <2>1. Quiet
    BY <1>3 DEF thisVars
  <2> QED BY <2>1
<1>4. CASE ThisFollows
  <2>1. Quiet
    BY <1>0, <1>4, TailFacts DEF ThisFollows
  <2> QED BY <2>1
<1>5. CASE ThisTakesLease
  <2>1. Quiet
    BY <1>0, <1>5, TypeFacts, SingletonFacts DEF ThisTakesLease, BaseInv
  <2> QED BY <2>1
<1>6. CASE ThisStepsDown
  <2>1. Quiet
    BY <1>0, <1>6, TypeFacts, SingletonFacts DEF ThisStepsDown, Exit, BaseInv
  <2> QED BY <2>1
<1>7. CASE ThisStarts
  <2>1. Quiet
    BY <1>7 DEF ThisStarts
  <2> QED BY <2>1
<1>8. CASE ConfigMapDeleted
  <2>1. cmHist' = Push(cmHist, Absent) /\ UNCHANGED crHist /\ Absent \in ConfigMaps
    BY <1>8 DEF ConfigMapDeleted, ConfigMaps
  <2>2. Quiet
    BY <1>0, <2>1, PushFacts
  <2> QED BY <2>2
<1>9. CASE PeerFollows \/ PeerTakesLease \/ PeerStarts \/ UNCHANGED replicaVars
  BY <1>3, <1>9 DEF PeerFollows, PeerTakesLease, PeerStarts, replicaVars
<1> HIDE DEF Quiet
<1> QED
  BY <1>1, <1>2, <1>4, <1>5, <1>6, <1>7, <1>8, <1>9 DEF ReplicasNext, ThisStep, PeerStep

LEMMA ClaimsInit == ReplicasInit => OutputSafe /\ StatusTruthful
<1> SUFFICES ASSUME ReplicasInit PROVE OutputSafe /\ StatusTruthful
  OBVIOUS
<1>1. PICK specs \in InitialSpecs : /\ crHist = <<SettledCRs(specs)>>
                                    /\ cmHist = <<Desired(specs)>>
  BY DEF ReplicasInit
<1>2. Live(crHist) = SettledCRs(specs) /\ Live(cmHist) = Desired(specs)
  BY <1>1 DEF Live
<1>3. OutputSafe
  BY <1>2, OutputValid DEF OutputSafe, Desired, Render, Validate
<1>4. StatusTruthful
  <2> DEFINE new == [k \in Keys |-> IF specs[k] = Absent THEN Absent
                                                        ELSE NewCR(specs[k])]
             hash == Hash(Desired(specs))
             status(k) == computeDesiredStatus(new, k, hash)
  <2>1. specs \in [Keys -> Specs \cup {Absent}] /\ Desired(specs) \in Bodies
    BY InitialAssumption, DesiredType
  <2>2. new \in Snapshots
    BY <2>1, NewCRType DEF Snapshots
  <2>3. ASSUME NEW k \in Keys, SettledCRs(specs)[k] # Absent
        PROVE  TruthfulCR(k, SettledCRs(specs)[k])
    <3>1. specs[k] \in Specs
      BY <2>1, <2>3 DEF SettledCRs
    <3>2. new[k] = NewCR(specs[k]) /\ new[k] \in CRs /\ new[k] # Absent
      BY <2>1, <3>1, AbsentAssumption, NewCRType, DistinctAssumption
    <3>3. SettledCRs(specs)[k] = [new[k] EXCEPT !.status = status(k)]
      BY <3>1, AbsentAssumption DEF SettledCRs
    <3>4. /\ status(k).observedGeneration = new[k].generation
          /\ status(k).validated = Validate(new[k].spec.overrides)
          /\ status(k).effectiveTenantId = Effective(k, new[k].spec)
      BY <2>1, <2>2, <3>2, StatusType
    <3> HIDE DEF new, status
    <3> QED BY <3>2, <3>3, <3>4 DEF TruthfulCR, CRs
  <2> QED BY <1>2, <2>3 DEF StatusTruthful, TruthfulCR, Present
<1> QED BY <1>3, <1>4

(* Two replicas that write at the same time, one of them deposed, spoil    *)
(* nothing: neither puts an invalid document into the ConfigMap, and a     *)
(* status written by either describes the spec it stands beside.           *)
THEOREM ReplicasWriteSafely == ReplicasSpec => [](OutputSafe /\ StatusTruthful)
<1>1. ASSUME ReplicasInv, ReplicasInv', OutputSafe, StatusTruthful,
             [ReplicasNext]_replicaVars
      PROVE  OutputSafe' /\ StatusTruthful'
  <2>1. CASE [Next]_vars
    BY <1>1, <2>1, ThisParts, OutputSafeStep, TruthfulStep DEF ReplicasInv
  <2>2. CASE [PeerP!Next]_PeerP!vars
    <3>1. PeerP!OutputSafe /\ PeerP!StatusTruthful
      BY <1>1, SameClaims DEF ReplicasInv
    <3>2. PeerP!OutputSafe' /\ PeerP!StatusTruthful'
      BY <1>1, <2>2, <3>1, PeerParts, PeerAssumptions, PeerP!OutputSafeStep,
         PeerP!TruthfulStep DEF ReplicasInv
    <3>3. OneServer'
      BY <1>1 DEF ReplicasInv
    <3>4. (OneServer => /\ PeerP!OutputSafe <=> OutputSafe
                        /\ PeerP!StatusTruthful <=> StatusTruthful)'
      BY SameClaims, PTL
    <3> QED BY <3>2, <3>3, <3>4
  <2>3. CASE /\ Live(crHist') = Live(crHist)
             /\ Live(cmHist') \in {Live(cmHist), Absent}
    <3>1. StatusTruthful'
      BY <1>1, <2>3 DEF StatusTruthful
    <3>2. OutputSafe'
      BY <1>1, <2>3, DistinctAssumption DEF OutputSafe
    <3> QED BY <3>1, <3>2
  <2> QED BY <1>1, <2>1, <2>2, <2>3, ServerSteps
<1> QED BY <1>1, ClaimsInit, BothInvariant, PTL DEF ReplicasSpec
=============================================================================
