--------------------------- MODULE ReplicaProofs ---------------------------
(***************************************************************************)
(* One replica of Replicas, seen alone: what its own steps, those of the   *)
(* other replica and those of the election do to what is known of it while *)
(* it leads and while it follows.                                          *)
(***************************************************************************)
EXTENDS WakeupProofs

(* A leader's idle time is IdleConverged's; but it may have started when   *)
(* its bootstrap was over and neither a CR nor a ConfigMap was there.      *)
LeaderAwaits ==
  /\ up /\ pc = "idle" /\ ~ queued /\ NoWakeupPending
  /\ Cached(cmHist) = Absent
  => boot \in BeforeCM \/ Present(Live(crHist)) = {}

LeaderInv == up /\ OutputInHand /\ LeaderAwaits

FollowerInv == pc = "idle" /\ ~ queued

ReplicaInv(leading) ==
  /\ BaseInv /\ BodyFromSeen
  /\ IF leading THEN LeaderInv ELSE FollowerInv

(* What a replica's own work consists of.                                  *)
OwnStep == ReconcileStep \/ DeliverCR \/ DeliverCM \/ BootStep

(* What the other replica's steps leave alone.                             *)
own == <<up, queued, hashCache, pc, drift, seen, body, todo, conflictHit,
         bootVars>>

-----------------------------------------------------------------------------
(* A replica's own steps.                                                  *)

LEMMA OwnStepNext ==
  ASSUME OwnStep \/ Crash
  PROVE  [Next]_vars
BY DEF OwnStep, Next

LEMMA OwnBase ==
  ASSUME BaseInv, BodyFromSeen, OwnStep \/ Crash
  PROVE  BaseInv' /\ BodyFromSeen'
BY OwnStepNext, BaseNext, BodyFromSeenStep

LEMMA LeaderStep ==
  ASSUME BaseInv, BodyFromSeen, LeaderInv, OwnStep, up'
  PROVE  LeaderInv'
<1>1. OutputInHand'
  BY WakeDeliverCR, WakeDeliverCM, WakeCheckDrift, WakeGather, WakeApplyGet,
     WakePatchCM, WakeReGet, WakeStatusStep, WakeReconcileDone, WakeBootStep
     DEF OwnStep, ReconcileStep, LeaderInv
<1>2. SUFFICES ASSUME pc' = "idle", ~ queued', NoWakeupPending', Cached(cmHist') = Absent
               PROVE  boot' \in BeforeCM \/ Present(Live(crHist')) = {}
  BY <1>1 DEF LeaderInv, LeaderAwaits
<1>3. \/ boot' = "get"
      \/ /\ pc = "idle" /\ ~ queued /\ Cached(cmHist) = Absent
         /\ boot \in BeforeCM => boot' \in BeforeCM
  BY <1>2, OwnStepNext, MissingBefore DEF LeaderInv
<1>4. CASE boot' = "get"
  BY <1>4 DEF BeforeCM
<1>5. CASE /\ pc = "idle" /\ ~ queued /\ Cached(cmHist) = Absent
           /\ boot \in BeforeCM => boot' \in BeforeCM
  <2>1. NoWakeupPending /\ Live(crHist') = Live(crHist)
    <3>1. CASE DeliverCR
      <4>1. crHist' = Tail(crHist) /\ Len(crHist) > 1
        BY <3>1 DEF DeliverCR
      <4>2. ~ GenerationChanged(crHist[1], crHist[2])
        BY <1>2, <3>1 DEF DeliverCR
      <4>3. NoWakeupPending
        BY <1>2, <4>1, <4>2, TailWake DEF LeaderInv, OutputInHand
      <4> QED BY <4>1, <4>3, TailFacts DEF BaseInv, TypeOK
    <3>2. CASE ~ DeliverCR
      <4>1. UNCHANGED crHist
        BY <1>5, <3>2 DEF OwnStep, ReconcileStep, DeliverCM, CheckDrift, Gather, ApplyGet,
             PatchCM, ReGet, UpdateStatus, ReconcileDone, BootStep, BootGet,
             BootApplyGet, BootPatch, BootReGet, BootSet, Exit
      <4> QED BY <1>2, <4>1, SameCRs
    <3> QED BY <3>1, <3>2
  <2> QED BY <1>5, <2>1 DEF LeaderInv, LeaderAwaits
<1> QED BY <1>3, <1>4, <1>5

(* Only the bootstrap ends a process of itself.                            *)
LEMMA ControllersStay ==
  ASSUME ReconcileStep \/ DeliverCR \/ DeliverCM
  PROVE  UNCHANGED up
BY DEF ReconcileStep, DeliverCR, DeliverCM, CheckDrift, Gather, ApplyGet, PatchCM,
       ReGet, UpdateStatus, ReconcileDone

(* A process that ends leaves a follower.                                  *)
LEMMA ExitFollows ==
  ASSUME Exit
  PROVE  FollowerInv' /\ ~ up' /\ BodyFromSeen'
BY DEF Exit, EndReconcile, FollowerInv, BodyFromSeen, PastGather

LEMMA BootEnds ==
  ASSUME BaseInv, BootStep
  PROVE  up /\ (Exit \/ UNCHANGED <<crHist, up, queued, pc>>)
<1>1. up
  BY DEF BootStep, BootGet, BootApplyGet, BootPatch, BootReGet, BootSet, BaseInv, PhaseInv
<1>2. CASE BootReGet
  BY <1>1, <1>2 DEF BootReGet, locals
<1>3. CASE BootGet \/ BootApplyGet \/ BootPatch \/ BootSet
  BY <1>1, <1>3 DEF BootGet, BootApplyGet, BootPatch, BootSet, locals
<1> QED BY <1>2, <1>3 DEF BootStep

(* A follower bootstraps too.                                              *)
LEMMA FollowerBoots ==
  ASSUME BaseInv, FollowerInv, BootStep
  PROVE  FollowerInv'
<1>1. CASE Exit
  BY <1>1, ExitFollows
<1>2. CASE UNCHANGED <<crHist, up, queued, pc>>
  BY <1>2 DEF FollowerInv
<1> QED BY <1>1, <1>2, BootEnds

LEMMA ReplicaWorks ==
  ASSUME NEW leading \in BOOLEAN, NEW leads1 \in BOOLEAN, ReplicaInv(leading), OwnStep,
         leading \/ BootStep, leads1 <=> leading /\ up'
  PROVE  /\ BaseInv' /\ BodyFromSeen'
         /\ IF leads1 THEN LeaderInv' ELSE FollowerInv'
<1>1. BaseInv' /\ BodyFromSeen'
  BY OwnBase DEF ReplicaInv
<1>2. CASE leading /\ up'
  BY <1>1, <1>2, LeaderStep DEF ReplicaInv
<1>3. CASE leading /\ ~ up'
  <2>1. up
    BY <1>3 DEF ReplicaInv, LeaderInv
  <2>2. up' # up
    BY <1>3, <2>1
  <2>3. BootStep
    BY <2>2, ControllersStay DEF OwnStep
  <2>4. Exit
    BY <2>2, <2>3, BootEnds DEF ReplicaInv
  <2> QED BY <1>1, <1>3, <2>4, ExitFollows
<1>4. CASE ~ leading
  BY <1>1, <1>4, FollowerBoots DEF ReplicaInv
<1> QED BY <1>2, <1>3, <1>4

(* What the other replica sees of a step: statuses written or the          *)
(* ConfigMap, never both.                                                  *)
LEMMA OwnShows ==
  ASSUME BaseInv, OwnStep \/ Crash
  PROVE  /\ \/ Live(crHist') = Live(crHist)
            \/ Live(cmHist') = Live(cmHist) /\ Kept(Live(crHist), Live(crHist'))
         /\ Live(crHist') \in Snapshots /\ Live(cmHist') \in ConfigMaps
         /\ used' \in [Disturbances -> Nat]
<1>1. BaseInv'
  BY OwnStepNext, BaseNext
<1>2. /\ Live(crHist') \in Snapshots /\ Live(cmHist') \in ConfigMaps
      /\ used' \in [Disturbances -> Nat]
  BY <1>1, HistoryFacts DEF BaseInv, TypeOK
<1>3. CASE UNCHANGED crHist
  BY <1>2, <1>3
<1>4. CASE DeliverCR
  <2>1. crHist' = Tail(crHist) /\ Len(crHist) > 1
    BY <1>4 DEF DeliverCR
  <2> QED BY <1>2, <2>1, TailFacts DEF BaseInv, TypeOK
<1>5. CASE \E k \in Keys : UpdateStatus(k)
  <2>1. PICK k \in Keys : UpdateStatus(k)
    BY <1>5
  <2>2. /\ pc = "status" /\ UNCHANGED cmHist
        /\ WriteStatus(k) \/ UNCHANGED crHist
    BY <2>1, StatusStep
  <2>3. Kept(Live(crHist), Live(crHist')) \/ UNCHANGED crHist
    BY <2>2, StatusWriteKeeps
  <2> QED BY <1>2, <1>3, <2>2, <2>3
<1>6. CASE Exit
  BY <1>2, <1>6, TypeFacts, SingletonFacts DEF Exit, BaseInv
<1>7. CASE BootStep
  BY <1>3, <1>6, <1>7, BootEnds
<1>8. CASE DeliverCM \/ CheckDrift \/ Gather \/ ApplyGet \/ PatchCM \/ ReGet \/ ReconcileDone
  BY <1>3, <1>8 DEF DeliverCM, CheckDrift, Gather, ApplyGet, PatchCM, ReGet, ReconcileDone
<1>9. CASE Crash
  BY <1>6, <1>9 DEF Crash
<1> QED BY <1>4, <1>5, <1>7, <1>8, <1>9 DEF OwnStep, ReconcileStep

-----------------------------------------------------------------------------
(* The other replica's steps, users' edits and deletions of the ConfigMap. *)

(* One that changes nothing a watch shows.                                 *)
LEMMA NothingShown ==
  ASSUME NEW leading, ReplicaInv(leading), UNCHANGED <<crHist, cmHist, fresh, own>>,
         used' \in [Disturbances -> Nat]
  PROVE  /\ BaseInv' /\ BodyFromSeen'
         /\ IF leading THEN LeaderInv' ELSE FollowerInv'
<1> USE DEF ReplicaInv, own, bootVars
<1>1. TypeOK'
  BY DEF BaseInv, TypeOK
<1>2. PhaseInv'
  BY DEF BaseInv, PhaseInv, PastGather, Present
<1>3. FreshInv'
  BY DEF BaseInv, FreshInv
<1>4. BodyFromSeen'
  BY DEF BodyFromSeen, PastGather
<1>5. LeaderInv => LeaderInv'
  BY WakeUntouched, SameCRs DEF LeaderInv, LeaderAwaits, OutputInHand
<1>6. FollowerInv => FollowerInv'
  BY DEF FollowerInv
<1> QED BY <1>1, <1>2, <1>3, <1>4, <1>5, <1>6 DEF BaseInv

(* One that changes CRs, as the watch of a leader shows it.                *)
LEMMA CRsShown ==
  ASSUME NEW leading, ReplicaInv(leading), NEW x \in Snapshots,
         crHist' = IF leading THEN Append(crHist, x) ELSE <<x>>,
         fresh' = fresh \ { k \in Keys : x[k] # Live(crHist)[k] },
         Kept(Live(crHist), x) \/ GenerationChanged(Live(crHist), x),
         UNCHANGED <<cmHist, own>>, used' \in [Disturbances -> Nat]
  PROVE  /\ BaseInv' /\ BodyFromSeen'
         /\ IF leading THEN LeaderInv' ELSE FollowerInv'
<1> USE DEF ReplicaInv, own, bootVars
<1>0. /\ crHist' \in Seq(Snapshots) /\ crHist' # <<>>
      /\ Live(crHist') = x
      /\ leading => up
      /\ leading \/ Len(crHist') = 1
  BY AppendFacts, SingletonFacts DEF BaseInv, TypeOK, LeaderInv
<1>1. TypeOK'
  BY <1>0 DEF BaseInv, TypeOK
<1>2. PhaseInv'
  BY <1>0 DEF BaseInv, PhaseInv, PastGather, Present
<1>3. FreshInv'
  <2>1. fresh \subseteq Keys
    BY DEF BaseInv, TypeOK
  <2> QED BY <1>0, <2>1 DEF BaseInv, FreshInv
<1>4. BodyFromSeen'
  BY DEF BodyFromSeen, PastGather
<1>5. ASSUME leading
      PROVE  LeaderInv'
  <2>0. LeaderInv /\ up /\ crHist' = Append(crHist, x)
    BY <1>0, <1>5
  <2>1. /\ ChangesWake'
        /\ NoWakeupPending' => /\ NoWakeupPending
                               /\ ~ GenerationChanged(Live(crHist), x)
    BY <2>0, AppendWake DEF LeaderInv, OutputInHand
  <2>2. NoWakeupPending' => Kept(Live(crHist), x)
    BY <2>1
  <2>3. SeenCurrent'
    <3>1. SUFFICES ASSUME PastGather, ~ queued, NoWakeupPending', UNCHANGED seen
                   PROVE  Kept(seen, x)
      BY <1>0 DEF SeenCurrent, PastGather
    <3> QED BY <2>0, <2>1, <2>2, <3>1, KeptTransitive DEF LeaderInv, OutputInHand, SeenCurrent
  <2>4. WrittenBody'
    BY <2>0 DEF WrittenBody, LeaderInv, OutputInHand
  <2>5. IdleConverged'
    <3>1. NoWakeupPending' => SpecsOf(x) = SpecsOf(Live(crHist))
      BY <2>2 DEF Kept
    <3> QED BY <1>0, <2>0, <2>1, <3>1
            DEF IdleConverged, Converged, LeaderInv, OutputInHand
  <2>6. LeaderAwaits'
    <3>1. ~ GenerationChanged(Live(crHist), x) => Present(x) = Present(Live(crHist))
      BY DEF GenerationChanged, Present
    <3> QED BY <1>0, <2>0, <2>1, <3>1 DEF LeaderAwaits, LeaderInv
  <2> QED BY <2>0, <2>1, <2>3, <2>4, <2>5, <2>6 DEF LeaderInv, OutputInHand
<1>6. FollowerInv => FollowerInv'
  BY DEF FollowerInv
<1> QED BY <1>1, <1>2, <1>3, <1>4, <1>5, <1>6 DEF BaseInv

(* An edit of the leader's CRs.                                            *)
LEMMA LeaderEdited ==
  ASSUME BaseInv, BodyFromSeen, LeaderInv, UserEdit
  PROVE  LeaderInv'
<1>1. OutputInHand' /\ UNCHANGED up
  BY WakeUserEdit DEF LeaderInv, UserEdit
<1>2. PICK x \in Snapshots : /\ crHist' = Push(crHist, x)
                             /\ GenerationChanged(Live(crHist), x)
  BY EditWakes
<1>3. ~ NoWakeupPending'
  BY <1>2, AppendWake DEF LeaderInv, Push, OutputInHand
<1> QED BY <1>1, <1>3 DEF LeaderInv, LeaderAwaits

(* One that changes the ConfigMap, which every running replica watches.    *)
LEMMA CMShown ==
  ASSUME NEW leading, ReplicaInv(leading), NEW x \in ConfigMaps,
         cmHist' = IF up THEN Append(cmHist, x) ELSE <<x>>,
         UNCHANGED <<crHist, fresh, own>>, used' \in [Disturbances -> Nat]
  PROVE  /\ BaseInv' /\ BodyFromSeen'
         /\ IF leading THEN LeaderInv' ELSE FollowerInv'
<1> USE DEF ReplicaInv, own, bootVars
<1>0. /\ cmHist' \in Seq(ConfigMaps) /\ cmHist' # <<>>
      /\ up \/ Len(cmHist') = 1
      /\ up => Cached(cmHist') = Cached(cmHist)
  BY AppendFacts, SingletonFacts DEF BaseInv, TypeOK
<1>1. TypeOK'
  BY <1>0 DEF BaseInv, TypeOK
<1>2. PhaseInv'
  BY <1>0 DEF BaseInv, PhaseInv, PastGather, Present
<1>3. FreshInv'
  BY DEF BaseInv, FreshInv
<1>4. BodyFromSeen'
  BY DEF BodyFromSeen, PastGather
<1>5. ASSUME leading
      PROVE  LeaderInv'
  <2>0. LeaderInv /\ up /\ cmHist' = Append(cmHist, x)
    BY <1>5 DEF LeaderInv
  <2>1. OutputInHand'
    BY <2>0, WakeCMWrite DEF LeaderInv
  <2>2. LeaderAwaits'
    BY <1>0, <2>0, SameCRs DEF LeaderAwaits, LeaderInv
  <2> QED BY <2>0, <2>1, <2>2 DEF LeaderInv
<1>6. FollowerInv => FollowerInv'
  BY DEF FollowerInv
<1> QED BY <1>1, <1>2, <1>3, <1>4, <1>5, <1>6 DEF BaseInv

-----------------------------------------------------------------------------
(* The election, and the life of a process.                                *)

(* A new leader begins with a list of the CRs; if that and its cached      *)
(* ConfigMap are nothing, no key is queued.                                *)
LEMMA LeaderStarts ==
  ASSUME ReplicaInv(FALSE), up,
         crHist' = <<Live(crHist)>>,
         queued' = (Present(Live(crHist)) # {} \/ Cached(cmHist) # Absent),
         UNCHANGED <<cmHist, up, hashCache, locals, bootVars>>,
         used' \in [Disturbances -> Nat]
  PROVE  BaseInv' /\ BodyFromSeen' /\ LeaderInv'
<1> USE DEF ReplicaInv, locals, bootVars
<1>0. /\ crHist' \in Seq(Snapshots) /\ crHist' # <<>>
      /\ Live(crHist') = Live(crHist)
      /\ ChangesWake' /\ NoWakeupPending'
      /\ pc = "idle"
  BY TypeFacts, SingletonFacts, SingletonWake DEF BaseInv, FollowerInv
<1>1. TypeOK'
  BY <1>0 DEF BaseInv, TypeOK
<1>2. PhaseInv'
  BY <1>0 DEF BaseInv, PhaseInv, PastGather, Present
<1>3. FreshInv'
  BY <1>0 DEF BaseInv, FreshInv
<1>4. BodyFromSeen'
  BY DEF BodyFromSeen, PastGather
<1>5. OutputInHand'
  BY <1>0 DEF OutputInHand, SeenCurrent, WrittenBody, IdleConverged, PastGather
<1>6. LeaderAwaits'
  BY <1>0 DEF LeaderAwaits
<1> QED BY <1>1, <1>2, <1>3, <1>4, <1>5, <1>6 DEF BaseInv, LeaderInv

(* A follower drops what its ConfigMap cache has seen.                     *)
LEMMA FollowerWatches ==
  ASSUME ReplicaInv(FALSE), up, Len(cmHist) > 1, cmHist' = Tail(cmHist),
         UNCHANGED <<crHist, process, used>>
  PROVE  /\ BaseInv' /\ BodyFromSeen' /\ FollowerInv'
         /\ Live(cmHist') = Live(cmHist)
<1> USE DEF ReplicaInv, process, locals, bootVars
<1>0. /\ cmHist' \in Seq(ConfigMaps) /\ cmHist' # <<>>
      /\ Live(cmHist') = Live(cmHist)
  BY TailFacts DEF BaseInv, TypeOK
<1>1. TypeOK'
  BY <1>0 DEF BaseInv, TypeOK
<1>2. PhaseInv'
  BY DEF BaseInv, PhaseInv, PastGather, Present
<1>3. FreshInv'
  BY DEF BaseInv, FreshInv
<1>4. BodyFromSeen' /\ FollowerInv'
  BY DEF BodyFromSeen, PastGather, FollowerInv
<1> QED BY <1>0, <1>1, <1>2, <1>3, <1>4 DEF BaseInv

(* A new process is a follower.                                            *)
LEMMA FollowerStarts ==
  ASSUME ReplicaInv(FALSE), ~ up, up' = TRUE,
         UNCHANGED <<crHist, cmHist, queued, hashCache, locals, bootVars, used>>
  PROVE  BaseInv' /\ BodyFromSeen' /\ FollowerInv'
<1> USE DEF ReplicaInv, locals, bootVars
<1>1. TypeOK'
  BY DEF BaseInv, TypeOK
<1>2. PhaseInv'
  BY DEF BaseInv, PhaseInv, PastGather, Present
<1>3. FreshInv'
  BY DEF BaseInv, FreshInv
<1>4. BodyFromSeen' /\ FollowerInv'
  BY DEF BodyFromSeen, PastGather, FollowerInv
<1> QED BY <1>1, <1>2, <1>3, <1>4 DEF BaseInv

(* The process of a leader that noticed it was deposed, or of any replica  *)
(* that is killed or whose bootstrap failed, ends.                         *)
LEMMA ReplicaEnds ==
  ASSUME BaseInv, Exit, used' \in [Disturbances -> Nat]
  PROVE  /\ BaseInv' /\ BodyFromSeen' /\ FollowerInv' /\ ~ up'
         /\ Live(crHist') = Live(crHist) /\ Live(cmHist') = Live(cmHist)
<1>1. Live(crHist') = Live(crHist) /\ Live(cmHist') = Live(cmHist)
  BY TypeFacts, SingletonFacts DEF Exit, BaseInv
<1> QED BY <1>1, BaseExit, ExitFollows

(* A leader at rest has converged, or there is nothing to serve.           *)
LEMMA LeaderSettled ==
  ASSUME BaseInv, LeaderInv, Settled
  PROVE  Converged \/ (Live(cmHist) = Absent /\ Present(Live(crHist)) = {})
<1>1. NoWakeupPending
  <2>1. 1 .. Len(crHist) - 1 = {}
    BY DEF Settled
  <2> QED BY <2>1 DEF NoWakeupPending
<1>2. Cached(cmHist) = Live(cmHist)
  BY HistoryFacts DEF Settled, BaseInv, TypeOK
<1>3. CASE Cached(cmHist) # Absent
  BY <1>1, <1>3 DEF Settled, LeaderInv, OutputInHand, IdleConverged
<1>4. CASE Cached(cmHist) = Absent
  BY <1>1, <1>2, <1>4 DEF Settled, LeaderInv, LeaderAwaits, BeforeCM
<1> QED BY <1>3, <1>4
=============================================================================
