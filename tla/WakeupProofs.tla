---------------------------- MODULE WakeupProofs ----------------------------
(***************************************************************************)
(* The facts about an operator at rest: what it wrote validates, no        *)
(* wake-up is lost, and the statuses tell what is served.                  *)
(***************************************************************************)
EXTENDS ReconcilerProofs

-----------------------------------------------------------------------------
(* The body and the live ConfigMap.                                        *)

LEMMA BodyFromSeenStep ==
  ASSUME BaseInv, BodyFromSeen, [Next]_vars
  PROVE  BodyFromSeen'
<1>1. CASE UNCHANGED <<seen, body>> /\ (PastGather' => PastGather)
  BY <1>1 DEF BodyFromSeen
<1>2. CASE EndReconcile
  BY <1>2 DEF EndReconcile, BodyFromSeen, PastGather
<1>3. CASE Gather
  <2>1. \/ EndReconcile
        \/ seen' = Cached(crHist) /\ body' = Desired(SpecsOf(Cached(crHist)))
    BY <1>3 DEF Gather, FailReconcile
  <2> QED BY <1>2, <2>1 DEF BodyFromSeen
<1>4. CASE UNCHANGED locals
  BY <1>1, <1>4 DEF locals, PastGather
<1>5. CASE UserEdit \/ CheckDrift \/ ApplyGet \/ PatchCM
           \/ (\E k \in Keys : UpdateStatus(k)) \/ (\E k \in Keys : StatusError(k))
  BY <1>1, <1>5 DEF UserEdit, CheckDrift, ApplyGet, Applied, PatchCM, UpdateStatus,
       StatusError, PastGather
<1>6. CASE ReGet
  BY <1>1, <1>2, <1>6 DEF ReGet, Applied, FailReconcile, PastGather
<1>7. CASE APIError \/ ReconcileDone \/ Crash
  BY <1>2, <1>7 DEF APIError, FailReconcile, ReconcileDone, Crash, Exit
<1>8. CASE Tamper \/ DeliverCR \/ DeliverCM \/ RelistCR \/ RelistCM \/ Restart
           \/ UNCHANGED vars
  BY <1>4, <1>8 DEF Tamper, DeliverCR, DeliverCM, RelistCR, RelistCM, Restart,
       vars, process
<1>9. CASE BootStep
  BY <1>2, <1>4, <1>9 DEF BootStep, BootGet, BootApplyGet, BootPatch, BootReGet,
       BootSet, Exit
<1> QED
  BY <1>3, <1>5, <1>6, <1>7, <1>8, <1>9 DEF Next, ReconcileStep

LEMMA BodyInvariant == Spec => []BodyFromSeen
<1>1. Init => BodyFromSeen
  BY DEF Init, BodyFromSeen, PastGather
<1>2. BaseInv /\ BodyFromSeen /\ [Next]_vars => BodyFromSeen'
  BY BodyFromSeenStep
<1> QED BY <1>1, <1>2, BaseInvariant, PTL DEF Spec

(* What a step can put in the ConfigMap's place.                           *)
LEMMA LiveCMSteps ==
  ASSUME BaseInv, [Next]_vars
  PROVE  \/ Live(cmHist') = Live(cmHist)
         \/ Live(cmHist') \in {Absent, NoKey} \cup Foreign
         \/ pc = "patch" /\ Live(cmHist') = body
         \/ Live(cmHist') = EmptyBody
<1>1. CASE UNCHANGED cmHist
  BY <1>1
<1>2. CASE DeliverCM
  <2>1. cmHist' = Tail(cmHist) /\ Len(cmHist) > 1
    BY <1>2 DEF DeliverCM
  <2> QED BY <2>1, TailFacts DEF BaseInv, TypeOK
<1>3. CASE cmHist' = <<Live(cmHist)>>
  BY <1>3, TypeFacts, SingletonFacts DEF BaseInv
<1>4. CASE Tamper
  <2>1. PICK cm \in {Absent, NoKey} \cup Foreign : cmHist' = Push(cmHist, cm)
    BY <1>4 DEF Tamper
  <2>2. cm \in ConfigMaps
    BY DEF ConfigMaps
  <2>3. Live(cmHist') = cm
    BY <2>1, <2>2, PushFacts DEF BaseInv, TypeOK
  <2> QED BY <2>3
<1>5. CASE pc = "patch" /\ ServerSideApply(body)
  BY <1>5, ApplyType DEF BaseInv, PhaseInv, PastGather
<1>6. CASE BootPatch
  BY <1>6, ApplyType, EmptyBodyType DEF BootPatch, BaseInv
<1>7. CASE PatchCM \/ APIError
  BY <1>7, <1>1, <1>5 DEF PatchCM, APIError
<1>8. CASE UserEdit \/ DeliverCR \/ RelistCR \/ CheckDrift \/ Gather \/ ApplyGet
           \/ ReGet \/ (\E k \in Keys : UpdateStatus(k))
           \/ (\E k \in Keys : StatusError(k)) \/ ReconcileDone \/ Restart
           \/ UNCHANGED vars
  BY <1>8, <1>1 DEF UserEdit, DeliverCR, RelistCR, CheckDrift, Gather, ApplyGet,
       ReGet, UpdateStatus, StatusError, ReconcileDone, Restart, vars
<1>9. CASE BootGet \/ BootApplyGet \/ BootReGet \/ BootSet \/ Crash \/ RelistCM
  BY <1>9, <1>1, <1>3 DEF BootGet, BootApplyGet, BootReGet, BootSet, Crash, Exit,
       RelistCM
<1> QED
  BY <1>2, <1>4, <1>6, <1>7, <1>8, <1>9 DEF Next, ReconcileStep, BootStep

(* A step keeps the ConfigMap free of documents that fail validation.      *)
LEMMA OutputSafeStep ==
  ASSUME BaseInv, BodyFromSeen, OutputSafe, [Next]_vars
  PROVE  OutputSafe'
<1> DEFINE Safe(b) == b \in Bodies => \A t \in DOMAIN b.overrides :
                                        Validate(b.overrides[t])
<1>1. ASSUME NEW specs PROVE Safe(Desired(specs))
  BY OutputValid DEF Desired, Render, Validate
<1>2. Safe(EmptyBody)
  BY DEF EmptyBody, Render
<1>3. \A x \in {Absent, NoKey} \cup Foreign : Safe(x)
  BY DistinctAssumption
<1>4. Safe(Live(cmHist))
  BY DEF OutputSafe
<1>5. pc = "patch" => Safe(body)
  BY <1>1 DEF BodyFromSeen, PastGather
<1>6. Safe(Live(cmHist'))
  <2> HIDE DEF Safe
  <2> QED BY <1>2, <1>3, <1>4, <1>5, LiveCMSteps
<1> QED BY <1>6 DEF OutputSafe

LEMMA InitSafe == Init => OutputSafe
<1> SUFFICES ASSUME Init PROVE OutputSafe
  OBVIOUS
<1>1. PICK cm \in InitialCMs : cmHist = <<cm>>
  BY DEF Init
<1>2. Live(cmHist) \in {Absent, NoKey} \cup Foreign
  BY <1>1, InitialAssumption DEF Live
<1> QED BY <1>2, DistinctAssumption DEF OutputSafe

(* A document that fails validation, alone or merged, never reaches the    *)
(* ConfigMap through the operator.                                         *)
THEOREM OutputIsSafe == Spec => []OutputSafe
BY InitSafe, OutputSafeStep, BaseInvariant, BodyInvariant, PTL DEF Spec

-----------------------------------------------------------------------------
(* Pending CR events.                                                      *)

(* A user's edit makes an event that passes the generation filter.         *)
LEMMA EditWakes ==
  ASSUME BaseInv, UserEdit
  PROVE  \E x \in Snapshots : /\ crHist' = Push(crHist, x)
                              /\ GenerationChanged(Live(crHist), x)
<1> DEFINE crs == Live(crHist)
<1>0. crs \in Snapshots
  BY TypeFacts DEF BaseInv
<1>1. PICK k \in Keys : \/ \E spec \in Specs : CreateCR(k, spec) \/ UpdateSpec(k, spec)
                       \/ DeleteCR(k)
  BY DEF UserEdit
<1>2. ASSUME NEW cr \in CRs \cup {Absent}, WriteCR(k, cr),
             \/ crs[k] = Absent /\ cr # Absent
             \/ crs[k] # Absent /\ cr = Absent
             \/ /\ crs[k] # Absent /\ cr # Absent
                /\ crs[k].generation # cr.generation
      PROVE  \E x \in Snapshots : /\ crHist' = Push(crHist, x)
                                  /\ GenerationChanged(crs, x)
  <2> DEFINE x == [crs EXCEPT ![k] = cr]
  <2>1. x \in Snapshots /\ x[k] = cr
    BY <1>0 DEF Snapshots
  <2>2. crHist' = Push(crHist, x)
    BY <1>2 DEF WriteCR
  <2>3. GenerationChanged(crs, x)
    <3> HIDE DEF crs, x
    <3> QED BY <1>2, <2>1 DEF GenerationChanged
  <2> QED BY <2>1, <2>2, <2>3
<1>3. ASSUME NEW spec \in Specs, CreateCR(k, spec)
      PROVE  \E x \in Snapshots : /\ crHist' = Push(crHist, x)
                                  /\ GenerationChanged(crs, x)
  <2>1. NewCR(spec) \in CRs /\ NewCR(spec) # Absent
    BY NewCRType, DistinctAssumption
  <2> QED BY <1>2, <1>3, <2>1 DEF CreateCR
<1>4. ASSUME NEW spec \in Specs, UpdateSpec(k, spec)
      PROVE  \E x \in Snapshots : /\ crHist' = Push(crHist, x)
                                  /\ GenerationChanged(crs, x)
  <2> DEFINE new == [crs[k] EXCEPT !.spec = spec, !.generation = @ + 1]
  <2>1. crs[k] # Absent /\ WriteCR(k, new)
    BY <1>4 DEF UpdateSpec
  <2>2. crs[k] \in CRs
    BY <1>0, <2>1, PresentType
  <2>3. new \in CRs /\ new # Absent
    BY <2>2, UpdatedCRType, DistinctAssumption
  <2>4. new.generation # crs[k].generation
    BY <2>2 DEF CRs
  <2> QED
    <3> HIDE DEF new, crs
    <3> QED BY <1>2, <2>1, <2>3, <2>4
<1>5. ASSUME DeleteCR(k)
      PROVE  \E x \in Snapshots : /\ crHist' = Push(crHist, x)
                                  /\ GenerationChanged(crs, x)
  <2>1. crs[k] # Absent /\ WriteCR(k, Absent)
    BY <1>5 DEF DeleteCR
  <2> HIDE DEF crs
  <2> QED BY <1>2, <2>1
<1> QED BY <1>1, <1>3, <1>4, <1>5

(* What is kept over two steps is kept over both.                          *)
LEMMA KeptTransitive ==
  ASSUME NEW a, NEW b, NEW c, Kept(a, b), Kept(b, c)
  PROVE  Kept(a, c)
BY DEF Kept

LEMMA KeptReflexive == \A crs : Kept(crs, crs)
BY DEF Kept

(* Appending a state that does not keep the last only if its event wakes.  *)
LEMMA AppendWake ==
  ASSUME BaseInv, ChangesWake, NEW x \in Snapshots,
         crHist' = Append(crHist, x),
         Kept(Live(crHist), x) \/ GenerationChanged(Live(crHist), x)
  PROVE  /\ ChangesWake'
         /\ NoWakeupPending' => /\ NoWakeupPending
                                /\ ~ GenerationChanged(Live(crHist), x)
<1> DEFINE n == Len(crHist)
<1>1. /\ n \in Nat \ {0} /\ Len(crHist') = n + 1
      /\ \A i \in 1 .. n : crHist'[i] = crHist[i]
      /\ crHist'[n + 1] = x /\ Live(crHist') = x
      /\ DOMAIN crHist' = 1 .. n + 1 /\ DOMAIN crHist = 1 .. n
  BY HistoryFacts, AppendFacts DEF BaseInv, TypeOK
<1>2. /\ crHist'[n] = Live(crHist)
      /\ \A j \in 1 .. n - 1 : crHist'[j] = crHist[j] /\ crHist'[j+1] = crHist[j+1]
  <2>1. n \in 1 .. n /\ \A j \in 1 .. n - 1 : j \in 1 .. n /\ j + 1 \in 1 .. n
    BY <1>1
  <2> QED BY <1>1, <2>1 DEF Live
<1>3. ASSUME NEW i \in 1 .. n + 1, ~ Kept(crHist'[i], Live(crHist'))
      PROVE  \E j \in i .. n : GenerationChanged(crHist'[j], crHist'[j+1])
  <2>1. i \in 1 .. n
    <3>1. i # n + 1
      BY <1>1, <1>3, KeptReflexive
    <3> QED BY <1>1, <3>1
  <2>2. CASE GenerationChanged(Live(crHist), x)
    <3>1. GenerationChanged(crHist'[n], crHist'[n+1])
      BY <1>1, <1>2, <2>2
    <3>2. n \in i .. n
      BY <1>1, <2>1
    <3> QED BY <3>1, <3>2
  <2>3. CASE Kept(Live(crHist), x)
    <3>1. ~ Kept(crHist[i], Live(crHist))
      BY <1>1, <1>3, <2>1, <2>3, KeptTransitive
    <3>2. PICK j \in i .. n - 1 : GenerationChanged(crHist[j], crHist[j+1])
      BY <1>1, <2>1, <3>1 DEF ChangesWake
    <3>3. j \in 1 .. n - 1 /\ j \in i .. n
      BY <1>1, <2>1
    <3>4. GenerationChanged(crHist'[j], crHist'[j+1])
      BY <1>2, <3>2, <3>3
    <3> QED BY <3>3, <3>4
  <2> QED BY <2>2, <2>3
<1>4. ChangesWake'
  <2>1. Len(crHist') - 1 = n
    BY <1>1
  <2> QED BY <1>1, <1>3, <2>1 DEF ChangesWake
<1>5. ASSUME NoWakeupPending'
      PROVE  NoWakeupPending /\ ~ GenerationChanged(Live(crHist), x)
  <2>1. \A j \in 1 .. n : ~ GenerationChanged(crHist'[j], crHist'[j+1])
    <3>1. Len(crHist') - 1 = n
      BY <1>1
    <3> QED BY <1>5, <3>1 DEF NoWakeupPending
  <2>2. n \in 1 .. n /\ \A j \in 1 .. n - 1 : j \in 1 .. n
    BY <1>1
  <2> QED BY <1>1, <1>2, <2>1, <2>2 DEF NoWakeupPending
<1> QED BY <1>4, <1>5

(* Delivering the first event leaves the others.                           *)
LEMMA TailWake ==
  ASSUME BaseInv, ChangesWake, Len(crHist) > 1, crHist' = Tail(crHist)
  PROVE  /\ ChangesWake'
         /\ NoWakeupPending' /\ ~ GenerationChanged(crHist[1], crHist[2])
              => NoWakeupPending
<1> DEFINE n == Len(crHist)
<1>1. /\ n \in Nat /\ n > 1 /\ Len(crHist') = n - 1
      /\ \A i \in 1 .. n - 1 : crHist'[i] = crHist[i+1]
      /\ Live(crHist') = Live(crHist)
      /\ DOMAIN crHist' = 1 .. n - 1 /\ DOMAIN crHist = 1 .. n
  BY HistoryFacts, TailFacts DEF BaseInv, TypeOK
<1>2. ASSUME NEW i \in 1 .. n - 1, ~ Kept(crHist'[i], Live(crHist'))
      PROVE  \E j \in i .. n - 2 : GenerationChanged(crHist'[j], crHist'[j+1])
  <2>1. i + 1 \in 1 .. n
    BY <1>1
  <2>2. PICK m \in (i + 1) .. n - 1 : GenerationChanged(crHist[m], crHist[m+1])
    BY <1>1, <1>2, <2>1 DEF ChangesWake
  <2>3. /\ m - 1 \in i .. n - 2
        /\ m - 1 \in 1 .. n - 1 /\ m \in 1 .. n - 1
        /\ (m - 1) + 1 = m
    BY <1>1
  <2>4. crHist'[m - 1] = crHist[m] /\ crHist'[m] = crHist[m+1]
    BY <1>1, <2>3
  <2> QED BY <2>2, <2>3, <2>4
<1>3. ChangesWake'
  <2>1. Len(crHist') - 1 = n - 2
    BY <1>1
  <2> QED BY <1>1, <1>2, <2>1 DEF ChangesWake
<1>4. ASSUME NoWakeupPending', ~ GenerationChanged(crHist[1], crHist[2]),
             NEW j \in 1 .. n - 1
      PROVE  ~ GenerationChanged(crHist[j], crHist[j+1])
  <2>1. CASE j = 1
    BY <1>4, <2>1
  <2>2. CASE j # 1
    <3>1. /\ j - 1 \in 1 .. Len(crHist') - 1
          /\ j - 1 \in 1 .. n - 1 /\ j \in 1 .. n - 1
          /\ (j - 1) + 1 = j
      BY <1>1, <2>2
    <3>2. ~ GenerationChanged(crHist'[j - 1], crHist'[(j - 1) + 1])
      BY <1>4, <3>1 DEF NoWakeupPending
    <3>3. crHist'[j - 1] = crHist[j] /\ crHist'[j] = crHist[j+1]
      BY <1>1, <3>1
    <3> QED BY <3>1, <3>2, <3>3
  <2> QED BY <2>1, <2>2
<1> QED BY <1>3, <1>4 DEF NoWakeupPending

(* A history of one state has nothing pending.                             *)
LEMMA SingletonWake ==
  ASSUME NEW x, crHist' = <<x>>
  PROVE  ChangesWake' /\ NoWakeupPending'
<1>1. Len(crHist') = 1 /\ DOMAIN crHist' = {1} /\ Live(crHist') = crHist'[1]
  BY DEF Live
<1>2. \A i \in DOMAIN crHist' : crHist'[i] = Live(crHist')
  BY <1>1
<1>3. 1 .. Len(crHist') - 1 = {}
  BY <1>1
<1> QED BY <1>2, <1>3, KeptReflexive DEF ChangesWake, NoWakeupPending

(* With nothing pending what the cache shows has been kept.                *)
LEMMA CacheCurrent ==
  ASSUME BaseInv, ChangesWake, NoWakeupPending
  PROVE  Kept(Cached(crHist), Live(crHist))
<1>1. 1 \in DOMAIN crHist
  BY HistoryFacts DEF BaseInv, TypeOK
<1> QED BY <1>1 DEF ChangesWake, NoWakeupPending, Cached

-----------------------------------------------------------------------------
(* OutputInHand, action by action.                                            *)

(* A step that leaves the CRs' history alone leaves their pending events.  *)
LEMMA SameCRs ==
  ASSUME UNCHANGED crHist
  PROVE  /\ ChangesWake' <=> ChangesWake
         /\ NoWakeupPending' <=> NoWakeupPending
BY DEF ChangesWake, NoWakeupPending

LEMMA WakeUserEdit ==
  ASSUME BaseInv, OutputInHand, UserEdit
  PROVE  OutputInHand'
<1> USE DEF OutputInHand
<1>0. UNCHANGED <<cmHist, up, queued, pc, seen, body, boot>>
  BY DEF UserEdit, bootVars
<1>1. PICK x \in Snapshots : /\ crHist' = Push(crHist, x)
                             /\ GenerationChanged(Live(crHist), x)
  BY EditWakes
<1>2. CASE up
  <2>1. crHist' = Append(crHist, x)
    BY <1>1, <1>2 DEF Push
  <2>2. ChangesWake' /\ ~ NoWakeupPending'
    BY <1>1, <2>1, AppendWake
  <2>3. SeenCurrent' /\ WrittenBody' /\ IdleConverged'
    BY <1>0, <2>2 DEF SeenCurrent, WrittenBody, IdleConverged
  <2> QED BY <2>2, <2>3
<1>3. CASE ~ up
  <2>1. crHist' = <<x>>
    BY <1>1, <1>3 DEF Push
  <2>2. ChangesWake'
    BY <2>1, SingletonWake
  <2>3. ~ up' /\ pc' = "idle"
    BY <1>0, <1>3 DEF BaseInv, PhaseInv
  <2>4. SeenCurrent' /\ WrittenBody' /\ IdleConverged'
    BY <2>3 DEF SeenCurrent, WrittenBody, IdleConverged, PastGather
  <2> QED BY <2>2, <2>4
<1> QED BY <1>2, <1>3

(* A write to the ConfigMap of a running operator is an event that any     *)
(* claim about it waits for.                                               *)
LEMMA WakeCMWrite ==
  ASSUME BaseInv, OutputInHand, up, NEW x \in ConfigMaps, cmHist' = Append(cmHist, x),
         UNCHANGED <<crHist, up, queued, pc, seen, body>>
  PROVE  OutputInHand'
<1> USE DEF OutputInHand
<1>1. Cached(cmHist') = Cached(cmHist) /\ Len(cmHist') # 1
  BY HistoryFacts, AppendFacts DEF BaseInv, TypeOK
<1>2. ChangesWake' /\ (NoWakeupPending' <=> NoWakeupPending)
  BY SameCRs
<1>3. SeenCurrent'
  BY <1>2 DEF SeenCurrent, PastGather
<1>4. WrittenBody' /\ IdleConverged'
  BY <1>1 DEF WrittenBody, IdleConverged
<1> QED BY <1>2, <1>3, <1>4

LEMMA WakeTamper ==
  ASSUME BaseInv, OutputInHand, Tamper
  PROVE  OutputInHand'
<1>0. UNCHANGED <<crHist, up, queued, pc, seen, body, boot>>
  BY DEF Tamper, process, locals, bootVars
<1>1. PICK cm \in {Absent, NoKey} \cup Foreign : cmHist' = Push(cmHist, cm)
  BY DEF Tamper
<1>2. cm \in ConfigMaps
  BY DEF ConfigMaps
<1>3. CASE up
  BY <1>0, <1>1, <1>2, <1>3, WakeCMWrite DEF Push
<1>4. CASE ~ up
  <2>1. ~ up' /\ pc' = "idle"
    BY <1>0, <1>4 DEF BaseInv, PhaseInv
  <2>2. ChangesWake'
    BY <1>0, SameCRs DEF OutputInHand
  <2> QED BY <2>1, <2>2 DEF OutputInHand, SeenCurrent, WrittenBody, IdleConverged, PastGather
<1> QED BY <1>3, <1>4

LEMMA WakeDeliverCR ==
  ASSUME BaseInv, OutputInHand, DeliverCR
  PROVE  OutputInHand'
<1> USE DEF OutputInHand
<1>0. /\ UNCHANGED <<cmHist, up, pc, seen, body, boot>>
      /\ crHist' = Tail(crHist) /\ Len(crHist) > 1
      /\ queued' = (queued \/ GenerationChanged(crHist[1], crHist[2]))
  BY DEF DeliverCR, locals, bootVars
<1>1. /\ ChangesWake'
      /\ ~ queued' /\ NoWakeupPending' => NoWakeupPending
      /\ ~ queued' => ~ queued
  BY <1>0, TailWake
<1>2. Live(crHist') = Live(crHist)
  BY <1>0, TailFacts DEF BaseInv, TypeOK
<1>3. SeenCurrent'
  BY <1>0, <1>1, <1>2 DEF SeenCurrent, PastGather
<1>4. WrittenBody'
  BY <1>0, <1>1 DEF WrittenBody
<1>5. IdleConverged'
  BY <1>0, <1>1, <1>2 DEF IdleConverged, Converged
<1> QED BY <1>1, <1>3, <1>4, <1>5

(* A step that leaves the key in the queue owes nothing but the CR events. *)
LEMMA WakeQueued ==
  ASSUME ChangesWake', queued'
  PROVE  OutputInHand'
BY DEF OutputInHand, SeenCurrent, WrittenBody, IdleConverged

LEMMA WakeDeliverCM ==
  ASSUME BaseInv, OutputInHand, DeliverCM
  PROVE  OutputInHand'
<1>0. /\ UNCHANGED <<crHist, up, pc, seen, body, boot>>
      /\ cmHist' = Tail(cmHist) /\ Len(cmHist) > 1
      /\ queued' = (queued \/ outputCMPredicate(cmHist[1], cmHist[2]))
  BY DEF DeliverCM, locals, bootVars
<1>1. ChangesWake' /\ (NoWakeupPending' <=> NoWakeupPending)
  BY <1>0, SameCRs DEF OutputInHand
<1>2. CASE queued'
  BY <1>1, <1>2, WakeQueued
<1>3. CASE ~ queued'
  <2>1. ~ queued /\ cmHist[1] = Absent /\ cmHist[2] = Absent
    BY <1>0, <1>3 DEF outputCMPredicate
  <2>2. Cached(cmHist) = Absent /\ Cached(cmHist') = Absent
    BY <1>0, <2>1, TailFacts DEF Cached, BaseInv, TypeOK
  <2>3. SeenCurrent'
    BY <1>0, <1>1, <2>1 DEF SeenCurrent, PastGather, OutputInHand
  <2>4. WrittenBody' /\ IdleConverged'
    BY <1>0, <2>1, <2>2 DEF WrittenBody, IdleConverged, OutputInHand
  <2> QED BY <1>1, <2>3, <2>4 DEF OutputInHand
<1> QED BY <1>2, <1>3

LEMMA WakeRelistCR ==
  ASSUME BaseInv, OutputInHand, RelistCR, RelistWakes
  PROVE  OutputInHand'
<1>0. /\ UNCHANGED <<cmHist, up, pc, seen, body, boot>>
      /\ crHist' = <<Live(crHist)>>
      /\ queued' = (queued \/ GenerationChanged(Cached(crHist), Live(crHist)))
  BY DEF RelistCR, locals, bootVars
<1>1. ChangesWake' /\ NoWakeupPending'
  BY <1>0, SingletonWake
<1>2. Live(crHist') = Live(crHist)
  BY <1>0, TypeFacts, SingletonFacts DEF BaseInv
<1>3. CASE queued'
  BY <1>1, <1>3, WakeQueued
<1>4. CASE ~ queued'
  <2>1. ~ queued /\ NoWakeupPending
    BY <1>0, <1>4 DEF RelistWakes
  <2>2. SeenCurrent' /\ WrittenBody' /\ IdleConverged'
    BY <1>0, <1>2, <2>1
       DEF OutputInHand, SeenCurrent, WrittenBody, IdleConverged, PastGather, Converged
  <2> QED BY <1>1, <2>2 DEF OutputInHand
<1> QED BY <1>3, <1>4

LEMMA WakeRelistCM ==
  ASSUME BaseInv, OutputInHand, RelistCM
  PROVE  OutputInHand'
<1>0. /\ UNCHANGED <<crHist, up, pc, seen, body, boot>>
      /\ cmHist' = <<Live(cmHist)>>
      /\ queued' = (queued \/ outputCMPredicate(Cached(cmHist), Live(cmHist)))
  BY DEF RelistCM, locals, bootVars
<1>1. ChangesWake' /\ (NoWakeupPending' <=> NoWakeupPending)
  BY <1>0, SameCRs DEF OutputInHand
<1>2. CASE queued'
  BY <1>1, <1>2, WakeQueued
<1>3. CASE ~ queued'
  <2>1. ~ queued /\ Cached(cmHist) = Absent /\ Live(cmHist) = Absent
    BY <1>0, <1>3 DEF outputCMPredicate
  <2>2. Cached(cmHist') = Absent
    BY <1>0, <2>1 DEF Cached
  <2>3. SeenCurrent'
    BY <1>0, <1>1, <2>1 DEF SeenCurrent, PastGather, OutputInHand
  <2>4. WrittenBody' /\ IdleConverged'
    BY <1>0, <2>1, <2>2 DEF WrittenBody, IdleConverged, OutputInHand
  <2> QED BY <1>1, <2>3, <2>4 DEF OutputInHand
<1> QED BY <1>2, <1>3

LEMMA WakeCheckDrift ==
  ASSUME OutputInHand, CheckDrift
  PROVE  OutputInHand'
<1>1. pc' = "gather" /\ UNCHANGED crHist
  BY DEF CheckDrift
<1>2. ChangesWake'
  BY <1>1, SameCRs DEF OutputInHand
<1> QED BY <1>1, <1>2 DEF OutputInHand, SeenCurrent, WrittenBody, IdleConverged, PastGather

LEMMA WakeGather ==
  ASSUME BaseInv, OutputInHand, Gather
  PROVE  OutputInHand'
<1>1. UNCHANGED <<crHist, cmHist>>
  BY DEF Gather
<1>2. ChangesWake' /\ (NoWakeupPending' <=> NoWakeupPending)
  BY <1>1, SameCRs DEF OutputInHand
<1>3. CASE queued'
  BY <1>2, <1>3, WakeQueued
<1>4. CASE ~ queued'
  <2>1. pc' = "apply" /\ seen' = Cached(crHist)
    BY <1>4 DEF Gather, FailReconcile
  <2>2. SeenCurrent'
    BY <1>1, <1>2, <2>1, CacheCurrent DEF SeenCurrent, OutputInHand
  <2>3. WrittenBody' /\ IdleConverged'
    BY <2>1 DEF WrittenBody, IdleConverged
  <2> QED BY <1>2, <2>2, <2>3 DEF OutputInHand
<1> QED BY <1>3, <1>4

LEMMA WakeApplyGet ==
  ASSUME BaseInv, OutputInHand, ApplyGet
  PROVE  OutputInHand'
<1>0. UNCHANGED <<crHist, cmHist, up, queued, seen, body, boot>> /\ pc = "apply"
  BY DEF ApplyGet, bootVars
<1>1. ChangesWake' /\ (NoWakeupPending' <=> NoWakeupPending)
  BY <1>0, SameCRs DEF OutputInHand
<1>2. SeenCurrent'
  BY <1>0, <1>1 DEF SeenCurrent, PastGather, OutputInHand
<1>3. \/ pc' = "status" /\ Cached(cmHist) = body
      \/ pc' = "patch"
  BY DEF ApplyGet, Applied
<1>4. body # Absent
  BY <1>0, DistinctAssumption DEF BaseInv, PhaseInv, PastGather
<1>5. WrittenBody'
  <2>1. Len(cmHist) = 1 => Cached(cmHist) = Live(cmHist)
    BY HistoryFacts DEF BaseInv, TypeOK
  <2> QED BY <1>0, <1>3, <1>4, <2>1 DEF WrittenBody
<1>6. IdleConverged'
  BY <1>3 DEF IdleConverged
<1> QED BY <1>1, <1>2, <1>5, <1>6 DEF OutputInHand

LEMMA WakePatchCM ==
  ASSUME BaseInv, OutputInHand, PatchCM
  PROVE  OutputInHand'
<1>0. /\ UNCHANGED <<crHist, up, queued, seen, body, boot>>
      /\ pc = "patch" /\ pc' = "reget" /\ ServerSideApply(body)
  BY DEF PatchCM, bootVars
<1>1. ChangesWake' /\ (NoWakeupPending' <=> NoWakeupPending)
  BY <1>0, SameCRs DEF OutputInHand
<1>2. SeenCurrent'
  BY <1>0, <1>1 DEF SeenCurrent, PastGather, OutputInHand
<1>3. Live(cmHist') = body
  BY <1>0, ApplyType DEF BaseInv, PhaseInv, PastGather
<1>4. WrittenBody' /\ IdleConverged'
  BY <1>0, <1>3 DEF WrittenBody, IdleConverged
<1> QED BY <1>1, <1>2, <1>4 DEF OutputInHand

LEMMA WakeReGet ==
  ASSUME BaseInv, OutputInHand, ReGet
  PROVE  OutputInHand'
<1>0. UNCHANGED <<crHist, cmHist, up, boot>> /\ pc = "reget"
  BY DEF ReGet, bootVars
<1>1. ChangesWake' /\ (NoWakeupPending' <=> NoWakeupPending)
  BY <1>0, SameCRs DEF OutputInHand
<1>2. CASE queued'
  BY <1>1, <1>2, WakeQueued
<1>3. CASE ~ queued'
  <2>1. /\ Cached(cmHist) # Absent /\ pc' = "status"
        /\ UNCHANGED <<queued, seen, body>>
    BY <1>3 DEF ReGet, FailReconcile, Applied
  <2>2. SeenCurrent'
    BY <1>0, <1>1, <2>1 DEF SeenCurrent, PastGather, OutputInHand
  <2>3. WrittenBody' /\ IdleConverged'
    BY <1>0, <1>3, <2>1 DEF WrittenBody, IdleConverged, OutputInHand
  <2> QED BY <1>1, <2>2, <2>3 DEF OutputInHand
<1> QED BY <1>2, <1>3

LEMMA WakeAPIError ==
  ASSUME OutputInHand, APIError
  PROVE  OutputInHand'
<1>1. UNCHANGED crHist /\ queued'
  BY DEF APIError, FailReconcile
<1> QED BY <1>1, SameCRs, WakeQueued DEF OutputInHand

(* A status write changes no spec and makes the status current.            *)
LEMMA StatusWriteKeeps ==
  ASSUME BaseInv, NEW k \in Keys, pc = "status", WriteStatus(k)
  PROVE  \E x \in Snapshots : /\ crHist' = Push(crHist, x)
                              /\ Live(crHist') = x
                              /\ Kept(Live(crHist), x)
                              /\ Observed(x[k])
                              /\ \A j \in Keys \ {k} : x[j] = Live(crHist)[j]
<1> DEFINE crs == Live(crHist)
           old == crs[k]
           new == [old EXCEPT !.status = DesiredStatus(k)]
           x   == [crs EXCEPT ![k] = new]
<1>1. old \in CRs /\ new \in CRs /\ WriteCR(k, new) /\ crs \in Snapshots
  BY StatusWriteFacts, TypeFacts DEF BaseInv
<1>2. DesiredStatus(k).observedGeneration = old.generation
  BY StatusWriteFacts
<1>3. /\ new.status = DesiredStatus(k)
      /\ new.generation = old.generation
      /\ new.spec = old.spec
  BY <1>1 DEF CRs
<1>4. old # Absent /\ new # Absent
  BY <1>1, DistinctAssumption
<1>5. crHist' = Push(crHist, x)
  BY <1>1 DEF WriteCR
<1> HIDE DEF new
<1>6. x \in Snapshots /\ \A j \in Keys : x[j] = IF j = k THEN new ELSE crs[j]
  BY <1>1 DEF Snapshots
<1> HIDE DEF x, crs
<1>7. Observed(x[k])
  BY <1>2, <1>3, <1>6 DEF Observed
<1>8. \A j \in Keys : /\ (x[j] = Absent) = (crs[j] = Absent)
                      /\ x[j] # Absent => x[j].spec = crs[j].spec
  BY <1>3, <1>4, <1>6
<1>9. SpecsOf(x) = SpecsOf(crs)
  BY <1>8 DEF SpecsOf
<1>10. Kept(crs, x)
  BY <1>6, <1>7, <1>9 DEF Kept
<1>11. Live(crHist') = x
  BY <1>5, <1>6, PushFacts DEF BaseInv, TypeOK
<1> QED BY <1>5, <1>6, <1>7, <1>10, <1>11 DEF crs

(* So it needs to wake nobody.                                             *)
LEMMA WakeStatusStep ==
  ASSUME BaseInv, OutputInHand, NEW k \in Keys, UpdateStatus(k) \/ StatusError(k)
  PROVE  OutputInHand'
<1>0. /\ UNCHANGED <<cmHist, up, queued, pc, seen, body, boot>>
      /\ up /\ pc = "status"
      /\ WriteStatus(k) \/ UNCHANGED crHist
  BY StatusStep DEF bootVars
<1>1. /\ ChangesWake'
      /\ NoWakeupPending' => NoWakeupPending
      /\ Kept(Live(crHist), Live(crHist'))
  <2>1. CASE WriteStatus(k)
    <3>1. PICK x \in Snapshots : /\ crHist' = Push(crHist, x)
                                 /\ Live(crHist') = x
                                 /\ Kept(Live(crHist), x)
      BY <1>0, <2>1, StatusWriteKeeps
    <3>2. crHist' = Append(crHist, x)
      BY <1>0, <3>1 DEF Push
    <3> QED BY <3>1, <3>2, AppendWake DEF OutputInHand
  <2>2. CASE UNCHANGED crHist
    BY <2>2, SameCRs, KeptReflexive DEF OutputInHand
  <2> QED BY <1>0, <2>1, <2>2
<1>2. SeenCurrent'
  <2>1. PastGather' => PastGather
    BY <1>0 DEF PastGather
  <2>2. SUFFICES ASSUME PastGather, ~ queued, NoWakeupPending, UNCHANGED seen
                 PROVE  Kept(seen, Live(crHist'))
    BY <1>0, <1>1, <2>1 DEF SeenCurrent
  <2> QED BY <1>1, <2>2, KeptTransitive DEF OutputInHand, SeenCurrent
<1>3. WrittenBody' /\ IdleConverged'
  BY <1>0 DEF WrittenBody, IdleConverged, OutputInHand
<1> QED BY <1>1, <1>2, <1>3 DEF OutputInHand

(* A step that touches none of the variables OutputInHand speaks of.          *)
LEMMA WakeUntouched ==
  ASSUME OutputInHand, UNCHANGED <<crHist, cmHist, up, queued, pc, seen, body>>
  PROVE  OutputInHand'
BY SameCRs DEF OutputInHand, SeenCurrent, WrittenBody, IdleConverged, PastGather, Converged

LEMMA WakeReconcileDone ==
  ASSUME BaseInv, BodyFromSeen, OutputInHand, ReconcileDone
  PROVE  OutputInHand'
<1>0. /\ UNCHANGED <<crHist, cmHist, up, boot>>
      /\ pc = "status" /\ pc' = "idle"
      /\ queued' = (queued \/ conflictHit)
  BY DEF ReconcileDone, EndReconcile, bootVars
<1>1. ChangesWake' /\ (NoWakeupPending' <=> NoWakeupPending)
  BY <1>0, SameCRs DEF OutputInHand
<1>2. SeenCurrent' /\ WrittenBody'
  BY <1>0 DEF SeenCurrent, WrittenBody, PastGather
<1>3. ASSUME ~ queued'
      PROVE  Len(cmHist) = 1 /\ NoWakeupPending => Converged
  <2>1. ~ queued
    BY <1>0, <1>3
  <2>2. body = Desired(SpecsOf(seen))
    BY <1>0 DEF BodyFromSeen, PastGather
  <2>3. NoWakeupPending => SpecsOf(seen) = SpecsOf(Live(crHist))
    BY <1>0, <2>1 DEF OutputInHand, SeenCurrent, PastGather, Kept
  <2>4. Len(cmHist) = 1 => Live(cmHist) = body
    BY <1>0, <2>1 DEF OutputInHand, WrittenBody
  <2> QED BY <2>2, <2>3, <2>4 DEF Converged
<1>4. IdleConverged'
  BY <1>0, <1>1, <1>3 DEF IdleConverged, Converged
<1> QED BY <1>1, <1>2, <1>4 DEF OutputInHand

LEMMA WakeExit ==
  ASSUME Exit
  PROVE  OutputInHand'
<1>1. pc' = "idle" /\ ~ up' /\ crHist' = <<Live(crHist)>>
  BY DEF Exit, EndReconcile
<1> QED BY <1>1, SingletonWake
        DEF OutputInHand, SeenCurrent, WrittenBody, IdleConverged, PastGather

LEMMA WakeBootStep ==
  ASSUME BaseInv, OutputInHand, BootStep
  PROVE  OutputInHand'
<1>0. up
  BY DEF BootStep, BootGet, BootApplyGet, BootPatch, BootReGet, BootSet, BaseInv, PhaseInv
<1>1. CASE Exit
  BY <1>1, WakeExit
<1>2. CASE ~ Exit
  <2>1. UNCHANGED <<crHist, up, queued, pc, seen, body>>
    BY <1>2 DEF BootStep, BootGet, BootApplyGet, BootPatch, BootReGet, BootSet, locals
  <2>2. CASE cmHist' = cmHist
    <3>1. ChangesWake' /\ (NoWakeupPending' <=> NoWakeupPending)
      BY <2>1, SameCRs DEF OutputInHand
    <3>2. SeenCurrent' /\ WrittenBody'
      BY <2>1, <2>2, <3>1 DEF OutputInHand, SeenCurrent, WrittenBody, PastGather
    <3>3. IdleConverged'
      BY <2>1, <2>2, <3>1 DEF OutputInHand, IdleConverged, Converged
    <3> QED BY <3>1, <3>2, <3>3 DEF OutputInHand
  <2>3. CASE cmHist' # cmHist
    <3>1. boot' = "reget" /\ ServerSideApply(EmptyBody)
      BY <1>2, <2>3 DEF BootStep, BootGet, BootApplyGet, BootPatch, BootReGet, BootSet
    <3>2. cmHist' = Append(cmHist, EmptyBody)
      BY <1>0, <2>3, <3>1 DEF ServerSideApply, Push
    <3>3. EmptyBody \in ConfigMaps
      BY EmptyBodyType DEF ConfigMaps
    <3> QED BY <1>0, <2>1, <3>1, <3>2, <3>3, WakeCMWrite
  <2> QED BY <2>2, <2>3
<1> QED BY <1>1, <1>2

(* A new process is woken by what it finds, or finds nothing at all.       *)
LEMMA WakeRestart ==
  ASSUME BaseInv, OutputInHand, Restart
  PROVE  OutputInHand'
<1>0. /\ UNCHANGED <<crHist, cmHist, pc, boot>>
      /\ pc = "idle" /\ boot = "get" /\ Len(cmHist) = 1
      /\ queued' = (Present(Live(crHist)) # {} \/ Live(cmHist) # Absent)
  BY DEF Restart, locals, bootVars, BaseInv, PhaseInv
<1>1. ChangesWake'
  BY <1>0, SameCRs DEF OutputInHand
<1>2. ~ queued' => Cached(cmHist) = Absent
  BY <1>0, HistoryFacts DEF BaseInv, TypeOK
<1> QED BY <1>0, <1>1, <1>2
        DEF OutputInHand, SeenCurrent, WrittenBody, IdleConverged, PastGather

LEMMA WakeNext ==
  ASSUME BaseInv, BodyFromSeen, OutputInHand, [Next]_vars, RelistWakes
  PROVE  OutputInHand'
<1>1. CASE UNCHANGED vars
  BY <1>1, WakeUntouched DEF vars, process, locals, bootVars
<1>2. CASE Crash
  BY <1>2, WakeExit DEF Crash
<1> QED
  BY <1>1, <1>2, WakeUserEdit, WakeTamper, WakeDeliverCR, WakeDeliverCM, WakeRelistCR,
     WakeRelistCM, WakeCheckDrift, WakeGather, WakeApplyGet, WakePatchCM, WakeReGet,
     WakeAPIError, WakeStatusStep, WakeReconcileDone, WakeBootStep, WakeRestart
     DEF Next, ReconcileStep

LEMMA WakeInit == Init => OutputInHand
<1> SUFFICES ASSUME Init PROVE OutputInHand
  OBVIOUS
<1>1. PICK x : crHist = <<x>>
  BY DEF Init
<1>2. \A i \in DOMAIN crHist : crHist[i] = Live(crHist)
  BY <1>1 DEF Live
<1>3. ChangesWake
  BY <1>2, KeptReflexive DEF ChangesWake
<1> QED BY <1>3 DEF Init, OutputInHand, SeenCurrent, WrittenBody, IdleConverged, PastGather


(* An idle operator that sees no ConfigMap did not see one before, and its *)
(* bootstrap has not come further, or the process has just begun.          *)
LEMMA MissingBefore ==
  ASSUME BaseInv, OutputInHand, [Next]_vars,
         up', pc' = "idle", ~ queued', Cached(cmHist') = Absent
  PROVE  \/ boot' = "get"
         \/ /\ up /\ pc = "idle" /\ ~ queued /\ Cached(cmHist) = Absent
            /\ boot \in BeforeCM => boot' \in BeforeCM
<1>0. cmHist \in Seq(ConfigMaps) /\ cmHist # <<>>
  BY DEF BaseInv, TypeOK
<1>1. CASE UNCHANGED <<up, pc, queued, cmHist, boot>>
  BY <1>1
<1>2. CASE UserEdit \/ (\E k \in Keys : UpdateStatus(k)) \/ (\E k \in Keys : StatusError(k))
           \/ UNCHANGED vars
  BY <1>1, <1>2 DEF UserEdit, UpdateStatus, StatusError, vars, process, locals, bootVars
<1>3. CASE Tamper
  <2>1. /\ UNCHANGED <<up, pc, queued, boot>>
        /\ \E cm \in {Absent, NoKey} \cup Foreign : cmHist' = Push(cmHist, cm)
    BY <1>3 DEF Tamper, process, locals, bootVars
  <2>2. Cached(cmHist') = Cached(cmHist)
    <3>1. PICK cm \in ConfigMaps : cmHist' = Append(cmHist, cm)
      BY <2>1 DEF Push, ConfigMaps
    <3> QED BY <1>0, <3>1, AppendFacts
  <2> QED BY <2>1, <2>2
<1>4. CASE DeliverCR \/ RelistCR
  BY <1>4 DEF DeliverCR, RelistCR, locals, bootVars
<1>5. CASE DeliverCM \/ RelistCM
  <2>1. /\ UNCHANGED <<up, pc, boot>>
        /\ \/ queued' = (queued \/ outputCMPredicate(cmHist[1], cmHist[2]))
           \/ queued' = (queued \/ outputCMPredicate(Cached(cmHist), Live(cmHist)))
    BY <1>5 DEF DeliverCM, RelistCM, locals, bootVars
  <2>2. ~ queued /\ Cached(cmHist) = Absent
    BY <2>1 DEF outputCMPredicate, Cached
  <2> QED BY <2>1, <2>2
<1>6. CASE CheckDrift \/ Gather \/ ApplyGet \/ PatchCM \/ ReGet \/ APIError
  BY <1>6 DEF CheckDrift, Gather, ApplyGet, PatchCM, ReGet, APIError, Applied,
       FailReconcile
<1>7. CASE ReconcileDone
  <2>1. UNCHANGED cmHist /\ pc = "status" /\ queued' = (queued \/ conflictHit)
    BY <1>7 DEF ReconcileDone
  <2> QED BY <2>1 DEF OutputInHand, WrittenBody
<1>8. CASE BootStep
  <2>1. UNCHANGED <<up, pc, queued>> /\ up
    BY <1>8 DEF BootStep, BootGet, BootApplyGet, BootPatch, BootReGet, BootSet, Exit,
         locals, BaseInv, PhaseInv
  <2>2. CASE UNCHANGED cmHist
    <3>1. EmptyBody # Absent
      BY EmptyBodyType, DistinctAssumption
    <3> QED BY <1>8, <2>1, <2>2, <3>1
            DEF BootStep, BootGet, BootApplyGet, BootPatch, BootReGet, BootSet, Exit,
                BeforeCM
  <2>3. CASE ~ UNCHANGED cmHist
    <3>1. boot = "patch" /\ boot' = "reget" /\ ServerSideApply(EmptyBody)
      BY <1>8, <2>1, <2>3 DEF BootStep, BootGet, BootApplyGet, BootPatch, BootReGet,
           BootSet, Exit
    <3>2. cmHist' = Append(cmHist, EmptyBody) /\ EmptyBody \in ConfigMaps
      BY <2>1, <2>3, <3>1, EmptyBodyType DEF ServerSideApply, Push, ConfigMaps
    <3>3. Cached(cmHist') = Cached(cmHist)
      BY <1>0, <3>2, AppendFacts
    <3> QED BY <2>1, <3>1, <3>3 DEF BeforeCM
  <2> QED BY <2>2, <2>3
<1>9. CASE Crash
  BY <1>9 DEF Crash, Exit
<1>10. CASE Restart
  BY <1>10 DEF Restart, bootVars, BaseInv, PhaseInv
<1> QED
  BY <1>2, <1>3, <1>4, <1>5, <1>6, <1>7, <1>8, <1>9, <1>10 DEF Next, ReconcileStep

LEMMA AwaitedNext ==
  ASSUME BaseInv, OutputInHand, ConfigMapAwaited, [Next]_vars
  PROVE  ConfigMapAwaited'
BY MissingBefore DEF ConfigMapAwaited, BeforeCM

-----------------------------------------------------------------------------
(* StatusInHand, action by action.                                         *)

(* No step takes a failed status write back.                               *)
LEMMA StatusErrorsStay ==
  ASSUME BaseInv, [Next]_vars, used'["statusError"] = 0
  PROVE  /\ used["statusError"] = 0
         /\ \A k \in Keys : ~ StatusError(k)
<1>1. used \in [Disturbances -> Nat]
  BY DEF BaseInv, TypeOK
<1>2. ASSUME NEW kind \in Disturbances, Spend(kind)
      PROVE  used["statusError"] = 0 /\ kind # "statusError"
  BY <1>1, <1>2 DEF Spend, Disturbances
<1>3. \A k \in Keys : ~ StatusError(k)
  BY <1>2 DEF StatusError, Disturbances
<1>4. CASE UNCHANGED used
  BY <1>3, <1>4
<1>5. CASE \E kind \in Disturbances : Spend(kind)
  BY <1>2, <1>3, <1>5
<1> QED
  BY <1>3, <1>4, <1>5
     DEF Next, ReconcileStep, BootStep, UserEdit, Tamper, DeliverCR, DeliverCM,
         RelistCR, RelistCM, CheckDrift, Gather, ApplyGet, PatchCM, ReGet,
         UpdateStatus, ReconcileDone, APIError, BootGet, BootApplyGet, BootPatch,
         BootReGet, BootSet, Crash, Restart, Disturbances, vars

(* The steps that leave nothing to see to, or have it still before them.   *)
LEMMA HandFree ==
  ASSUME queued' \/ ~ up' \/ ~ NoWakeupPending'
         \/ pc' \in {"gather", "apply", "patch", "reget"}
  PROVE  StatusInHand'
BY DEF StatusInHand

(* What the reconcile listed and what is live are the same CRs, unless one *)
(* will be woken.                                                          *)
LEMMA SeenPresent ==
  ASSUME OutputInHand, PastGather, ~ queued, NoWakeupPending,
         NEW k \in Keys, ~ Observed(Live(crHist)[k])
  PROVE  k \in Present(seen) /\ ~ Observed(seen[k])
<1>1. Kept(seen, Live(crHist))
  BY DEF OutputInHand, SeenCurrent
<1>2. Live(crHist)[k] # Absent /\ ~ Observed(seen[k])
  BY <1>1 DEF Observed, Kept
<1> QED BY <1>2 DEF Present, Observed

LEMMA HandUpdateStatus ==
  ASSUME BaseInv, OutputInHand, StatusInHand, NEW k \in Keys, UpdateStatus(k)
  PROVE  StatusInHand'
<1>0. /\ UNCHANGED <<up, queued, pc, used, seen>>
      /\ pc = "status" /\ todo' = todo \ {k} /\ k \in todo
  BY DEF UpdateStatus
<1> SUFFICES ASSUME up, ~ queued, NoWakeupPending', used["statusError"] = 0,
                    NEW j \in Keys, ~ Observed(Live(crHist')[j])
             PROVE  j \in todo' \/ conflictHit'
  BY <1>0 DEF StatusInHand
<1>1. CASE NeedsUpdate(k) /\ WriteStatus(k) /\ UNCHANGED conflictHit
  <2>1. PICK x \in Snapshots : /\ crHist' = Push(crHist, x)
                               /\ Live(crHist') = x
                               /\ Kept(Live(crHist), x)
                               /\ Observed(x[k])
                               /\ \A i \in Keys \ {k} : x[i] = Live(crHist)[i]
    BY <1>0, <1>1, StatusWriteKeeps
  <2>2. NoWakeupPending
    BY <2>1, AppendWake DEF Push, OutputInHand
  <2>3. j # k /\ ~ Observed(Live(crHist)[j])
    BY <2>1
  <2> QED BY <1>0, <1>1, <2>2, <2>3 DEF StatusInHand
<1>2. CASE /\ UNCHANGED crHist
           /\ \/ ~ NeedsUpdate(k) /\ UNCHANGED conflictHit
              \/ conflictHit' = (conflictHit \/ Live(crHist)[k] # Absent)
  <2>1. UNCHANGED crHist /\ (conflictHit => conflictHit')
    <3>1. UNCHANGED crHist
      BY <1>2
    <3>2. CASE UNCHANGED conflictHit
      BY <3>1, <3>2
    <3>3. CASE conflictHit' = (conflictHit \/ Live(crHist)[k] # Absent)
      <4> DEFINE live == Live(crHist)[k] # Absent
      <4>1. conflictHit \in BOOLEAN /\ live \in BOOLEAN
        BY DEF BaseInv, TypeOK
      <4> HIDE DEF live
      <4>2. conflictHit' = (conflictHit \/ live)
        BY <3>3, Zenon DEF live
      <4>3. conflictHit => conflictHit'
        BY <4>1, <4>2, Zenon
      <4> QED BY <3>1, <4>3
    <3> QED BY <1>2, <3>2, <3>3
  <2>2. NoWakeupPending /\ ~ Observed(Live(crHist)[j])
    BY <2>1, SameCRs
  <2>3. CASE j # k
    BY <1>0, <2>1, <2>2, <2>3 DEF StatusInHand
  <2>4. CASE j = k
    <3>1. k \in Present(seen) /\ ~ Observed(seen[k])
      BY <1>0, <2>2, <2>4, SeenPresent DEF PastGather
    <3>2. seen[k].status.observedGeneration # DesiredStatus(k).observedGeneration
      <4>1. body \in Bodies /\ seen \in Snapshots
        BY <1>0 DEF BaseInv, PhaseInv, PastGather, TypeOK
      <4>2. DesiredStatus(k).observedGeneration = seen[k].generation
        BY <3>1, <4>1, StatusType DEF DesiredStatus, Present
      <4> QED BY <3>1, <4>2 DEF Observed
    <3>3. NeedsUpdate(k)
      BY <3>2 DEF NeedsUpdate
    <3>4. Live(crHist)[k] # Absent
      BY <2>2, <2>4 DEF Observed
    <3> QED BY <1>2, <3>3, <3>4
  <2> QED BY <2>3, <2>4
<1> QED BY <1>1, <1>2 DEF UpdateStatus

(* The reconcile takes up every CR it has listed.                          *)
LEMMA HandApplied ==
  ASSUME BaseInv, OutputInHand, PastGather, Applied,
         UNCHANGED <<crHist, up, queued, seen>>
  PROVE  StatusInHand'
<1>1. pc' = "status" /\ todo' = Present(seen)
  BY DEF Applied
<1>2. NoWakeupPending' <=> NoWakeupPending
  BY SameCRs
<1> QED BY <1>1, <1>2, SeenPresent DEF StatusInHand

(* A step that leaves the CRs and their statuses alone.                    *)
LEMMA HandUntouched ==
  ASSUME StatusInHand, queued => queued', used["statusError"] = 0,
         NoWakeupPending' => NoWakeupPending, Live(crHist') = Live(crHist),
         UNCHANGED <<up, pc, todo, conflictHit>>
  PROVE  StatusInHand'
BY DEF StatusInHand

LEMMA HandNext ==
  ASSUME BaseInv, OutputInHand, StatusInHand, [Next]_vars, RelistWakes
  PROVE  StatusInHand'
<1> SUFFICES ASSUME used'["statusError"] = 0
             PROVE  StatusInHand'
  BY DEF StatusInHand
<1>0. used["statusError"] = 0 /\ \A k \in Keys : ~ StatusError(k)
  BY StatusErrorsStay
<1>1. CASE UserEdit
  <2>1. PICK x \in Snapshots : /\ crHist' = Push(crHist, x)
                               /\ GenerationChanged(Live(crHist), x)
    BY <1>1, EditWakes
  <2>2. CASE up
    BY <2>1, <2>2, AppendWake, HandFree DEF Push, OutputInHand
  <2>3. CASE ~ up
    BY <1>1, <2>3, HandFree DEF UserEdit
  <2> QED BY <2>2, <2>3
<1>2. CASE DeliverCR
  <2>1. /\ crHist' = Tail(crHist) /\ Len(crHist) > 1
        /\ queued' = (queued \/ GenerationChanged(crHist[1], crHist[2]))
        /\ UNCHANGED <<up, pc, todo, conflictHit>>
    BY <1>2 DEF DeliverCR, locals
  <2>2. Live(crHist') = Live(crHist)
    BY <2>1, TailFacts DEF BaseInv, TypeOK
  <2>3. NoWakeupPending' /\ ~ queued' => NoWakeupPending
    BY <2>1, TailWake DEF OutputInHand
  <2> QED BY <1>0, <2>1, <2>2, <2>3, HandFree, HandUntouched
<1>3. CASE RelistCR
  <2>1. /\ crHist' = <<Live(crHist)>>
        /\ queued' = (queued \/ GenerationChanged(Cached(crHist), Live(crHist)))
        /\ UNCHANGED <<up, pc, todo, conflictHit>>
    BY <1>3 DEF RelistCR, locals
  <2>2. Live(crHist') = Live(crHist)
    BY <2>1, TypeFacts, SingletonFacts DEF BaseInv
  <2>3. ~ queued' => NoWakeupPending
    BY <1>3, <2>1 DEF RelistWakes
  <2> QED BY <1>0, <2>1, <2>2, <2>3, HandFree, HandUntouched
<1>4. CASE UNCHANGED <<crHist, up, pc, todo, conflictHit>> /\ (queued => queued')
  BY <1>0, <1>4, SameCRs, HandUntouched
<1>5. CASE CheckDrift \/ Gather \/ PatchCM \/ APIError
  BY <1>5, HandFree DEF CheckDrift, Gather, PatchCM, APIError, FailReconcile
<1>6. CASE ApplyGet \/ ReGet
  <2>1. \/ queued' \/ pc' = "patch"
        \/ Applied /\ PastGather /\ UNCHANGED <<crHist, up, queued, seen>>
    BY <1>6 DEF ApplyGet, ReGet, FailReconcile, PastGather
  <2> QED BY <2>1, HandApplied, HandFree
<1>7. CASE ReconcileDone
  <2>1. /\ UNCHANGED crHist /\ UNCHANGED up
        /\ pc = "status" /\ todo = {}
        /\ queued' = (queued \/ conflictHit)
    BY <1>7 DEF ReconcileDone
  <2>2. NoWakeupPending' => NoWakeupPending
    BY <2>1, SameCRs
  <2> QED BY <1>0, <2>1, <2>2 DEF StatusInHand
<1>8. CASE Exit
  BY <1>8, HandFree DEF Exit
<1>9. CASE Restart
  <2>1. UNCHANGED crHist /\ (~ queued' => Present(Live(crHist)) = {})
    BY <1>9 DEF Restart
  <2> QED BY <2>1 DEF StatusInHand, Present, Observed
<1>10. CASE Tamper \/ DeliverCM \/ RelistCM \/ UNCHANGED vars
  <2>1. UNCHANGED <<crHist, up, pc, todo, conflictHit>>
    BY <1>10 DEF Tamper, DeliverCM, RelistCM, vars, process, locals
  <2>2. \/ UNCHANGED queued
        \/ \E wakes : queued' = (queued \/ wakes)
    BY <1>10 DEF Tamper, DeliverCM, RelistCM, vars, process
  <2> QED BY <1>4, <2>1, <2>2
<1>11. CASE BootStep
  <2>1. Exit \/ UNCHANGED <<crHist, up, queued, locals>>
    BY <1>11 DEF BootStep, BootGet, BootApplyGet, BootPatch, BootReGet, BootSet
  <2> QED BY <1>4, <1>8, <2>1 DEF locals
<1>12. CASE Crash
  BY <1>8, <1>12 DEF Crash
<1> QED
  BY <1>0, <1>1, <1>2, <1>3, <1>5, <1>6, <1>7, <1>9, <1>10, <1>11, <1>12,
     HandUpdateStatus DEF Next, ReconcileStep

-----------------------------------------------------------------------------
(* An operator that lists anew after its CR watch broke must be woken by   *)
(* the list; what follows from that, and when it is so.                    *)
RelistsWake == [][RelistWakes]_vars

LEMMA WakeupInit == Init => WakeupInv
BY WakeInit DEF Init, WakeupInv, StatusInHand, ConfigMapAwaited

LEMMA WakeupStep ==
  ASSUME BaseInv, BodyFromSeen, WakeupInv, [Next]_vars, [RelistWakes]_vars
  PROVE  WakeupInv'
<1>1. CASE RelistWakes
  BY <1>1, WakeNext, AwaitedNext, HandNext DEF WakeupInv
<1>2. CASE UNCHANGED vars
  <2>1. UNCHANGED crHist /\ UNCHANGED used
    BY <1>2 DEF vars
  <2>2. OutputInHand'
    BY <1>2, WakeUntouched DEF vars, process, locals, bootVars, WakeupInv
  <2>3. StatusInHand'
    BY <1>2, <2>1, SameCRs DEF WakeupInv, StatusInHand, vars, process, locals
  <2> QED BY <2>2, <2>3, AwaitedNext DEF WakeupInv
<1> QED BY <1>1, <1>2

(* Whatever is still to be done is remembered by the queue, by a running   *)
(* reconcile or by an event on its way.                                    *)
THEOREM WorkIsRemembered == Spec /\ RelistsWake => []WakeupInv
BY WakeupInit, WakeupStep, BaseInvariant, BodyInvariant, PTL DEF Spec, RelistsWake

(* At rest no event is on its way.                                         *)
LEMMA RestPendsNothing ==
  ASSUME Settled
  PROVE  NoWakeupPending
<1>1. 1 .. Len(crHist) - 1 = {}
  BY DEF Settled
<1> QED BY <1>1 DEF NoWakeupPending

(* At rest nothing is left to remember.                                    *)
LEMMA RestConverged ==
  ASSUME WakeupInv
  PROVE  SettledConverged
<1> SUFFICES ASSUME Settled PROVE Converged
  BY DEF SettledConverged
<1>1. Cached(cmHist) # Absent
  BY DEF Settled, WakeupInv, ConfigMapAwaited, BeforeCM
<1>2. NoWakeupPending
  BY RestPendsNothing
<1> QED BY <1>1, <1>2 DEF Settled, WakeupInv, OutputInHand, IdleConverged

(* No wake-up is lost.  An operator that has come to rest has written the  *)
(* union of all valid CRs, for any number of CRs, edits, third-party       *)
(* writes, failed calls, restarts and broken watches.                      *)
THEOREM NoLostWakeup == Spec /\ RelistsWake => []SettledConverged
BY RestConverged, WorkIsRemembered, PTL

LEMMA RestObserved ==
  ASSUME WakeupInv
  PROVE  SettledObserved
<1> SUFFICES ASSUME Settled, used["statusError"] = 0, NEW k \in Present(Live(crHist))
             PROVE  Live(crHist)[k].status.observedGeneration
                      = Live(crHist)[k].generation
  BY DEF SettledObserved
<1>1. NoWakeupPending
  BY RestPendsNothing
<1>2. k \in Keys /\ Live(crHist)[k] # Absent
  BY DEF Present
<1>3. Observed(Live(crHist)[k])
  BY <1>1, <1>2 DEF Settled, WakeupInv, StatusInHand
<1> QED BY <1>2, <1>3 DEF Observed

(* And it has brought every status up to its CR's generation, whatever was *)
(* edited while the statuses were written, unless such a write failed.     *)
THEOREM StatusesCatchUp == Spec /\ RelistsWake => []SettledObserved
BY RestObserved, WorkIsRemembered, PTL

-----------------------------------------------------------------------------
(* When a list wakes the operator.                                         *)

(* Without broken watches there is nothing to ask of the lists.            *)
THEOREM UnbrokenWatchesSuffice ==
  Limit["relistCR"] = 0 /\ Spec => RelistsWake
<1> SUFFICES ASSUME Limit["relistCR"] = 0
             PROVE  Spec => RelistsWake
  OBVIOUS
<1>1. ASSUME BaseInv, [Next]_vars
      PROVE  [RelistWakes]_vars
  <2>1. used["relistCR"] \in Nat
    BY <1>1 DEF BaseInv, TypeOK, Disturbances
  <2>2. ~ RelistCR
    BY <2>1 DEF RelistCR, Spend
  <2> QED BY <2>2 DEF RelistWakes
<1> QED BY <1>1, BaseInvariant, PTL DEF Spec, RelistsWake

(* No CR is deleted from one snapshot to a later one, and none is          *)
(* replaced by a namesake: generations only grow.                          *)
Grows(old, new) ==
  \A k \in Keys :
    old[k] # Absent => /\ new[k] # Absent
                       /\ old[k].generation <= new[k].generation

Growing ==
  \A i, j \in DOMAIN crHist : i <= j => Grows(crHist[i], crHist[j])

Undeleted ==
  \A k \in Keys : Live(crHist)[k] # Absent => Live(crHist')[k] # Absent

LEMMA GrowsReflexive ==
  ASSUME NEW crs \in Snapshots
  PROVE  Grows(crs, crs)
<1>1. \A k \in Keys : crs[k] # Absent => crs[k].generation \in Nat
  BY PresentType DEF CRs
<1> QED BY <1>1 DEF Grows

LEMMA GrowsTransitive ==
  ASSUME NEW a \in Snapshots, NEW b \in Snapshots, NEW c \in Snapshots,
         Grows(a, b), Grows(b, c)
  PROVE  Grows(a, c)
<1> SUFFICES ASSUME NEW k \in Keys, a[k] # Absent
             PROVE  c[k] # Absent /\ a[k].generation <= c[k].generation
  BY DEF Grows
<1>1. /\ b[k] # Absent /\ c[k] # Absent
      /\ a[k].generation <= b[k].generation
      /\ b[k].generation <= c[k].generation
  BY DEF Grows
<1>2. /\ a[k].generation \in Nat /\ b[k].generation \in Nat
      /\ c[k].generation \in Nat
  BY <1>1, PresentType DEF CRs
<1> QED BY <1>1, <1>2

LEMMA LiveGrows ==
  ASSUME BaseInv, [Next]_vars, Undeleted
  PROVE  Grows(Live(crHist), Live(crHist'))
<1>0. Live(crHist) \in Snapshots
  BY TypeFacts DEF BaseInv
<1>1. ASSUME NEW k \in Keys, NEW cr \in CRs \cup {Absent}, WriteCR(k, cr),
             Live(crHist)[k] # Absent =>
               cr # Absent /\ Live(crHist)[k].generation <= cr.generation
      PROVE  Grows(Live(crHist), Live(crHist'))
  <2>1. Live(crHist') = [Live(crHist) EXCEPT ![k] = cr]
    BY <1>1, WriteCRType DEF BaseInv
  <2>2. /\ Live(crHist')[k] = cr
        /\ \A j \in Keys \ {k} : Live(crHist')[j] = Live(crHist)[j]
    BY <1>0, <2>1 DEF Snapshots
  <2>3. Grows(Live(crHist), Live(crHist))
    BY <1>0, GrowsReflexive
  <2> QED BY <1>1, <2>2, <2>3 DEF Grows
<1>2. CASE Live(crHist') = Live(crHist)
  BY <1>0, <1>2, GrowsReflexive
<1>3. CASE UserEdit
  <2>1. PICK k \in Keys : \/ \E spec \in Specs : CreateCR(k, spec) \/ UpdateSpec(k, spec)
                         \/ DeleteCR(k)
    BY <1>3 DEF UserEdit
  <2>2. ASSUME NEW spec \in Specs, CreateCR(k, spec)
        PROVE  Grows(Live(crHist), Live(crHist'))
    BY <1>1, <2>2, NewCRType DEF CreateCR
  <2>3. ASSUME NEW spec \in Specs, UpdateSpec(k, spec)
        PROVE  Grows(Live(crHist), Live(crHist'))
    <3> DEFINE old == Live(crHist)[k]
               new == [old EXCEPT !.spec = spec, !.generation = @ + 1]
    <3>1. old \in CRs /\ WriteCR(k, new)
      BY <1>0, <2>3, PresentType DEF UpdateSpec
    <3>2. new \in CRs /\ new # Absent
      BY <3>1, UpdatedCRType, DistinctAssumption
    <3>3. old.generation <= new.generation
      BY <3>1 DEF CRs
    <3> HIDE DEF new
    <3> QED BY <1>1, <3>1, <3>2, <3>3
  <2>4. ASSUME DeleteCR(k)
        PROVE  FALSE
    <3>1. Live(crHist)[k] # Absent /\ WriteCR(k, Absent)
      BY <2>4 DEF DeleteCR
    <3>2. Live(crHist')[k] = Absent
      BY <1>0, <3>1, WriteCRType DEF BaseInv, Snapshots
    <3> QED BY <3>1, <3>2 DEF Undeleted
  <2> QED BY <2>1, <2>2, <2>3, <2>4
<1>4. ASSUME NEW k \in Keys, pc = "status", WriteStatus(k)
      PROVE  Grows(Live(crHist), Live(crHist'))
  <2> DEFINE old == Live(crHist)[k]
             new == [old EXCEPT !.status = DesiredStatus(k)]
  <2>1. old \in CRs /\ new \in CRs /\ new # Absent /\ WriteCR(k, new)
    BY <1>4, StatusWriteFacts, DistinctAssumption
  <2>2. old.generation <= new.generation
    BY <2>1 DEF CRs
  <2> HIDE DEF new
  <2> QED BY <1>1, <2>1, <2>2
<1> QED BY <1>2, <1>3, <1>4, LiveCRSteps

(* The CRs' history is left alone, extended by what is now live, shortened *)
(* by a delivery, or begun anew.                                           *)
LEMMA HistorySteps ==
  ASSUME BaseInv, [Next]_vars
  PROVE  \/ UNCHANGED crHist
         \/ crHist' = Append(crHist, Live(crHist'))
         \/ Len(crHist) > 1 /\ crHist' = Tail(crHist)
         \/ crHist' = <<Live(crHist')>>
<1>1. ASSUME NEW k \in Keys, NEW cr \in CRs \cup {Absent}, WriteCR(k, cr)
      PROVE  \/ crHist' = Append(crHist, Live(crHist'))
             \/ crHist' = <<Live(crHist')>>
  <2>1. Live(crHist') = [Live(crHist) EXCEPT ![k] = cr]
    BY <1>1, WriteCRType DEF BaseInv
  <2> QED BY <1>1, <2>1 DEF WriteCR, Push
<1>2. CASE UserEdit
  <2>1. PICK x \in Snapshots : crHist' = Push(crHist, x)
    BY <1>2, EditWakes
  <2>2. Live(crHist') = x
    BY <2>1, PushFacts DEF BaseInv, TypeOK
  <2> QED BY <2>1, <2>2 DEF Push
<1>3. ASSUME NEW k \in Keys, UpdateStatus(k) \/ StatusError(k)
      PROVE  UNCHANGED crHist \/ (pc = "status" /\ WriteStatus(k))
  BY <1>3, StatusStep
<1>4. ASSUME NEW k \in Keys, pc = "status", WriteStatus(k)
      PROVE  \/ crHist' = Append(crHist, Live(crHist'))
             \/ crHist' = <<Live(crHist')>>
  BY <1>1, <1>4, StatusWriteFacts
<1>5. CASE DeliverCR
  BY <1>5 DEF DeliverCR
<1>6. CASE crHist' = <<Live(crHist)>>
  <2>1. Live(crHist') = Live(crHist)
    BY <1>6, TypeFacts, SingletonFacts DEF BaseInv
  <2> QED BY <1>6, <2>1
<1>7. CASE DeliverCM \/ RelistCM \/ Tamper \/ CheckDrift \/ Gather \/ ApplyGet
           \/ PatchCM \/ ReGet \/ APIError \/ ReconcileDone \/ Restart
           \/ UNCHANGED vars
  BY <1>7 DEF DeliverCM, RelistCM, Tamper, CheckDrift, Gather, ApplyGet,
       PatchCM, ReGet, APIError, ReconcileDone, Restart, vars
<1>8. CASE BootStep \/ Crash \/ RelistCR
  BY <1>6, <1>8 DEF BootStep, BootGet, BootApplyGet, BootPatch, BootReGet,
       BootSet, Crash, Exit, RelistCR
<1> QED
  BY <1>2, <1>3, <1>4, <1>5, <1>7, <1>8 DEF Next, ReconcileStep

LEMMA GrowingStep ==
  ASSUME BaseInv, Growing, [Next]_vars, Undeleted
  PROVE  Growing'
<1> DEFINE n == Len(crHist)
<1>0. /\ n \in Nat \ {0} /\ DOMAIN crHist = 1 .. n
      /\ \A i \in 1 .. n : crHist[i] \in Snapshots
      /\ BaseInv' /\ Live(crHist') \in Snapshots
  <2>1. BaseInv'
    BY BaseNext
  <2>2. Live(crHist') \in Snapshots
    BY <2>1, HistoryFacts DEF BaseInv, TypeOK
  <2> QED BY <2>1, <2>2, HistoryFacts DEF BaseInv, TypeOK
<1>1. CASE UNCHANGED crHist
  BY <1>1 DEF Growing
<1>2. CASE crHist' = Append(crHist, Live(crHist'))
  <2> DEFINE x == Live(crHist')
  <2>1. /\ DOMAIN crHist' = 1 .. n + 1
        /\ \A i \in 1 .. n : crHist'[i] = crHist[i]
        /\ crHist'[n + 1] = x
    <3>1. crHist' = Append(crHist, x) /\ x \in Snapshots
      BY <1>0, <1>2
    <3> HIDE DEF x
    <3>2. crHist \in Seq(Snapshots) /\ crHist # <<>>
      BY DEF BaseInv, TypeOK
    <3>3. /\ Len(crHist') = n + 1
          /\ \A i \in 1 .. n : crHist'[i] = crHist[i]
          /\ crHist'[n + 1] = x
          /\ crHist' \in Seq(Snapshots) /\ crHist' # <<>>
      BY <3>1, <3>2, AppendFacts
    <3> QED BY <3>3, HistoryFacts
  <2>2. \A i \in 1 .. n : Grows(crHist[i], x)
    <3> SUFFICES ASSUME NEW i \in 1 .. n PROVE Grows(crHist[i], x)
      OBVIOUS
    <3>1. Grows(crHist[i], Live(crHist))
      BY <1>0 DEF Growing, Live
    <3>2. Grows(Live(crHist), x) /\ Live(crHist) \in Snapshots
      BY LiveGrows, TypeFacts DEF BaseInv
    <3> HIDE DEF x
    <3> QED BY <1>0, <3>1, <3>2, GrowsTransitive DEF x
  <2>3. Grows(x, x)
    BY <1>0, GrowsReflexive
  <2>4. ASSUME NEW i \in 1 .. n + 1, NEW j \in 1 .. n + 1, i <= j
        PROVE  Grows(crHist'[i], crHist'[j])
    <3> HIDE DEF x
    <3>1. CASE j = n + 1 /\ i = n + 1
      BY <2>1, <2>3, <3>1
    <3>2. CASE j = n + 1 /\ i # n + 1
      <4>1. i \in 1 .. n
        BY <1>0, <3>2
      <4> QED BY <2>1, <2>2, <3>2, <4>1
    <3>3. CASE j # n + 1
      <4>1. i \in 1 .. n /\ j \in 1 .. n
        BY <1>0, <2>4, <3>3
      <4> QED BY <1>0, <2>1, <2>4, <4>1 DEF Growing
    <3> QED BY <3>1, <3>2, <3>3
  <2> QED BY <2>1, <2>4 DEF Growing
<1>3. CASE n > 1 /\ crHist' = Tail(crHist)
  <2>1. /\ DOMAIN crHist' = 1 .. n - 1
        /\ \A i \in 1 .. n - 1 : crHist'[i] = crHist[i+1]
    BY <1>0, <1>3, HistoryFacts, TailFacts DEF BaseInv, TypeOK
  <2>2. ASSUME NEW i \in 1 .. n - 1, NEW j \in 1 .. n - 1, i <= j
        PROVE  Grows(crHist[i + 1], crHist[j + 1])
    <3>1. i + 1 \in 1 .. n /\ j + 1 \in 1 .. n /\ i + 1 <= j + 1
      BY <1>0, <2>2
    <3> QED BY <1>0, <3>1 DEF Growing
  <2> QED BY <2>1, <2>2 DEF Growing
<1>4. CASE crHist' = <<Live(crHist')>>
  <2>1. DOMAIN crHist' = {1} /\ crHist'[1] = Live(crHist')
    <3> DEFINE x == Live(crHist')
    <3>1. crHist' = <<x>>
      BY <1>4
    <3>2. DOMAIN <<x>> = {1} /\ <<x>>[1] = x
      OBVIOUS
    <3> QED BY <3>1, <3>2
  <2> QED BY <1>0, <2>1, GrowsReflexive DEF Growing
<1> QED BY <1>1, <1>2, <1>3, <1>4, HistorySteps

(* Where generations only grow, no sequence of events cancels out.         *)
LEMMA GrowingWakes ==
  ASSUME BaseInv, Growing, ~ NoWakeupPending
  PROVE  GenerationChanged(Cached(crHist), Live(crHist))
<1> DEFINE n == Len(crHist)
<1>1. PICK j \in 1 .. n - 1 : GenerationChanged(crHist[j], crHist[j+1])
  BY DEF NoWakeupPending
<1>2. /\ n \in Nat \ {0} /\ DOMAIN crHist = 1 .. n
      /\ \A i \in 1 .. n : crHist[i] \in Snapshots
      /\ 1 \in 1 .. n /\ n \in 1 .. n /\ j \in 1 .. n /\ j + 1 \in 1 .. n
      /\ 1 <= j /\ j <= j + 1 /\ j + 1 <= n
  BY HistoryFacts DEF BaseInv, TypeOK
<1>3. /\ Grows(Cached(crHist), crHist[j])
      /\ Grows(crHist[j], crHist[j+1])
      /\ Grows(crHist[j+1], Live(crHist))
  BY <1>2 DEF Growing, Cached, Live
<1>4. PICK k \in Keys : \/ (crHist[j][k] = Absent) # (crHist[j+1][k] = Absent)
                        \/ /\ crHist[j][k] # Absent
                           /\ crHist[j+1][k] # Absent
                           /\ crHist[j][k].generation # crHist[j+1][k].generation
  BY <1>1 DEF GenerationChanged
<1>5. crHist[j+1][k] # Absent /\ Live(crHist)[k] # Absent
  BY <1>3, <1>4 DEF Grows
<1>6. CASE Cached(crHist)[k] = Absent
  BY <1>5, <1>6 DEF GenerationChanged
<1>7. CASE Cached(crHist)[k] # Absent
  <2>1. /\ crHist[j][k] # Absent
        /\ crHist[j][k].generation # crHist[j+1][k].generation
        /\ Cached(crHist)[k].generation <= crHist[j][k].generation
        /\ crHist[j][k].generation <= crHist[j+1][k].generation
        /\ crHist[j+1][k].generation <= Live(crHist)[k].generation
    BY <1>3, <1>4, <1>5, <1>7 DEF Grows
  <2>2. /\ Cached(crHist)[k].generation \in Nat
        /\ crHist[j][k].generation \in Nat
        /\ crHist[j+1][k].generation \in Nat
        /\ Live(crHist)[k].generation \in Nat
    BY <1>2, <1>5, <1>7, <2>1, TypeFacts, PresentType DEF BaseInv, CRs
  <2>3. Cached(crHist)[k].generation # Live(crHist)[k].generation
    BY <2>1, <2>2
  <2> QED BY <1>5, <1>7, <2>3 DEF GenerationChanged
<1> QED BY <1>6, <1>7

(* A broken watch alone loses nothing: as long as no CR is deleted, the    *)
(* operator that comes to rest has written the union of all valid CRs and  *)
(* looked at every generation, however often it had to list anew.          *)
THEOREM LossNeedsDeletion ==
  Spec /\ [][Undeleted]_vars => [](SettledConverged /\ SettledObserved)
<1>1. Init => Growing
  <2> SUFFICES ASSUME Init PROVE Growing
    OBVIOUS
  <2>1. BaseInv
    BY BaseInit
  <2>2. Len(crHist) = 1
    BY DEF Init
  <2>3. DOMAIN crHist = 1 .. 1 /\ crHist[1] \in Snapshots
    BY <2>1, <2>2, HistoryFacts DEF BaseInv, TypeOK
  <2> QED BY <2>3, GrowsReflexive DEF Growing
<1>2. ASSUME BaseInv, Growing, [Next]_vars, [Undeleted]_vars
      PROVE  Growing'
  <2>1. CASE Undeleted
    BY <1>2, <2>1, GrowingStep
  <2>2. CASE UNCHANGED vars
    BY <1>2, <2>2 DEF vars, Growing
  <2> QED BY <1>2, <2>1, <2>2
<1>3. ASSUME BaseInv, Growing
      PROVE  [RelistWakes]_vars
  BY <1>3, GrowingWakes DEF RelistWakes
<1>4. Spec /\ [][Undeleted]_vars => RelistsWake
  BY <1>1, <1>2, <1>3, BaseInvariant, PTL DEF Spec, RelistsWake
<1> QED BY <1>4, NoLostWakeup, StatusesCatchUp, PTL

-----------------------------------------------------------------------------
(* FirstEditInStatus.                                                      *)

(* CRs with the same objects are grouped, merged, rendered and reported    *)
(* alike.                                                                  *)
LEMMA SameObject ==
  ASSUME NEW a, NEW b, Objects(a) = Objects(b), NEW k \in Keys, a[k] # Absent
  PROVE  b[k] # Absent /\ a[k].spec = b[k].spec /\ a[k].generation = b[k].generation
<1>1. Objects(a)[k] = Objects(b)[k]
  OBVIOUS
<1>2. /\ Objects(a)[k] = {<<a[k].spec, a[k].generation>>}
      /\ Objects(b)[k] = IF b[k] = Absent THEN {} ELSE {<<b[k].spec, b[k].generation>>}
  BY DEF Objects
<1>3. b[k] # Absent
  BY <1>1, <1>2
<1>4. {<<a[k].spec, a[k].generation>>} = {<<b[k].spec, b[k].generation>>}
  BY <1>1, <1>2, <1>3
<1>5. <<a[k].spec, a[k].generation>> = <<b[k].spec, b[k].generation>>
  BY <1>4
<1> QED BY <1>3, <1>5

LEMMA SameSpecs ==
  ASSUME NEW a, NEW b, Objects(a) = Objects(b)
  PROVE  SpecsOf(a) = SpecsOf(b)
<1>1. \A k \in Keys : /\ a[k] # Absent => b[k] # Absent /\ a[k].spec = b[k].spec
                      /\ b[k] # Absent => a[k] # Absent
  BY SameObject
<1> QED BY <1>1 DEF SpecsOf

LEMMA SameDue ==
  ASSUME NEW a, NEW b, Objects(a) = Objects(b), NEW k \in Keys, a[k] # Absent
  PROVE  b[k] # Absent /\ Due(a, k) = Due(b, k)
<1>1. SpecsOf(a) = SpecsOf(b) /\ b[k] # Absent /\ a[k].generation = b[k].generation
  BY SameSpecs, SameObject
<1> QED BY <1>1 DEF Due, computeDesiredStatus

LEMMA SameEvents ==
  ASSUME NEW a, NEW b, NEW c, Objects(a) = Objects(b)
  PROVE  /\ ~ GenerationChanged(a, b)
         /\ GenerationChanged(a, c) => GenerationChanged(b, c)
<1>1. \A k \in Keys :
        /\ a[k] # Absent => b[k] # Absent /\ a[k].generation = b[k].generation
        /\ b[k] # Absent => a[k] # Absent
  BY SameObject
<1> QED BY <1>1 DEF GenerationChanged

(* A status a reconcile gives is not that of a new CR.                     *)
LEMMA DueNotNew ==
  ASSUME NEW crs \in Snapshots, NEW k \in Keys, crs[k] # Absent
  PROVE  Due(crs, k) # NoStatus
<1>1. crs[k].generation \in Nat \ {0}
  BY PresentType DEF CRs
<1>2. Due(crs, k).observedGeneration = crs[k].generation
  BY StatusType, DesiredType DEF Due
<1> QED BY <1>1, <1>2 DEF NoStatus

(* It is the one this reconcile gives.                                     *)
LEMMA DesiredIsDue ==
  ASSUME BodyFromSeen, PastGather, NEW k \in Keys
  PROVE  DesiredStatus(k) = Due(seen, k)
BY DEF BodyFromSeen, DesiredStatus, Due

(* With nothing pending a reconcile works on the live objects.             *)
LEMMA SeenObjects ==
  ASSUME OutputInHand, OneEdit, PastGather, ~ queued, NoWakeupPending
  PROVE  Objects(seen) = Objects(Live(crHist))
BY DEF OutputInHand, SeenCurrent, Kept, OneEdit, BeforeThenAfter, Earliest

(* One edit at most is left to be delivered, so a list tells it.           *)
LEMMA OneEditWakes ==
  ASSUME BaseInv, OneEdit
  PROVE  RelistWakes
<1> SUFFICES ASSUME ~ NoWakeupPending
             PROVE  GenerationChanged(Cached(crHist), Live(crHist))
  BY DEF RelistWakes
<1> DEFINE n == Len(crHist)
           before == Objects(Earliest)
           after == Objects(Live(crHist))
<1>1. PICK j \in 1 .. n - 1 : GenerationChanged(crHist[j], crHist[j+1])
  BY DEF NoWakeupPending
<1>2. /\ n \in Nat \ {0} /\ DOMAIN crHist = 1 .. n
      /\ 1 \in 1 .. n /\ j \in 1 .. n /\ j + 1 \in 1 .. n
      /\ 1 <= j /\ j <= j + 1
  BY HistoryFacts DEF BaseInv, TypeOK
<1>3. Objects(crHist[j]) # Objects(crHist[j+1])
  BY <1>1, SameEvents
<1>4. Objects(crHist[j]) = before /\ before # after
  BY <1>2, <1>3 DEF OneEdit, BeforeThenAfter
<1>5. Objects(Cached(crHist)) = before
  BY <1>2, <1>4 DEF OneEdit, BeforeThenAfter, Cached
<1>6. GenerationChanged(Earliest, Live(crHist))
  BY <1>4 DEF OneEdit, BeforeThenAfter
<1> QED BY <1>5, <1>6, SameEvents

(* A step that drops the oldest CRs.                                       *)
LEMMA ForgetKeeps ==
  ASSUME BaseInv, OneEdit, used'["edit"] = used["edit"],
         NEW m \in 0 .. Len(crHist) - 1,
         DOMAIN crHist' = 1 .. Len(crHist) - m,
         \A i \in 1 .. Len(crHist) - m : crHist'[i] = crHist[i + m],
         Live(crHist') = Live(crHist),
         Earliest' = Earliest \/ Earliest' = crHist'[1]
  PROVE  OneEdit'
<1> DEFINE n == Len(crHist)
           L == Live(crHist)
           old == {Earliest} \cup { crHist[i] : i \in DOMAIN crHist }
<1>0. /\ n \in Nat \ {0} /\ DOMAIN crHist = 1 .. n
      /\ 1 \in 1 .. n - m /\ m \in Nat
      /\ \A i \in 1 .. n - m : i + m \in 1 .. n
  BY HistoryFacts DEF BaseInv, TypeOK
<1>1. \A i \in DOMAIN crHist' : crHist'[i] \in old
  BY <1>0
<1>2. Earliest' \in old
  BY <1>0, <1>1
<1>3. \A crs \in old : Objects(crs) \in {Objects(Earliest), Objects(L)}
  BY DEF OneEdit, BeforeThenAfter
<1>4. ExactStays'
  <2>1. {Earliest'} \cup { crHist'[i] : i \in DOMAIN crHist' } \subseteq old
    BY <1>1, <1>2
  <2>2. \A crs \in old : \A k \in Keys :
          Objects(crs) = Objects(L) /\ Exact(crs, k) => Exact(L, k)
    BY DEF OneEdit, ExactStays
  <2> HIDE DEF old
  <2> QED BY <2>1, <2>2 DEF ExactStays
<1>5. CASE Objects(Earliest') = Objects(Earliest)
  <2>1. /\ \A i \in DOMAIN crHist' : Objects(crHist'[i]) \in {Objects(Earliest), Objects(L)}
        /\ \A i, j \in DOMAIN crHist' :
             i <= j /\ Objects(crHist'[i]) = Objects(L) => Objects(crHist'[j]) = Objects(L)
    <3>1. \A i, j \in DOMAIN crHist' :
            i <= j => /\ i + m \in DOMAIN crHist /\ j + m \in DOMAIN crHist
                      /\ i + m <= j + m
                      /\ crHist'[i] = crHist[i + m] /\ crHist'[j] = crHist[j + m]
      BY <1>0
    <3> QED BY <1>1, <1>3, <3>1 DEF OneEdit, BeforeThenAfter
  <2>2. Objects(Earliest) # Objects(L) =>
          SpecsOf(Earliest') # SpecsOf(L) /\ GenerationChanged(Earliest', L)
    BY <1>5, SameSpecs, SameEvents DEF OneEdit, BeforeThenAfter
  <2>3. BeforeThenAfter'
    BY <1>5, <2>1, <2>2 DEF OneEdit, BeforeThenAfter
  <2>4. \A k \in Keys : Earliest[k] # Absent =>
          Earliest'[k] # Absent /\ Due(Earliest', k) = Due(Earliest, k)
    BY <1>5, SameDue
  <2>5. StatusesFromBefore'
    <3> SUFFICES ASSUME used["edit"] = 0 \/ Objects(Earliest) # Objects(L),
                        NEW i \in DOMAIN crHist', NEW k \in Present(crHist'[i])
                 PROVE  \/ crHist'[i][k].status = NoStatus
                        \/ Earliest'[k] # Absent
                           /\ crHist'[i][k].status = Due(Earliest', k)
      BY <1>5 DEF StatusesFromBefore
    <3>1. k \in Keys
      BY DEF Present
    <3>2. i + m \in DOMAIN crHist /\ crHist'[i] = crHist[i + m]
      BY <1>0
    <3>3. \/ crHist[i + m][k].status = NoStatus
          \/ Earliest[k] # Absent /\ crHist[i + m][k].status = Due(Earliest, k)
      BY <3>2 DEF OneEdit, StatusesFromBefore
    <3> QED BY <2>4, <3>1, <3>2, <3>3
  <2> QED BY <1>4, <2>3, <2>5 DEF OneEdit
<1>6. CASE Objects(Earliest') # Objects(Earliest)
  <2>1. Objects(Earliest') = Objects(L) /\ Earliest' = crHist'[1]
    BY <1>2, <1>3, <1>6
  <2>2. used["edit"] # 0
    BY <1>6, <2>1 DEF OneEdit, BeforeThenAfter
  <2>3. \A i \in DOMAIN crHist' : Objects(crHist'[i]) = Objects(L)
    <3>1. \A i \in DOMAIN crHist' :
            /\ 1 + m \in DOMAIN crHist /\ i + m \in DOMAIN crHist /\ 1 + m <= i + m
            /\ crHist'[1] = crHist[1 + m] /\ crHist'[i] = crHist[i + m]
      BY <1>0
    <3> QED BY <2>1, <3>1 DEF OneEdit, BeforeThenAfter
  <2>4. BeforeThenAfter' /\ StatusesFromBefore'
    BY <2>1, <2>2, <2>3 DEF BeforeThenAfter, StatusesFromBefore
  <2> QED BY <1>4, <2>4 DEF OneEdit
<1> QED BY <1>5, <1>6

(* A status write leaves the objects and gives the status due.             *)
LEMMA StatusWriteObjects ==
  ASSUME BaseInv, BodyFromSeen, NEW k \in Keys, pc = "status", up, WriteStatus(k)
  PROVE  /\ crHist' = Append(crHist, Live(crHist')) /\ Live(crHist') \in Snapshots
         /\ Objects(Live(crHist')) = Objects(Live(crHist))
         /\ seen[k] # Absent
         /\ Live(crHist')[k].status = Due(seen, k)
         /\ \A j \in Keys \ {k} : Live(crHist')[j] = Live(crHist)[j]
<1> DEFINE crs == Live(crHist)
           old == crs[k]
           new == [old EXCEPT !.status = DesiredStatus(k)]
           x   == [crs EXCEPT ![k] = new]
<1>1. old \in CRs /\ new \in CRs /\ WriteCR(k, new) /\ crs \in Snapshots
  BY StatusWriteFacts, TypeFacts DEF BaseInv
<1>2. new.status = Due(seen, k) /\ new.generation = old.generation /\ new.spec = old.spec
  <2>1. DesiredStatus(k) = Due(seen, k)
    BY DesiredIsDue DEF PastGather
  <2> QED BY <1>1, <2>1 DEF CRs
<1>3. old # Absent /\ new # Absent /\ seen[k] = old
  BY <1>1, StatusWriteFacts, DistinctAssumption
<1>4. crHist' = Append(crHist, x) /\ Live(crHist') = x
  BY <1>1, WriteCRType DEF WriteCR, Push, BaseInv
<1> HIDE DEF new
<1>5. x \in Snapshots /\ \A j \in Keys : x[j] = IF j = k THEN new ELSE crs[j]
  BY <1>1 DEF Snapshots
<1> HIDE DEF x
<1>6. Objects(x) = Objects(crs)
  <2> HIDE DEF crs
  <2>1. \A j \in Keys :
          (IF x[j] = Absent THEN {} ELSE {<<x[j].spec, x[j].generation>>})
            = (IF crs[j] = Absent THEN {} ELSE {<<crs[j].spec, crs[j].generation>>})
    BY <1>2, <1>3, <1>5
  <2> QED BY <2>1 DEF Objects
<1> QED BY <1>2, <1>3, <1>4, <1>5, <1>6

LEMMA StatusWriteKeepsExact ==
  ASSUME BaseInv, BodyFromSeen, OneEdit, NEW k \in Keys, pc = "status", up,
         WriteStatus(k), UNCHANGED <<pc, seen>>, used'["edit"] = used["edit"]
  PROVE  OneEdit'
<1> DEFINE n == Len(crHist)
           L == Live(crHist)
<1>0. PICK x \in Snapshots : x = Live(crHist')
  BY StatusWriteObjects
<1>1. /\ n \in Nat \ {0} /\ DOMAIN crHist' = 1 .. n + 1 /\ DOMAIN crHist = 1 .. n
      /\ n \in 1 .. n /\ L = crHist[n]
      /\ \A i \in 1 .. n : crHist'[i] = crHist[i] /\ crHist[i] \in Snapshots
      /\ crHist'[n + 1] = x
  BY <1>0, StatusWriteObjects, HistoryFacts, AppendFacts DEF BaseInv, TypeOK, Live
<1>2. Earliest' = seen /\ Earliest = seen /\ seen \in Snapshots
  BY DEF Earliest, PastGather, BaseInv, TypeOK
<1>3. Objects(x) = Objects(L)
  BY <1>0, StatusWriteObjects
<1>4. /\ seen[k] # Absent /\ x[k].status = Due(seen, k)
      /\ \A j \in Keys \ {k} : x[j] = L[j]
  BY <1>0, StatusWriteObjects
<1>5. BeforeThenAfter'
  <2>1. /\ \A i \in 1 .. n : Objects(crHist[i]) \in {Objects(seen), Objects(L)}
        /\ \A i, j \in 1 .. n :
             i <= j /\ Objects(crHist[i]) = Objects(L) => Objects(crHist[j]) = Objects(L)
        /\ Objects(seen) # Objects(L) => /\ SpecsOf(seen) # SpecsOf(L)
                                         /\ GenerationChanged(seen, L)
        /\ used["edit"] = 0 => Objects(seen) = Objects(L)
    BY <1>1, <1>2 DEF OneEdit, BeforeThenAfter
  <2>2. \A i \in 1 .. n + 1 : i \in 1 .. n \/ i = n + 1
    BY <1>1
  <2>3. \A i \in 1 .. n + 1 : Objects(crHist'[i]) \in {Objects(seen), Objects(x)}
    BY <1>1, <1>3, <2>1, <2>2
  <2>4. \A i, j \in 1 .. n + 1 :
          i <= j /\ Objects(crHist'[i]) = Objects(x) => Objects(crHist'[j]) = Objects(x)
    <3> SUFFICES ASSUME NEW i \in 1 .. n + 1, NEW j \in 1 .. n + 1, i <= j,
                        Objects(crHist'[i]) = Objects(x)
                 PROVE  Objects(crHist'[j]) = Objects(x)
      OBVIOUS
    <3>1. CASE j = n + 1
      BY <1>1, <3>1
    <3>2. CASE j # n + 1
      <4>1. i \in 1 .. n /\ j \in 1 .. n
        BY <1>1, <3>2
      <4> QED BY <1>1, <1>3, <2>1, <4>1
    <3> QED BY <3>1, <3>2
  <2>5. Objects(seen) # Objects(x) =>
          SpecsOf(seen) # SpecsOf(x) /\ GenerationChanged(seen, x)
    <3> SUFFICES ASSUME Objects(seen) # Objects(x)
                 PROVE  SpecsOf(seen) # SpecsOf(x) /\ GenerationChanged(seen, x)
      OBVIOUS
    <3>1. SpecsOf(x) = SpecsOf(L)
      BY <1>3, SameSpecs
    <3>2. GenerationChanged(seen, L) => GenerationChanged(seen, x)
      BY <1>3, SameObject DEF GenerationChanged
    <3> QED BY <1>3, <2>1, <3>1, <3>2
  <2> QED BY <1>0, <1>1, <1>2, <1>3, <2>1, <2>3, <2>4, <2>5 DEF BeforeThenAfter
<1>6. StatusesFromBefore'
  <2> SUFFICES ASSUME used["edit"] = 0 \/ Objects(seen) # Objects(L),
                      NEW i \in 1 .. n + 1, NEW j \in Present(crHist'[i])
               PROVE  \/ crHist'[i][j].status = NoStatus
                      \/ seen[j] # Absent /\ crHist'[i][j].status = Due(seen, j)
    BY <1>0, <1>1, <1>2, <1>3 DEF StatusesFromBefore
  <2>1. j \in Keys /\ crHist'[i][j] # Absent
    BY DEF Present
  <2>2. \A m \in 1 .. n : crHist[m][j] # Absent =>
          \/ crHist[m][j].status = NoStatus
          \/ seen[j] # Absent /\ crHist[m][j].status = Due(seen, j)
    BY <1>1, <1>2, <2>1 DEF OneEdit, StatusesFromBefore, Present
  <2>3. CASE i \in 1 .. n
    BY <1>1, <2>1, <2>2, <2>3
  <2>4. CASE i = n + 1 /\ j = k
    BY <1>1, <1>4, <2>4
  <2>5. CASE i = n + 1 /\ j # k
    BY <1>1, <1>4, <2>1, <2>2, <2>5
  <2> QED BY <1>1, <2>3, <2>4, <2>5
<1>7. ASSUME NEW crs, crs \in {seen} \cup { crHist'[i] : i \in 1 .. n + 1 },
             NEW j \in Keys, Objects(crs) = Objects(x), Exact(crs, j)
      PROVE  Exact(x, j)
  <2>1. CASE crs = x
    BY <1>7, <2>1
  <2>2. CASE crs # x
    <3>1. crs \in {seen} \cup { crHist[i] : i \in 1 .. n } /\ crs \in Snapshots
      BY <1>1, <1>2, <1>7, <2>2
    <3>2. Exact(L, j)
      BY <1>1, <1>2, <1>3, <1>7, <3>1 DEF OneEdit, ExactStays
    <3>3. Due(L, j) = Due(x, j) /\ x[j] # Absent
      BY <1>3, <3>2, SameDue DEF Exact
    <3>4. CASE j # k
      BY <1>4, <3>2, <3>3, <3>4 DEF Exact
    <3>5. CASE j = k
      <4>1. CASE Objects(seen) = Objects(L)
        BY <1>3, <1>4, <3>3, <3>5, <4>1, SameDue DEF Exact
      <4>2. CASE Objects(seen) # Objects(L)
        <5>1. PICK i \in 1 .. n : crs = crHist[i]
          BY <1>3, <1>7, <3>1, <4>2
        <5>2. crs[k] # Absent /\ crs[k].status = Due(crs, k)
          BY <1>7, <3>5 DEF Exact
        <5>3. crs[k].status = NoStatus \/ crs[k].status = Due(seen, k)
          BY <1>1, <1>2, <4>2, <5>1, <5>2 DEF OneEdit, StatusesFromBefore, Present
        <5>4. crs[k].status = Due(seen, k)
          BY <3>1, <5>2, <5>3, DueNotNew
        <5>5. Due(crs, k) = Due(x, k)
          BY <1>7, <5>2, SameDue
        <5> QED BY <1>4, <3>3, <3>5, <5>2, <5>4, <5>5 DEF Exact
      <4> QED BY <4>1, <4>2
    <3> QED BY <3>4, <3>5
  <2> QED BY <2>1, <2>2
<1>8. ExactStays'
  <2>1. /\ {Earliest'} \cup { crHist'[i] : i \in DOMAIN crHist' }
             = {seen} \cup { crHist'[i] : i \in 1 .. n + 1 }
        /\ Live(crHist') = x
    BY <1>0, <1>1, <1>2
  <2> QED BY <1>7, <2>1 DEF ExactStays
<1> QED BY <1>5, <1>6, <1>8 DEF OneEdit

(* An edit changes what is specified and adds no status.                   *)
LEMMA EditObjects ==
  ASSUME BaseInv, UserEdit
  PROVE  \E x \in Snapshots :
           /\ crHist' = Push(crHist, x)
           /\ GenerationChanged(Live(crHist), x)
           /\ SpecsOf(Live(crHist)) # SpecsOf(x)
           /\ \A j \in Keys : x[j] # Absent =>
                \/ x[j].status = NoStatus
                \/ Live(crHist)[j] # Absent /\ x[j].status = Live(crHist)[j].status
<1> DEFINE crs == Live(crHist)
<1>0. crs \in Snapshots
  BY TypeFacts DEF BaseInv
<1>1. PICK k \in Keys : \/ \E spec \in Specs : CreateCR(k, spec) \/ UpdateSpec(k, spec)
                       \/ DeleteCR(k)
  BY DEF UserEdit
<1>2. ASSUME NEW cr \in CRs \cup {Absent}, WriteCR(k, cr),
             \/ crs[k] = Absent /\ cr # Absent /\ cr.status = NoStatus
             \/ crs[k] # Absent /\ cr = Absent
             \/ /\ crs[k] # Absent /\ cr # Absent
                /\ crs[k].generation # cr.generation /\ crs[k].spec # cr.spec
                /\ cr.status = crs[k].status
      PROVE  \E x \in Snapshots :
               /\ crHist' = Push(crHist, x)
               /\ GenerationChanged(crs, x)
               /\ SpecsOf(crs) # SpecsOf(x)
               /\ \A j \in Keys : x[j] # Absent =>
                    \/ x[j].status = NoStatus
                    \/ crs[j] # Absent /\ x[j].status = crs[j].status
  <2> DEFINE x == [crs EXCEPT ![k] = cr]
  <2>1. x \in Snapshots /\ x[k] = cr /\ \A j \in Keys \ {k} : x[j] = crs[j]
    BY <1>0 DEF Snapshots
  <2>2. crHist' = Push(crHist, x)
    BY <1>2 DEF WriteCR
  <2> HIDE DEF crs, x
  <2>3. GenerationChanged(crs, x)
    BY <1>2, <2>1 DEF GenerationChanged
  <2>4. SpecsOf(crs)[k] # SpecsOf(x)[k]
    <3>1. \A spec \in Specs : spec # Absent
      BY AbsentAssumption
    <3>2. /\ crs[k] # Absent => crs[k].spec \in Specs
          /\ x[k] # Absent => x[k].spec \in Specs
      BY <1>0, <2>1, PresentType DEF CRs
    <3>3. /\ SpecsOf(crs)[k] = IF crs[k] = Absent THEN Absent ELSE crs[k].spec
          /\ SpecsOf(x)[k] = IF x[k] = Absent THEN Absent ELSE x[k].spec
      BY DEF SpecsOf
    <3> QED BY <1>2, <2>1, <3>1, <3>2, <3>3
  <2>5. \A j \in Keys : x[j] # Absent =>
          \/ x[j].status = NoStatus
          \/ crs[j] # Absent /\ x[j].status = crs[j].status
    BY <1>2, <2>1
  <2> QED BY <2>1, <2>2, <2>3, <2>4, <2>5
<1>3. ASSUME NEW spec \in Specs, CreateCR(k, spec)
      PROVE  \E cr \in CRs : /\ WriteCR(k, cr)
                             /\ crs[k] = Absent /\ cr # Absent /\ cr.status = NoStatus
  <2>1. NewCR(spec) \in CRs /\ NewCR(spec) # Absent /\ NewCR(spec).status = NoStatus
    BY NewCRType, DistinctAssumption DEF NewCR
  <2> QED BY <1>3, <2>1 DEF CreateCR
<1>4. ASSUME NEW spec \in Specs, UpdateSpec(k, spec)
      PROVE  \E cr \in CRs : /\ WriteCR(k, cr)
                             /\ crs[k] # Absent /\ cr # Absent
                             /\ crs[k].generation # cr.generation
                             /\ crs[k].spec # cr.spec
                             /\ cr.status = crs[k].status
  <2> DEFINE new == [crs[k] EXCEPT !.spec = spec, !.generation = @ + 1]
  <2>1. crs[k] # Absent /\ crs[k].spec # spec /\ WriteCR(k, new)
    BY <1>4 DEF UpdateSpec
  <2>2. crs[k] \in CRs
    BY <1>0, <2>1, PresentType
  <2>3. new \in CRs /\ new # Absent
    BY <2>2, UpdatedCRType, DistinctAssumption
  <2>4. /\ new.generation # crs[k].generation
        /\ new.spec = spec /\ new.status = crs[k].status
    BY <2>2 DEF CRs
  <2> HIDE DEF new, crs
  <2> QED BY <2>1, <2>3, <2>4
<1>5. ASSUME DeleteCR(k)
      PROVE  crs[k] # Absent /\ WriteCR(k, Absent)
  BY <1>5 DEF DeleteCR
<1> HIDE DEF crs
<1>6. CASE DeleteCR(k)
  BY <1>2, <1>5, <1>6 DEF crs
<1>7. ASSUME NEW spec \in Specs, CreateCR(k, spec) \/ UpdateSpec(k, spec)
      PROVE  \E x \in Snapshots :
               /\ crHist' = Push(crHist, x)
               /\ GenerationChanged(crs, x)
               /\ SpecsOf(crs) # SpecsOf(x)
               /\ \A j \in Keys : x[j] # Absent =>
                    \/ x[j].status = NoStatus
                    \/ crs[j] # Absent /\ x[j].status = crs[j].status
  BY <1>2, <1>3, <1>4, <1>7
<1> QED BY <1>1, <1>6, <1>7 DEF crs

LEMMA EditKeeps ==
  ASSUME BaseInv, OneEdit, UserEdit, used["edit"] = 0, used'["edit"] # 0
  PROVE  OneEdit'
<1> DEFINE n == Len(crHist)
           L == Live(crHist)
<1>1. PICK x \in Snapshots :
        /\ crHist' = Push(crHist, x)
        /\ GenerationChanged(L, x)
        /\ SpecsOf(L) # SpecsOf(x)
        /\ \A j \in Keys : x[j] # Absent =>
             \/ x[j].status = NoStatus
             \/ L[j] # Absent /\ x[j].status = L[j].status
  BY EditObjects
<1>2. UNCHANGED <<up, pc, seen>>
  BY DEF UserEdit
<1>3. CASE ~ up
  <2>1. crHist' = <<x>> /\ pc' = "idle"
    BY <1>1, <1>2, <1>3 DEF Push, BaseInv, PhaseInv
  <2>2. Earliest' = x /\ Live(crHist') = x /\ \A i \in DOMAIN crHist' : crHist'[i] = x
    BY <2>1 DEF Earliest, PastGather, Cached, Live
  <2> QED BY <2>2 DEF OneEdit, BeforeThenAfter, StatusesFromBefore, ExactStays
<1>4. CASE up
  <2>1. crHist' = Append(crHist, x)
    BY <1>1, <1>4 DEF Push
  <2>2. /\ n \in Nat \ {0} /\ DOMAIN crHist' = 1 .. n + 1 /\ DOMAIN crHist = 1 .. n
        /\ n \in 1 .. n /\ 1 \in 1 .. n /\ L = crHist[n]
        /\ \A i \in 1 .. n : crHist'[i] = crHist[i]
        /\ crHist'[n + 1] = x /\ Live(crHist') = x
    BY <2>1, HistoryFacts, AppendFacts DEF BaseInv, TypeOK, Live
  <2>3. Earliest' = Earliest
    BY <1>2, <2>2 DEF Earliest, PastGather, Cached
  <2>4. \A i \in 1 .. n : Objects(crHist[i]) = Objects(Earliest)
    BY <2>2 DEF OneEdit, BeforeThenAfter
  <2>5. Objects(Earliest) = Objects(L)
    BY <2>2, <2>4
  <2>6. /\ Objects(Earliest) # Objects(x)
        /\ SpecsOf(Earliest) # SpecsOf(x)
        /\ GenerationChanged(Earliest, x)
    <3>1. SpecsOf(Earliest) = SpecsOf(L)
      BY <2>5, SameSpecs
    <3> QED BY <1>1, <2>5, <3>1, SameSpecs, SameEvents
  <2>7. \A i \in 1 .. n + 1 : i \in 1 .. n \/ i = n + 1
    BY <2>2
  <2>8. BeforeThenAfter'
    <3>1. \A i \in 1 .. n + 1 : Objects(crHist'[i]) \in {Objects(Earliest), Objects(x)}
      BY <2>2, <2>4, <2>7
    <3>2. \A i, j \in 1 .. n + 1 :
            i <= j /\ Objects(crHist'[i]) = Objects(x) => i = n + 1 /\ j = n + 1
      BY <2>2, <2>4, <2>6, <2>7
    <3> QED BY <2>2, <2>3, <2>6, <3>1, <3>2 DEF BeforeThenAfter
  <2>9. StatusesFromBefore'
    <3> SUFFICES ASSUME NEW i \in 1 .. n + 1, NEW j \in Present(crHist'[i])
                 PROVE  \/ crHist'[i][j].status = NoStatus
                        \/ Earliest[j] # Absent /\ crHist'[i][j].status = Due(Earliest, j)
      BY <2>2, <2>3 DEF StatusesFromBefore
    <3>1. j \in Keys /\ crHist'[i][j] # Absent
      BY DEF Present
    <3>2. \A m \in 1 .. n : crHist[m][j] # Absent =>
            \/ crHist[m][j].status = NoStatus
            \/ Earliest[j] # Absent /\ crHist[m][j].status = Due(Earliest, j)
      BY <2>2, <3>1 DEF OneEdit, StatusesFromBefore, Present
    <3>3. CASE i \in 1 .. n
      BY <2>2, <3>1, <3>2, <3>3
    <3>4. CASE i = n + 1
      BY <1>1, <2>2, <3>1, <3>2, <3>4
    <3> QED BY <2>7, <3>3, <3>4
  <2>10. ExactStays'
    <3>1. \A crs \in {Earliest} \cup { crHist'[i] : i \in 1 .. n + 1 } :
            Objects(crs) = Objects(x) => crs = x
      BY <2>2, <2>4, <2>6, <2>7
    <3> QED BY <2>2, <2>3, <3>1 DEF ExactStays
  <2> QED BY <2>8, <2>9, <2>10 DEF OneEdit
<1> QED BY <1>3, <1>4

(* The only step that counts as an edit is one.                            *)
LEMMA EditsCounted ==
  ASSUME BaseInv, [Next]_vars
  PROVE  /\ used["edit"] \in Nat
         /\ IF UserEdit THEN used'["edit"] = used["edit"] + 1
                        ELSE used'["edit"] = used["edit"]
<1>1. used \in [Disturbances -> Nat] /\ "edit" \in Disturbances
  BY DEF BaseInv, TypeOK, Disturbances
<1>2. CASE UserEdit
  BY <1>1, <1>2 DEF UserEdit, Spend
<1>3. CASE ~ UserEdit
  <2>1. CASE UNCHANGED used
    BY <1>1, <1>3, <2>1
  <2>2. ASSUME NEW kind \in Disturbances \ {"edit"}, Spend(kind)
        PROVE  used'["edit"] = used["edit"]
    BY <1>1, <2>2 DEF Spend
  <2>3. \/ UNCHANGED used
        \/ \E kind \in Disturbances \ {"edit"} : Spend(kind)
    BY <1>3 DEF Next, ReconcileStep, BootStep, Tamper, DeliverCR, DeliverCM,
         RelistCR, RelistCM, CheckDrift, Gather, ApplyGet, PatchCM, ReGet,
         UpdateStatus, StatusError, ReconcileDone, APIError, BootGet, BootApplyGet,
         BootPatch, BootReGet, BootSet, Crash, Restart, Disturbances, vars
  <2> QED BY <1>1, <1>3, <2>1, <2>2, <2>3
<1> QED BY <1>2, <1>3

(* A reconcile past gather works on what it worked on, or has just listed  *)
(* what its cache shows.                                                   *)
LEMMA SeenSteps ==
  ASSUME [Next]_vars, PastGather'
  PROVE  \/ PastGather /\ UNCHANGED seen
         \/ UNCHANGED crHist /\ seen' = Cached(crHist)
<1>1. CASE EndReconcile
  BY <1>1 DEF EndReconcile, PastGather
<1>2. CASE UNCHANGED <<pc, seen>>
  BY <1>2 DEF PastGather
<1>3. CASE UserEdit \/ (\E k \in Keys : UpdateStatus(k)) \/ (\E k \in Keys : StatusError(k))
           \/ Tamper \/ DeliverCR \/ DeliverCM \/ RelistCR \/ RelistCM \/ Restart
           \/ UNCHANGED vars
  BY <1>2, <1>3 DEF UserEdit, UpdateStatus, StatusError, Tamper, DeliverCR, DeliverCM,
       RelistCR, RelistCM, Restart, vars, process, locals
<1>4. CASE CheckDrift
  BY <1>4 DEF CheckDrift, PastGather
<1>5. CASE Gather
  BY <1>1, <1>5 DEF Gather, FailReconcile
<1>6. CASE ApplyGet \/ PatchCM
  BY <1>6 DEF ApplyGet, PatchCM, PastGather
<1>7. CASE ReGet
  BY <1>1, <1>7 DEF ReGet, FailReconcile, PastGather
<1>8. CASE APIError \/ ReconcileDone \/ Crash
  BY <1>1, <1>8 DEF APIError, FailReconcile, ReconcileDone, Crash, Exit
<1>9. CASE BootStep
  BY <1>1, <1>2, <1>9 DEF BootStep, BootGet, BootApplyGet, BootPatch, BootReGet,
       BootSet, Exit, locals
<1> QED
  BY <1>3, <1>4, <1>5, <1>6, <1>7, <1>8, <1>9 DEF Next, ReconcileStep

LEMMA OneEditNext ==
  ASSUME BaseInv, BodyFromSeen, OneEdit, [Next]_vars, used'["edit"] <= 1
  PROVE  OneEdit'
<1> DEFINE n == Len(crHist)
<1>0. /\ n \in Nat \ {0} /\ DOMAIN crHist = 1 .. n
      /\ crHist \in Seq(Snapshots) /\ crHist # <<>>
  BY HistoryFacts DEF BaseInv, TypeOK
<1>1. CASE UserEdit
  <2>1. used["edit"] = 0 /\ used'["edit"] # 0
    BY <1>1, EditsCounted
  <2> QED BY <1>1, <2>1, EditKeeps
<1>2. CASE ~ UserEdit /\ (\E k \in Keys : pc = "status" /\ up /\ WriteStatus(k)
                                          /\ UNCHANGED <<pc, seen>>)
  BY <1>2, EditsCounted, StatusWriteKeepsExact
<1>3. ASSUME ~ UserEdit, crHist' = Tail(crHist), Len(crHist) > 1
      PROVE  OneEdit'
  <2>1. /\ 1 \in 0 .. n - 1 /\ DOMAIN crHist' = 1 .. n - 1
        /\ \A i \in 1 .. n - 1 : crHist'[i] = crHist[i + 1]
        /\ Live(crHist') = Live(crHist)
    BY <1>0, <1>3, TailFacts, HistoryFacts
  <2>2. Earliest' = Earliest \/ Earliest' = crHist'[1]
    BY <1>0, <1>3, <2>1, SeenSteps, TailFacts DEF Earliest, Cached
  <2> QED BY <1>3, <2>1, <2>2, EditsCounted, ForgetKeeps
<1>4. ASSUME ~ UserEdit, UNCHANGED crHist
      PROVE  OneEdit'
  <2>1. /\ 0 \in 0 .. n - 1 /\ DOMAIN crHist' = 1 .. n - 0
        /\ \A i \in 1 .. n - 0 : crHist'[i] = crHist[i + 0]
        /\ Live(crHist') = Live(crHist)
    BY <1>0, <1>4
  <2>2. Earliest' = Earliest \/ Earliest' = crHist'[1]
    BY <1>4, SeenSteps DEF Earliest, Cached
  <2> QED BY <1>4, <2>1, <2>2, EditsCounted, ForgetKeeps
<1>5. ASSUME ~ UserEdit, crHist' = <<Live(crHist)>>
      PROVE  OneEdit'
  <2>1. /\ n - 1 \in 0 .. n - 1 /\ DOMAIN crHist' = 1 .. n - (n - 1)
        /\ \A i \in 1 .. n - (n - 1) : crHist'[i] = crHist[i + (n - 1)]
        /\ Live(crHist') = Live(crHist)
    <3>1. DOMAIN crHist' = {1} /\ crHist'[1] = crHist[n]
      BY <1>5 DEF Live
    <3>2. 1 .. n - (n - 1) = {1} /\ 1 + (n - 1) = n /\ n - 1 \in 0 .. n - 1
      BY <1>0
    <3>3. Live(crHist') = Live(crHist)
      BY <1>5, TypeFacts, SingletonFacts DEF BaseInv
    <3> QED BY <3>1, <3>2, <3>3
  <2>2. Earliest' = Earliest \/ Earliest' = crHist'[1]
    BY <1>5, SeenSteps DEF Earliest, Cached
  <2> QED BY <1>5, <2>1, <2>2, EditsCounted, ForgetKeeps
<1>6. ASSUME NEW k \in Keys, UpdateStatus(k) \/ StatusError(k)
      PROVE  \/ UNCHANGED crHist
             \/ pc = "status" /\ up /\ WriteStatus(k) /\ UNCHANGED <<pc, seen>>
  BY <1>6, StatusStep
<1>7. CASE DeliverCR
  BY <1>1, <1>3, <1>7 DEF DeliverCR
<1>8. CASE Tamper \/ DeliverCM \/ RelistCM \/ CheckDrift \/ Gather \/ ApplyGet
           \/ PatchCM \/ ReGet \/ APIError \/ ReconcileDone \/ Restart
           \/ UNCHANGED vars
  BY <1>1, <1>4, <1>8 DEF Tamper, DeliverCM, RelistCM, CheckDrift, Gather, ApplyGet,
       PatchCM, ReGet, APIError, ReconcileDone, Restart, vars
<1>9. CASE BootStep \/ Crash \/ RelistCR
  BY <1>1, <1>4, <1>5, <1>9 DEF BootStep, BootGet, BootApplyGet, BootPatch, BootReGet,
       BootSet, Crash, Exit, RelistCR
<1>10. CASE (\E k \in Keys : UpdateStatus(k)) \/ (\E k \in Keys : StatusError(k))
  BY <1>1, <1>2, <1>4, <1>6, <1>10
<1> QED
  BY <1>1, <1>7, <1>8, <1>9, <1>10 DEF Next, ReconcileStep

(* ExactInHand, action by action.                                          *)
LEMMA ExactFree ==
  ASSUME queued' \/ ~ up' \/ ~ NoWakeupPending'
         \/ pc' \in {"gather", "apply", "patch", "reget"}
  PROVE  ExactInHand'
BY DEF ExactInHand

LEMMA ExactUntouched ==
  ASSUME ExactInHand, queued => queued', used["statusError"] = 0,
         NoWakeupPending' => NoWakeupPending, Live(crHist') = Live(crHist),
         UNCHANGED <<up, pc, todo, conflictHit>>
  PROVE  ExactInHand'
<1> SUFFICES ASSUME up, ~ queued, NoWakeupPending, pc # "gather",
                    pc \notin {"apply", "patch", "reget"},
                    NEW k \in Present(Live(crHist))
             PROVE  Exact(Live(crHist), k) \/ (pc = "status" /\ (k \in todo \/ conflictHit))
  BY DEF ExactInHand
<1> QED BY DEF ExactInHand

LEMMA ExactApplied ==
  ASSUME BaseInv, OutputInHand, OneEdit, PastGather, Applied,
         UNCHANGED <<crHist, up, queued, seen>>
  PROVE  ExactInHand'
<1>1. pc' = "status" /\ todo' = Present(seen)
  BY DEF Applied
<1>2. NoWakeupPending' <=> NoWakeupPending
  BY SameCRs
<1>3. ASSUME ~ queued, NoWakeupPending, NEW k \in Present(Live(crHist))
      PROVE  k \in Present(seen)
  <2>1. Objects(seen) = Objects(Live(crHist))
    BY <1>3, SeenObjects
  <2> QED BY <2>1, SameObject DEF Present
<1> QED BY <1>1, <1>2, <1>3 DEF ExactInHand

(* A visited CR has just been given its status, has it already, or is not  *)
(* the one that was listed, and then the key is put back.                  *)
LEMMA ExactUpdateStatus ==
  ASSUME BaseInv, BodyFromSeen, OutputInHand, OneEdit, ExactInHand,
         NEW k \in Keys, UpdateStatus(k)
  PROVE  ExactInHand'
<1>0. /\ UNCHANGED <<up, queued, pc, used, seen>>
      /\ pc = "status" /\ todo' = todo \ {k} /\ k \in todo
      /\ up /\ k \in Present(seen)
  BY StatusStep DEF UpdateStatus, BaseInv, PhaseInv
<1> SUFFICES ASSUME ~ queued, NoWakeupPending', used["statusError"] = 0,
                    NEW j \in Present(Live(crHist'))
             PROVE  \/ Exact(Live(crHist'), j)
                    \/ j \in todo' \/ conflictHit'
  BY <1>0 DEF ExactInHand
<1>1. CASE NeedsUpdate(k) /\ WriteStatus(k) /\ UNCHANGED conflictHit
  <2>1. PICK x : x = Live(crHist')
    OBVIOUS
  <2>2. /\ crHist' = Append(crHist, x) /\ x \in Snapshots
        /\ Objects(x) = Objects(Live(crHist))
        /\ seen[k] # Absent
        /\ x[k].status = Due(seen, k)
        /\ \A i \in Keys \ {k} : x[i] = Live(crHist)[i]
    BY <1>0, <1>1, <2>1, StatusWriteObjects
  <2>3. Kept(Live(crHist), x)
    <3>1. PICK y \in Snapshots : Live(crHist') = y /\ Kept(Live(crHist), y)
      BY <1>0, <1>1, StatusWriteKeeps
    <3> QED BY <2>1, <3>1
  <2>4. NoWakeupPending
    BY <2>2, <2>3, AppendWake DEF OutputInHand
  <2>5. j \in Keys /\ x[j] # Absent
    BY <2>1 DEF Present
  <2>6. CASE j # k
    <3>1. x[j] = Live(crHist)[j] /\ j \in Present(Live(crHist))
      BY <2>2, <2>5, <2>6 DEF Present
    <3>2. Exact(Live(crHist), j) \/ j \in todo' \/ conflictHit'
      BY <1>0, <1>1, <2>4, <2>6, <3>1 DEF ExactInHand
    <3>3. Due(x, j) = Due(Live(crHist), j)
      BY <2>2, <2>5, SameDue
    <3> QED BY <2>1, <2>5, <3>1, <3>2, <3>3 DEF Exact
  <2>7. CASE j = k
    <3>1. Objects(seen) = Objects(x)
      BY <1>0, <2>2, <2>4, SeenObjects DEF PastGather
    <3>2. Due(seen, k) = Due(x, k)
      BY <2>2, <3>1, SameDue
    <3> QED BY <2>1, <2>2, <2>5, <2>7, <3>2 DEF Exact
  <2> QED BY <2>6, <2>7
<1>2. CASE /\ UNCHANGED crHist
           /\ \/ ~ NeedsUpdate(k) /\ UNCHANGED conflictHit
              \/ NeedsUpdate(k) /\ conflictHit' = (conflictHit \/ Live(crHist)[k] # Absent)
  <2>1. UNCHANGED crHist /\ (conflictHit => conflictHit')
        /\ (NeedsUpdate(k) /\ Live(crHist)[k] # Absent => conflictHit')
    <3>1. UNCHANGED crHist
      BY <1>2
    <3>2. CASE ~ NeedsUpdate(k) /\ UNCHANGED conflictHit
      BY <3>1, <3>2
    <3>3. CASE NeedsUpdate(k) /\ conflictHit' = (conflictHit \/ Live(crHist)[k] # Absent)
      <4> DEFINE live == Live(crHist)[k] # Absent
      <4>1. conflictHit \in BOOLEAN /\ live \in BOOLEAN
        BY DEF BaseInv, TypeOK
      <4> HIDE DEF live
      <4>2. conflictHit' = (conflictHit \/ live)
        BY <3>3, Zenon DEF live
      <4>3. (conflictHit => conflictHit') /\ (live => conflictHit')
        BY <4>1, <4>2, Zenon
      <4>4. Live(crHist)[k] # Absent => live
        BY DEF live
      <4> QED BY <3>1, <4>3, <4>4
    <3> QED BY <1>2, <3>2, <3>3
  <2>2. NoWakeupPending /\ j \in Present(Live(crHist)) /\ Live(crHist') = Live(crHist)
    BY <2>1, SameCRs
  <2>3. CASE j # k
    BY <1>0, <2>1, <2>2, <2>3 DEF ExactInHand
  <2>4. CASE j = k /\ NeedsUpdate(k)
    BY <2>1, <2>2, <2>4 DEF Present
  <2>5. CASE j = k /\ ~ NeedsUpdate(k)
    <3>1. Exact(seen, k)
      BY <1>0, <2>5, DesiredIsDue DEF NeedsUpdate, Exact, Present, PastGather
    <3>2. Objects(seen) = Objects(Live(crHist)) /\ Earliest = seen
      BY <1>0, <2>2, SeenObjects DEF PastGather, Earliest
    <3>3. Exact(Live(crHist), k)
      BY <3>1, <3>2 DEF OneEdit, ExactStays
    <3> QED BY <2>2, <2>5, <3>3
  <2> QED BY <2>3, <2>4, <2>5
<1> QED BY <1>1, <1>2 DEF UpdateStatus

LEMMA ExactNext ==
  ASSUME BaseInv, BodyFromSeen, OutputInHand, OneEdit, ExactInHand, [Next]_vars
  PROVE  ExactInHand'
<1> SUFFICES ASSUME used'["statusError"] = 0
             PROVE  ExactInHand'
  BY DEF ExactInHand
<1>0. /\ used["statusError"] = 0 /\ \A k \in Keys : ~ StatusError(k)
      /\ RelistWakes
  BY StatusErrorsStay, OneEditWakes
<1>1. CASE UserEdit
  <2>1. PICK x \in Snapshots : /\ crHist' = Push(crHist, x)
                               /\ GenerationChanged(Live(crHist), x)
    BY <1>1, EditWakes
  <2>2. CASE up
    BY <2>1, <2>2, AppendWake, ExactFree DEF Push, OutputInHand
  <2>3. CASE ~ up
    BY <1>1, <2>3, ExactFree DEF UserEdit
  <2> QED BY <2>2, <2>3
<1>2. CASE DeliverCR
  <2>1. /\ crHist' = Tail(crHist) /\ Len(crHist) > 1
        /\ queued' = (queued \/ GenerationChanged(crHist[1], crHist[2]))
        /\ UNCHANGED <<up, pc, todo, conflictHit>>
    BY <1>2 DEF DeliverCR, locals
  <2>2. Live(crHist') = Live(crHist)
    BY <2>1, TailFacts DEF BaseInv, TypeOK
  <2>3. NoWakeupPending' /\ ~ queued' => NoWakeupPending
    BY <2>1, TailWake DEF OutputInHand
  <2> QED BY <1>0, <2>1, <2>2, <2>3, ExactFree, ExactUntouched
<1>3. CASE RelistCR
  <2>1. /\ crHist' = <<Live(crHist)>>
        /\ queued' = (queued \/ GenerationChanged(Cached(crHist), Live(crHist)))
        /\ UNCHANGED <<up, pc, todo, conflictHit>>
    BY <1>3 DEF RelistCR, locals
  <2>2. Live(crHist') = Live(crHist)
    BY <2>1, TypeFacts, SingletonFacts DEF BaseInv
  <2>3. ~ queued' => NoWakeupPending
    BY <1>0, <1>3, <2>1 DEF RelistWakes
  <2> QED BY <1>0, <2>1, <2>2, <2>3, ExactFree, ExactUntouched
<1>4. CASE UNCHANGED <<crHist, up, pc, todo, conflictHit>> /\ (queued => queued')
  BY <1>0, <1>4, SameCRs, ExactUntouched
<1>5. CASE CheckDrift \/ Gather \/ PatchCM \/ APIError
  BY <1>5, ExactFree DEF CheckDrift, Gather, PatchCM, APIError, FailReconcile
<1>6. CASE ApplyGet \/ ReGet
  <2>1. \/ queued' \/ pc' = "patch"
        \/ Applied /\ PastGather /\ UNCHANGED <<crHist, up, queued, seen>>
    BY <1>6 DEF ApplyGet, ReGet, FailReconcile, PastGather
  <2> QED BY <2>1, ExactApplied, ExactFree
<1>7. CASE ReconcileDone
  <2>1. /\ UNCHANGED crHist /\ UNCHANGED up
        /\ pc = "status" /\ todo = {}
        /\ queued' = (queued \/ conflictHit)
    BY <1>7 DEF ReconcileDone
  <2>2. NoWakeupPending' => NoWakeupPending
    BY <2>1, SameCRs
  <2>3. ASSUME up, ~ queued', NoWakeupPending', NEW k \in Present(Live(crHist))
        PROVE  Exact(Live(crHist), k)
    BY <1>0, <2>1, <2>2, <2>3 DEF ExactInHand
  <2> QED BY <2>1, <2>3 DEF ExactInHand
<1>8. CASE Exit
  BY <1>8, ExactFree DEF Exit
<1>9. CASE Restart
  <2>1. UNCHANGED crHist /\ (~ queued' => Present(Live(crHist)) = {})
    BY <1>9 DEF Restart
  <2> QED BY <2>1 DEF ExactInHand
<1>10. CASE Tamper \/ DeliverCM \/ RelistCM \/ UNCHANGED vars
  <2>1. UNCHANGED <<crHist, up, pc, todo, conflictHit>>
    BY <1>10 DEF Tamper, DeliverCM, RelistCM, vars, process, locals
  <2>2. \/ UNCHANGED queued
        \/ \E wakes : queued' = (queued \/ wakes)
    BY <1>10 DEF Tamper, DeliverCM, RelistCM, vars, process
  <2> QED BY <1>4, <2>1, <2>2
<1>11. CASE BootStep
  <2>1. Exit \/ UNCHANGED <<crHist, up, queued, locals>>
    BY <1>11 DEF BootStep, BootGet, BootApplyGet, BootPatch, BootReGet, BootSet
  <2> QED BY <1>4, <1>8, <2>1 DEF locals
<1>12. CASE Crash
  BY <1>8, <1>12 DEF Crash
<1> QED
  BY <1>0, <1>1, <1>2, <1>3, <1>5, <1>6, <1>7, <1>9, <1>10, <1>11, <1>12,
     ExactUpdateStatus DEF Next, ReconcileStep

(* Up to the first edit the work still to be done on statuses is           *)
(* remembered exactly, broken watches or not.                              *)
THEOREM FirstEditIsRemembered == Spec => []FirstEditInv
<1>1. ASSUME Init
      PROVE  FirstEditInv
  <2>1. WakeupInv
    BY <1>1, WakeupInit
  <2>2. PICK specs \in InitialSpecs :
          crHist = << [k \in Keys |-> IF specs[k] = Absent THEN Absent
                                                         ELSE NewCR(specs[k])] >>
    BY <1>1 DEF Init
  <2>3. PICK x : crHist = <<x>> /\ \A k \in Keys : x[k] # Absent => x[k].status = NoStatus
    BY <2>2 DEF NewCR
  <2>4. /\ DOMAIN crHist = {1} /\ crHist[1] = x /\ Live(crHist) = x /\ Earliest = x
        /\ pc = "idle" /\ ~ up
    BY <1>1, <2>3 DEF Live, Earliest, Cached, PastGather, Init
  <2>5. OneEdit
    BY <2>3, <2>4 DEF OneEdit, BeforeThenAfter, StatusesFromBefore, ExactStays, Present
  <2> QED BY <2>1, <2>4, <2>5 DEF FirstEditInv, ExactInHand
<1>2. ASSUME BaseInv, BodyFromSeen, FirstEditInv, [Next]_vars
      PROVE  FirstEditInv'
  <2> SUFFICES ASSUME used'["edit"] <= 1
               PROVE  WakeupInv' /\ OneEdit' /\ ExactInHand'
    BY DEF FirstEditInv
  <2>1. used["edit"] <= 1
    BY <1>2, EditsCounted
  <2>2. WakeupInv /\ OneEdit /\ ExactInHand
    BY <1>2, <2>1 DEF FirstEditInv
  <2>3. RelistWakes
    BY <1>2, <2>2, OneEditWakes
  <2>4. WakeupInv'
    BY <1>2, <2>2, <2>3, WakeNext, AwaitedNext, HandNext DEF WakeupInv
  <2> QED BY <1>2, <2>2, <2>4, OneEditNext, ExactNext DEF WakeupInv
<1> QED BY <1>1, <1>2, BaseInvariant, BodyInvariant, PTL DEF Spec

(* Statuses are exact after the first edit: an operator that comes to rest *)
(* has given every CR the status that belongs to the output it serves, for *)
(* any number of CRs, crashes, third-party writes and broken watches.      *)
THEOREM FirstEditIsInStatus == Spec => []FirstEditInStatus
<1>1. ASSUME FirstEditInv
      PROVE  FirstEditInStatus
  <2> SUFFICES ASSUME Settled, used["edit"] <= 1, used["statusError"] = 0
               PROVE  StatusesCurrent
    BY DEF FirstEditInStatus
  <2>1. WakeupInv /\ ExactInHand
    BY <1>1 DEF FirstEditInv
  <2>2. NoWakeupPending
    BY RestPendsNothing
  <2>3. Converged
    BY <2>1, RestConverged DEF SettledConverged
  <2>4. \A k \in Present(Live(crHist)) : Exact(Live(crHist), k)
    BY <2>1, <2>2 DEF Settled, ExactInHand
  <2> QED BY <2>3, <2>4 DEF StatusesCurrent, Exact, Due, Converged
<1> QED BY <1>1, FirstEditIsRemembered, PTL

-----------------------------------------------------------------------------
(* A target that shares its process with another may be ended by what      *)
(* happens there, at any moment and any number of times.                   *)
EndedByOther == Exit /\ UNCHANGED used

SharedSpec == Init /\ [][Next \/ EndedByOther]_vars

LEMMA EndForgetsNothing ==
  ASSUME BaseInv, EndedByOther
  PROVE  /\ BaseInv' /\ BodyFromSeen' /\ WakeupInv'
         /\ Live(crHist') = Live(crHist) /\ Live(cmHist') = Live(cmHist)
<1>1. BaseInv'
  BY BaseExit DEF EndedByOther, BaseInv, TypeOK
<1>2. BodyFromSeen'
  BY DEF EndedByOther, Exit, EndReconcile, BodyFromSeen, PastGather
<1>3. WakeupInv'
  BY WakeExit DEF EndedByOther, Exit, WakeupInv, ConfigMapAwaited, StatusInHand
<1>4. Live(crHist') = Live(crHist) /\ Live(cmHist') = Live(cmHist)
  BY TypeFacts, SingletonFacts DEF EndedByOther, Exit, BaseInv
<1> QED BY <1>1, <1>2, <1>3, <1>4

(* Nothing a target promises depends on being asked before it is ended: it *)
(* never serves a document that fails validation, its statuses are true,   *)
(* and at rest it has converged.                                           *)
THEOREM SharedProcessIsSafe ==
  SharedSpec /\ RelistsWake =>
    [](TypeOK /\ OutputSafe /\ StatusTruthful /\ SettledConverged /\ SettledObserved)
<1> DEFINE Inv == BaseInv /\ BodyFromSeen /\ WakeupInv /\ OutputSafe /\ StatusTruthful
<1>1. Init => Inv
  <2>1. Init => BodyFromSeen
    BY DEF Init, BodyFromSeen, PastGather
  <2> QED BY <2>1, BaseInit, WakeupInit, InitSafe, InitTruthful
<1>2. ASSUME Inv, [Next]_vars, [RelistWakes]_vars
      PROVE  Inv'
  <2>1. WakeupInv'
    BY <1>2, WakeupStep
  <2> QED
    BY <1>2, <2>1, BaseNext, BodyFromSeenStep, OutputSafeStep, TruthfulStep
<1>3. ASSUME Inv, EndedByOther
      PROVE  Inv'
  <2>1. OutputSafe' /\ StatusTruthful'
    BY <1>3, EndForgetsNothing DEF OutputSafe, StatusTruthful
  <2> QED BY <1>3, <2>1, EndForgetsNothing
<1>4. ASSUME Inv, [Next \/ EndedByOther]_vars, [RelistWakes]_vars
      PROVE  Inv'
  BY <1>2, <1>3, <1>4
<1>5. Inv => TypeOK /\ OutputSafe /\ StatusTruthful /\ SettledConverged /\ SettledObserved
  BY RestConverged, RestObserved DEF BaseInv
<1> QED BY <1>1, <1>4, <1>5, PTL DEF SharedSpec, RelistsWake
=============================================================================
