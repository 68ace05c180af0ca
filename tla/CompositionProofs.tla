------------------------- MODULE CompositionProofs -------------------------
(***************************************************************************)
(* The reconciler of the other proofs inside its compositions: behind the  *)
(* webhook and the policy, whose decisions on a request still hold when a  *)
(* reconcile acts on it, and beside another target in one process.         *)
(***************************************************************************)
EXTENDS Admission, Operator, WakeupProofs

-----------------------------------------------------------------------------
(* Every step behind admission is one of Reconciler's.                     *)

LEMMA EditAdmitted == AdmittedEdit => UserEdit
BY DEF AdmittedEdit, UserEdit, Create, Update

LEMMA StepAdmitted == [AdmissionNext]_admissionVars => [Next]_vars
<1>1. AdmissionNext => Next
  BY EditAdmitted DEF AdmissionNext, Next
<1> QED BY <1>1 DEF admissionVars

(* The webhook and the policy only restrict what users do: whatever holds  *)
(* of the reconcile loop holds behind them.                                *)
THEOREM AdmissionImplements == AdmissionSpec => Spec
BY StepAdmitted, PTL DEF AdmissionSpec, AdmissionInit, Spec

-----------------------------------------------------------------------------
(* The CRs of a snapshot satisfy the policy.                               *)
Entitled(crs) ==
  \A k \in Keys :
    crs[k] # Absent => OwnershipExpression(k.ns, crs[k].spec.tenantId)

(* So did those there were before the chart was installed: the policy does *)
(* not look at them.                                                       *)
InitialEntitled ==
  \A specs \in InitialSpecs : \A k \in Keys :
    specs[k] # Absent => OwnershipExpression(k.ns, specs[k].tenantId)

HistoryEntitled == \A i \in DOMAIN crHist : Entitled(crHist[i])

(* A CR the webhook has said yes to validates as it stands.                *)
CheckedValid ==
  \A k \in Present(Live(crHist)) \ unchecked : validateSpec(Live(crHist)[k].spec)

(* What the policy lets in, in every snapshot a cache may still show.      *)
LEMMA EntitledWrite ==
  ASSUME TypeOK, HistoryEntitled, NEW k \in Keys, NEW cr \in CRs \cup {Absent},
         WriteCR(k, cr),
         cr # Absent => OwnershipExpression(k.ns, cr.spec.tenantId)
  PROVE  HistoryEntitled'
<1> DEFINE new == [Live(crHist) EXCEPT ![k] = cr]
<1>1. /\ Len(crHist) \in Nat \ {0} /\ DOMAIN crHist = 1 .. Len(crHist)
      /\ Live(crHist) \in Snapshots
  BY HistoryFacts DEF TypeOK
<1>2. Entitled(Live(crHist))
  BY <1>1 DEF HistoryEntitled, Live
<1>3. new \in Snapshots /\ new[k] = cr /\ \A j \in Keys \ {k} : new[j] = Live(crHist)[j]
  BY <1>1 DEF Snapshots
<1>4. Entitled(new)
  <2> HIDE DEF new
  <2> QED BY <1>2, <1>3 DEF Entitled
<1> HIDE DEF new
<1>5. CASE up
  <2>1. crHist' = Append(crHist, new)
    BY <1>5 DEF WriteCR, Push, new
  <2>2. /\ Append(crHist, new) \in Seq(Snapshots)
        /\ Len(Append(crHist, new)) = Len(crHist) + 1
        /\ \A i \in 1 .. Len(crHist) : Append(crHist, new)[i] = crHist[i]
        /\ Append(crHist, new)[Len(crHist) + 1] = new
    BY <1>3, AppendFacts DEF TypeOK
  <2>3. DOMAIN crHist' = 1 .. Len(crHist) + 1
    BY <2>1, <2>2, <1>1
  <2>4. ASSUME NEW i \in DOMAIN crHist'
        PROVE  Entitled(crHist'[i])
    <3>1. CASE i \in 1 .. Len(crHist)
      BY <1>1, <2>1, <2>2, <3>1 DEF HistoryEntitled
    <3>2. CASE i = Len(crHist) + 1
      BY <1>4, <2>1, <2>2, <3>2
    <3> QED BY <1>1, <2>3, <2>4, <3>1, <3>2
  <2> QED BY <2>4 DEF HistoryEntitled, Entitled
<1>6. CASE ~ up
  <2>1. crHist' = <<new>>
    BY <1>6 DEF WriteCR, Push, new
  <2>2. DOMAIN crHist' = {1} /\ crHist'[1] = new
    BY <2>1
  <2> QED BY <1>4, <2>2 DEF HistoryEntitled, Entitled
<1> QED BY <1>5, <1>6

LEMMA EntitledEdit ==
  ASSUME BaseInv, HistoryEntitled, AdmittedEdit
  PROVE  HistoryEntitled'
<1> USE DEF BaseInv
<1>1. PICK k \in Keys : \/ \E spec \in Specs : Create(k, spec) \/ Update(k, spec)
                       \/ DeleteCR(k)
  BY DEF AdmittedEdit
<1>2. ASSUME NEW spec \in Specs, Create(k, spec)
      PROVE  HistoryEntitled'
  <2>1. NewCR(spec).spec = spec
    BY DEF NewCR
  <2> QED BY <1>2, <2>1, NewCRType, EntitledWrite DEF Create, CreateCR
<1>3. ASSUME NEW spec \in Specs, Update(k, spec)
      PROVE  HistoryEntitled'
  <2> DEFINE old == Live(crHist)[k]
             new == [old EXCEPT !.spec = spec, !.generation = @ + 1]
  <2>1. old \in CRs
    BY <1>3, TypeFacts, PresentType DEF Update, UpdateSpec
  <2>2. new \in CRs /\ new.spec = spec
    BY <2>1, UpdatedCRType DEF CRs
  <2>3. WriteCR(k, new) /\ OwnershipExpression(k.ns, spec.tenantId)
    BY <1>3 DEF Update, UpdateSpec
  <2> HIDE DEF new
  <2> QED BY <2>2, <2>3, EntitledWrite
<1>4. CASE DeleteCR(k)
  BY <1>4, EntitledWrite DEF DeleteCR
<1> QED BY <1>1, <1>2, <1>3, <1>4

(* What a step other than an edit can do to the history of the CRs.        *)
LEMMA AdmittedHistorySteps ==
  ASSUME BaseInv, [AdmissionNext]_admissionVars
  PROVE  \/ AdmittedEdit
         \/ /\ unchecked' = unchecked
            /\ \/ UNCHANGED crHist
               \/ DeliverCR
               \/ crHist' = <<Live(crHist)>>
               \/ \E k \in Keys : pc = "status" /\ WriteStatus(k)
<1>1. ASSUME NEW k \in Keys, UpdateStatus(k) \/ StatusError(k)
      PROVE  UNCHANGED crHist \/ (pc = "status" /\ WriteStatus(k))
  BY <1>1, StatusStep
<1>2. DeliverCM \/ RelistCM \/ Tamper \/ CheckDrift \/ Gather \/ ApplyGet
        \/ PatchCM \/ ReGet \/ APIError \/ ReconcileDone \/ Restart
      => UNCHANGED crHist
  BY DEF DeliverCM, RelistCM, Tamper, CheckDrift, Gather, ApplyGet, PatchCM,
       ReGet, APIError, ReconcileDone, Restart
<1>3. BootStep \/ Crash \/ RelistCR => UNCHANGED crHist \/ crHist' = <<Live(crHist)>>
  BY DEF BootStep, BootGet, BootApplyGet, BootPatch, BootReGet, BootSet, Crash,
       Exit, RelistCR
<1>4. UNCHANGED admissionVars => UNCHANGED <<crHist, unchecked>>
  BY DEF admissionVars, vars
<1> QED BY <1>1, <1>2, <1>3, <1>4 DEF AdmissionNext, ReconcileStep

(* Nothing but an edit adds a spec to what the caches may show.            *)
LEMMA EntitledStep ==
  ASSUME BaseInv, HistoryEntitled, [AdmissionNext]_admissionVars
  PROVE  HistoryEntitled'
<1> USE DEF BaseInv
<1>0. /\ Len(crHist) \in Nat \ {0} /\ DOMAIN crHist = 1 .. Len(crHist)
      /\ Live(crHist) \in Snapshots
  BY HistoryFacts DEF TypeOK
<1>1. CASE UNCHANGED crHist
  BY <1>1 DEF HistoryEntitled, Entitled
<1>2. CASE DeliverCR
  <2>1. crHist' = Tail(crHist) /\ Len(crHist) > 1
    BY <1>2 DEF DeliverCR
  <2>2. /\ Tail(crHist) \in Seq(Snapshots)
        /\ Len(Tail(crHist)) = Len(crHist) - 1
        /\ \A i \in 1 .. Len(crHist) - 1 : Tail(crHist)[i] = crHist[i+1]
    BY <2>1, TailFacts DEF TypeOK
  <2>3. DOMAIN crHist' = 1 .. Len(crHist) - 1
    BY <1>0, <2>1, <2>2
  <2>4. ASSUME NEW i \in DOMAIN crHist'
        PROVE  Entitled(crHist'[i])
    <3>1. i + 1 \in DOMAIN crHist
      BY <1>0, <2>3
    <3>2. crHist'[i] = crHist[i+1]
      BY <2>1, <2>2, <2>3
    <3> QED BY <3>1, <3>2 DEF HistoryEntitled
  <2> QED BY <2>4 DEF HistoryEntitled, Entitled
<1>3. CASE crHist' = <<Live(crHist)>>
  <2>1. Entitled(Live(crHist))
    BY <1>0 DEF HistoryEntitled, Live
  <2>2. DOMAIN crHist' = {1} /\ crHist'[1] = Live(crHist)
    BY <1>3
  <2> QED BY <2>1, <2>2 DEF HistoryEntitled, Entitled
<1>4. ASSUME NEW k \in Keys, pc = "status", WriteStatus(k)
      PROVE  HistoryEntitled'
  <2> DEFINE old == Live(crHist)[k]
             new == [old EXCEPT !.status = DesiredStatus(k)]
  <2>1. old \in CRs /\ new \in CRs /\ WriteCR(k, new)
    BY <1>4, StatusWriteFacts
  <2>2. new.spec = old.spec
    BY <2>1 DEF CRs
  <2>3. OwnershipExpression(k.ns, old.spec.tenantId)
    <3>1. Entitled(Live(crHist))
      BY <1>0 DEF HistoryEntitled, Live
    <3>2. old # Absent
      BY <2>1, DistinctAssumption
    <3> QED BY <3>1, <3>2 DEF Entitled
  <2> HIDE DEF old, new
  <2> QED BY <2>1, <2>2, <2>3, EntitledWrite
<1> QED BY <1>1, <1>2, <1>3, <1>4, EntitledEdit, AdmittedHistorySteps

(* What a reconcile works on was in the cache.                             *)
LEMMA SeenEntitledStep ==
  ASSUME BaseInv, HistoryEntitled, Entitled(seen), [Next]_vars
  PROVE  Entitled(seen)'
<1>1. CASE UNCHANGED seen
  BY <1>1 DEF Entitled
<1>2. CASE EndReconcile
  BY <1>2 DEF EndReconcile, Nothing, Entitled
<1>3. CASE Gather
  <2>1. EndReconcile \/ seen' = Cached(crHist)
    BY <1>3 DEF Gather, FailReconcile
  <2>2. 1 \in DOMAIN crHist
    BY HistoryFacts DEF BaseInv, TypeOK
  <2> QED BY <1>2, <2>1, <2>2 DEF HistoryEntitled, Cached, Entitled
<1>4. CASE UserEdit \/ CheckDrift \/ ApplyGet \/ PatchCM
           \/ (\E k \in Keys : UpdateStatus(k)) \/ (\E k \in Keys : StatusError(k))
  BY <1>1, <1>4 DEF UserEdit, CheckDrift, ApplyGet, PatchCM, UpdateStatus,
       StatusError
<1>5. CASE ReGet \/ APIError \/ ReconcileDone \/ Crash
  BY <1>1, <1>2, <1>5 DEF ReGet, APIError, FailReconcile, ReconcileDone, Crash, Exit
<1>6. CASE Tamper \/ DeliverCR \/ DeliverCM \/ RelistCR \/ RelistCM \/ Restart
           \/ UNCHANGED vars
  BY <1>1, <1>6 DEF Tamper, DeliverCR, DeliverCM, RelistCR, RelistCM, Restart,
       vars, process, locals
<1>7. CASE BootStep
  BY <1>1, <1>2, <1>7 DEF BootStep, BootGet, BootApplyGet, BootPatch, BootReGet,
       BootSet, Exit, locals
<1> QED
  BY <1>3, <1>4, <1>5, <1>6, <1>7 DEF Next, ReconcileStep

(* A reconcile merges into a tenant only CRs of namespaces the tenant      *)
(* belongs to, if that is true of the CRs there were before the policy:    *)
(* what the policy asks of a request is enough for the tenant that is      *)
(* derived later, from a cache.                                            *)
THEOREM ContributorsAreEntitled ==
  ASSUME InitialEntitled
  PROVE  AdmissionSpec => []ContributorsEntitled
<1>1. AdmissionInit => HistoryEntitled /\ Entitled(seen)
  <2> SUFFICES ASSUME AdmissionInit PROVE HistoryEntitled /\ Entitled(seen)
    OBVIOUS
  <2> DEFINE initial(specs) ==
        [k \in Keys |-> IF specs[k] = Absent THEN Absent ELSE NewCR(specs[k])]
  <2>1. PICK specs \in InitialSpecs : crHist = << initial(specs) >>
    BY DEF AdmissionInit, Init
  <2>2. Entitled(initial(specs))
    BY InitialEntitled DEF InitialEntitled, Entitled, NewCR
  <2>3. DOMAIN crHist = {1} /\ crHist[1] = initial(specs)
    BY <2>1
  <2>4. HistoryEntitled
    <3> HIDE DEF initial
    <3> QED BY <2>2, <2>3 DEF HistoryEntitled
  <2>5. Entitled(seen)
    BY DEF AdmissionInit, Init, Nothing, Entitled
  <2> QED BY <2>4, <2>5
<1>2. /\ BaseInv /\ HistoryEntitled /\ Entitled(seen)
      /\ [AdmissionNext]_admissionVars
      => HistoryEntitled' /\ Entitled(seen)'
  BY EntitledStep, SeenEntitledStep, StepAdmitted
<1>3. Entitled(seen) => ContributorsEntitled
  BY DEF Entitled, ContributorsEntitled, Present, MayWrite, OwnershipExpression,
     Effective
<1> QED BY <1>1, <1>2, <1>3, AdmissionImplements, BaseInvariant, PTL DEF AdmissionSpec

-----------------------------------------------------------------------------
(* The webhook's verdict, kept in unchecked, stays that of the live spec.  *)
LEMMA CheckedWrite ==
  ASSUME TypeOK, CheckedValid, NEW k \in Keys, NEW cr \in CRs \cup {Absent},
         WriteCR(k, cr), unchecked \ {k} \subseteq unchecked',
         cr # Absent /\ k \notin unchecked' => validateSpec(cr.spec)
  PROVE  CheckedValid'
<1>1. Live(crHist') = [Live(crHist) EXCEPT ![k] = cr]
  BY WriteCRType
<1>2. Live(crHist) \in Snapshots
  BY TypeFacts
<1>3. /\ Live(crHist')[k] = cr
      /\ \A j \in Keys \ {k} : Live(crHist')[j] = Live(crHist)[j]
  BY <1>1, <1>2 DEF Snapshots
<1>4. ASSUME NEW j \in Keys, Live(crHist')[j] # Absent, j \notin unchecked'
      PROVE  validateSpec(Live(crHist')[j].spec)
  <2>1. CASE j = k
    BY <1>3, <1>4, <2>1
  <2>2. CASE j # k
    BY <1>3, <1>4, <2>2 DEF CheckedValid, Present
  <2> QED BY <2>1, <2>2
<1> QED BY <1>4 DEF CheckedValid, Present, validateSpec

LEMMA CheckedEdit ==
  ASSUME BaseInv, CheckedValid, AdmittedEdit
  PROVE  CheckedValid'
<1> USE DEF BaseInv
<1>1. PICK k \in Keys :
        \/ \E spec \in Specs : /\ Create(k, spec) \/ Update(k, spec)
                               /\ Passes(k, spec) \/ Slips(k, spec)
        \/ DeleteCR(k) /\ unchecked' = unchecked \ {k}
  BY DEF AdmittedEdit
<1>2. ASSUME NEW spec \in Specs, Create(k, spec) \/ Update(k, spec),
             Passes(k, spec) \/ Slips(k, spec)
      PROVE  CheckedValid'
  <2>1. /\ unchecked \ {k} \subseteq unchecked'
        /\ k \notin unchecked' => validateSpec(spec)
    BY <1>2 DEF Passes, Slips
  <2>2. \E cr \in CRs : WriteCR(k, cr) /\ cr.spec = spec
    <3>1. CASE Create(k, spec)
      <4>1. NewCR(spec).spec = spec
        BY DEF NewCR
      <4> QED BY <3>1, <4>1, NewCRType DEF Create, CreateCR
    <3>2. CASE Update(k, spec)
      <4> DEFINE old == Live(crHist)[k]
                 new == [old EXCEPT !.spec = spec, !.generation = @ + 1]
      <4>1. old \in CRs
        BY <3>2, TypeFacts, PresentType DEF Update, UpdateSpec
      <4>2. new \in CRs /\ new.spec = spec
        BY <4>1, UpdatedCRType DEF CRs
      <4>3. WriteCR(k, new)
        BY <3>2 DEF Update, UpdateSpec
      <4> HIDE DEF new
      <4> QED BY <4>2, <4>3
    <3> QED BY <1>2, <3>1, <3>2
  <2> QED BY <2>1, <2>2, CheckedWrite
<1>3. CASE DeleteCR(k) /\ unchecked' = unchecked \ {k}
  BY <1>3, CheckedWrite DEF DeleteCR
<1> QED BY <1>1, <1>2, <1>3

LEMMA CheckedStep ==
  ASSUME BaseInv, CheckedValid, [AdmissionNext]_admissionVars
  PROVE  CheckedValid'
<1>1. CASE AdmittedEdit
  BY <1>1, CheckedEdit
<1>2. CASE unchecked' = unchecked /\ Live(crHist') = Live(crHist)
  BY <1>2 DEF CheckedValid, Present, validateSpec
<1>3. ASSUME NEW k \in Keys, pc = "status", WriteStatus(k), unchecked' = unchecked
      PROVE  CheckedValid'
  <2> DEFINE old == Live(crHist)[k]
             new == [old EXCEPT !.status = DesiredStatus(k)]
  <2>1. old \in CRs /\ new \in CRs /\ WriteCR(k, new)
    BY <1>3, StatusWriteFacts
  <2>2. new.spec = old.spec /\ old # Absent
    BY <2>1, DistinctAssumption DEF CRs
  <2>3. k \notin unchecked => validateSpec(old.spec)
    BY <2>2 DEF CheckedValid, Present
  <2> HIDE DEF old, new
  <2> QED BY <1>3, <2>1, <2>2, <2>3, CheckedWrite DEF BaseInv
<1>4. DeliverCR => Live(crHist') = Live(crHist)
  BY TailFacts DEF DeliverCR, BaseInv, TypeOK
<1>5. crHist' = <<Live(crHist)>> => Live(crHist') = Live(crHist)
  BY TypeFacts, SingletonFacts DEF BaseInv
<1> QED BY <1>1, <1>2, <1>3, <1>4, <1>5, AdmittedHistorySteps

(* Who got the webhook's yes is not told otherwise by a reconcile: the     *)
(* webhook's verdict is that of the live spec, and a status that claims    *)
(* the current generation is truthful.                                     *)
THEOREM CheckedAreNotRejected == AdmissionSpec => []CheckedNotRejected
<1>1. AdmissionInit => CheckedValid
  BY DEF AdmissionInit, CheckedValid
<1>2. /\ BaseInv /\ CheckedValid /\ [AdmissionNext]_admissionVars
      => CheckedValid'
  BY CheckedStep
<1>3. StatusTruthful /\ CheckedValid => CheckedNotRejected
  BY DEF StatusTruthful, CheckedValid, CheckedNotRejected, validateSpec
<1> QED
  BY <1>1, <1>2, <1>3, AdmissionImplements, BaseInvariant, StatusIsTruthful, PTL
     DEF AdmissionSpec

-----------------------------------------------------------------------------
(* The operator: to each target a step of the other is no step, its end    *)
(* by the other's error, or a crash or a restart of both.                  *)

UsedOK == used \in [Disturbances -> Nat]

LEMMA UsedStep ==
  ASSUME UsedOK, [OperatorNext]_operatorVars
  PROVE  UsedOK' /\ used'["relistCR"] = used["relistCR"]
<1>1. CASE UNCHANGED used
  BY <1>1 DEF UsedOK, Disturbances
<1>2. CASE ProcessCrash
  BY <1>2 DEF ProcessCrash, Crash, Spend, UsedOK, Disturbances
<1>3. ReconcileStep \/ DeliverCR \/ DeliverCM \/ BootStep \/ Restart => UNCHANGED used
  BY DEF ReconcileStep, CheckDrift, Gather, ApplyGet, PatchCM, ReGet, UpdateStatus,
       ReconcileDone, DeliverCR, DeliverCM, BootStep, BootGet, BootApplyGet,
       BootPatch, BootReGet, BootSet, Restart
<1>4. MimirReconcile \/ MimirWatches => UNCHANGED used
  BY DEF MimirReconcile, MimirCheckDrift, MimirGather, MimirApply,
       MimirUpdateStatuses, MimirWatches, Mimir!CheckDrift, Mimir!Gather,
       Mimir!ApplyGet, Mimir!PatchCM, Mimir!ReGet, Mimir!UpdateStatus,
       Mimir!ReconcileDone, Mimir!DeliverCR, Mimir!DeliverCM
<1>5. Mimir!BootStep => UNCHANGED used
  BY DEF Mimir!BootStep, Mimir!BootGet, Mimir!BootApplyGet, Mimir!BootPatch,
       Mimir!BootReGet, Mimir!BootSet
<1> QED
  BY <1>1, <1>2, <1>3, <1>4, <1>5 DEF OperatorNext, LokiReconcile, LokiWatches,
     Bootstrap, BootstrapLoki, BootstrapMimir, ProcessRestart, operatorVars

(* Neither target's watch of its CRs breaks here.                          *)
LEMMA NoRelist ==
  ASSUME UsedOK, [OperatorNext]_operatorVars
  PROVE  ~ RelistCR
BY UsedStep DEF RelistCR, Spend, UsedOK, Disturbances

LEMMA OthersKeepProcess ==
  /\ MimirReconcile \/ MimirWatches => UNCHANGED <<up, used>>
  /\ Mimir!BootStep => UNCHANGED used /\ (Mimir!Exit \/ UNCHANGED up)
<1>1. MimirReconcile \/ MimirWatches => UNCHANGED <<up, used>>
  BY DEF MimirReconcile, MimirCheckDrift, MimirGather, MimirApply,
       MimirUpdateStatuses, MimirWatches, Mimir!CheckDrift, Mimir!Gather,
       Mimir!ApplyGet, Mimir!PatchCM, Mimir!ReGet, Mimir!UpdateStatus,
       Mimir!ReconcileDone, Mimir!DeliverCR, Mimir!DeliverCM
<1>2. Mimir!BootStep => UNCHANGED used /\ (Mimir!Exit \/ UNCHANGED up)
  BY DEF Mimir!BootStep, Mimir!BootGet, Mimir!BootApplyGet, Mimir!BootPatch,
       Mimir!BootReGet, Mimir!BootSet
<1> QED BY <1>1, <1>2

LEMMA LokiStep ==
  ASSUME UsedOK, [OperatorNext]_operatorVars
  PROVE  [Next \/ EndedByOther]_vars
<1>0. UNCHANGED <<lokiVars, up, used>> => UNCHANGED vars
  BY DEF lokiVars, vars, process
<1>1. CASE LokiReconcile \/ LokiWatches \/ BootstrapLoki \/ ProcessCrash \/ ProcessRestart
  BY <1>1 DEF LokiReconcile, LokiWatches, BootstrapLoki, ProcessCrash,
       ProcessRestart, Next
<1>2. CASE MimirReconcile \/ MimirWatches
  BY <1>0, <1>2, OthersKeepProcess DEF MimirReconcile, MimirCheckDrift, MimirGather,
       MimirApply, MimirUpdateStatuses, MimirWatches
<1>3. CASE BootstrapMimir
  <2>1. CASE Exit
    BY <1>3, <2>1, OthersKeepProcess DEF BootstrapMimir, EndedByOther
  <2>2. CASE ~ Exit
    BY <1>0, <1>3, <2>2, OthersKeepProcess DEF BootstrapMimir, Mimir!Exit
  <2> QED BY <2>1, <2>2
<1>4. CASE UNCHANGED operatorVars
  BY <1>0, <1>4 DEF operatorVars
<1> QED BY <1>1, <1>2, <1>3, <1>4 DEF OperatorNext, Bootstrap

(* The Loki target beside the Mimir one.                                   *)
LEMMA LokiImplements == OperatorSpec => SharedSpec /\ RelistsWake
<1>1. OperatorInit => UsedOK /\ Init
  BY DEF OperatorInit, Init, UsedOK
<1>2. UsedOK /\ [OperatorNext]_operatorVars => UsedOK' /\ [RelistWakes]_vars
  BY UsedStep, NoRelist DEF RelistWakes
<1>3. UsedOK /\ [OperatorNext]_operatorVars => [Next \/ EndedByOther]_vars
  BY LokiStep
<1> QED BY <1>1, <1>2, <1>3, PTL DEF OperatorSpec, SharedSpec, RelistsWake

-----------------------------------------------------------------------------
(* What WakeupProofs says of a target, said of Mimir's.  Mimir and MimirP  *)
(* instantiate the same definitions and name them apart.                   *)
MimirP == INSTANCE WakeupProofs WITH
  Keys <- MimirKeys, Specs <- MimirSpecs, InitialSpecs <- MimirInitialSpecs,
  crHist <- mimirCrHist, cmHist <- mimirCmHist, queued <- mimirQueued,
  hashCache <- mimirHashCache, pc <- mimirPc, drift <- mimirDrift,
  seen <- mimirSeen, body <- mimirBody, fresh <- mimirFresh, todo <- mimirTodo,
  conflictHit <- mimirConflictHit, boot <- mimirBoot, bootHash <- mimirBootHash

LEMMA SameSequences ==
  ASSUME NEW S
  PROVE  Mimir!SetToSeq(S) = MimirP!SetToSeq(S)
BY DEF Mimir!SetToSeq, MimirP!SetToSeq, Mimir!IsInjective, MimirP!IsInjective,
       Mimir!Cardinality, MimirP!Cardinality

USE DEF Mimir!LayeredBelow, MimirP!LayeredBelow

LEMMA SameMerged ==
  ASSUME NEW specs, NEW G
  PROVE  Mimir!Merged(specs, G) = MimirP!Merged(specs, G)
<1>1. Mimir!SortGroup(specs, G) = MimirP!SortGroup(specs, G)
  BY SameSequences DEF Mimir!SortGroup, MimirP!SortGroup, Mimir!SetToSortSeq,
     MimirP!SetToSortSeq
<1> QED
  BY <1>1 DEF Mimir!Merged, MimirP!Merged, Mimir!FoldLeft, MimirP!FoldLeft,
     Mimir!MapThenFoldSet, MimirP!MapThenFoldSet, Mimir!Max, MimirP!Max,
     Mimir!DeepMerge, MimirP!DeepMerge

LEMMA SameGroups ==
  /\ Mimir!Tenants = MimirP!Tenants
  /\ \A specs, t : Mimir!GroupByTenant(specs, t) = MimirP!GroupByTenant(specs, t)
BY DEF Mimir!Tenants, MimirP!Tenants, Mimir!GroupByTenant, MimirP!GroupByTenant,
       Mimir!ValidKeys, MimirP!ValidKeys, Mimir!Effective, MimirP!Effective,
       Mimir!Validate, MimirP!Validate

LEMMA SameDesired ==
  ASSUME NEW specs
  PROVE  Mimir!Desired(specs) = MimirP!Desired(specs)
BY SameMerged, SameGroups DEF Mimir!Desired, MimirP!Desired, Mimir!Render,
   MimirP!Render, Mimir!Output, MimirP!Output, Mimir!Validate, MimirP!Validate

LEMMA SamePanics ==
  ASSUME NEW specs
  PROVE  Mimir!MergePanics(specs) <=> MimirP!MergePanics(specs)
<1>1. \A t : Mimir!GroupPanics(specs, MimirP!GroupByTenant(specs, t))
                <=> MimirP!GroupPanics(specs, MimirP!GroupByTenant(specs, t))
  BY DEF Mimir!GroupPanics, MimirP!GroupPanics
<1> QED BY <1>1, SameGroups DEF Mimir!MergePanics, MimirP!MergePanics

LEMMA SameStatus ==
  ASSUME NEW crs, NEW k, NEW hash
  PROVE  Mimir!computeDesiredStatus(crs, k, hash) = MimirP!computeDesiredStatus(crs, k, hash)
<1>1. Mimir!computePeers(Mimir!SpecsOf(crs), k) = MimirP!computePeers(Mimir!SpecsOf(crs), k)
  BY SameGroups DEF Mimir!computePeers, MimirP!computePeers, Mimir!Effective,
     MimirP!Effective
<1> QED
  BY <1>1 DEF Mimir!computeDesiredStatus, MimirP!computeDesiredStatus,
     Mimir!Effective, MimirP!Effective, Mimir!ValidKeys, MimirP!ValidKeys,
     Mimir!Validate, MimirP!Validate, Mimir!SpecsOf, MimirP!SpecsOf

HIDE DEF Mimir!LayeredBelow, MimirP!LayeredBelow

USE DEF Mimir!Cached, MimirP!Cached, Mimir!Live, MimirP!Live, Mimir!Present,
        MimirP!Present, Mimir!SpecsOf, MimirP!SpecsOf, Mimir!Hash, MimirP!Hash,
        Mimir!Push, MimirP!Push, Mimir!Nothing, MimirP!Nothing,
        Mimir!EndReconcile, MimirP!EndReconcile, Mimir!FailReconcile,
        MimirP!FailReconcile, Mimir!Exit, MimirP!Exit, Mimir!bootVars,
        MimirP!bootVars, Mimir!locals, MimirP!locals

LEMMA MimirGathers == Mimir!Gather => MimirP!Gather
BY SameDesired, SamePanics DEF Mimir!Gather, MimirP!Gather

LEMMA MimirUpdatesStatus ==
  ASSUME NEW k \in MimirKeys, Mimir!UpdateStatus(k)
  PROVE  MimirP!UpdateStatus(k)
BY SameStatus DEF Mimir!UpdateStatus, MimirP!UpdateStatus, Mimir!NeedsUpdate,
   MimirP!NeedsUpdate, Mimir!WriteStatus, MimirP!WriteStatus, Mimir!DesiredStatus,
   MimirP!DesiredStatus, Mimir!WriteCR, MimirP!WriteCR

LEMMA MimirReconciles == MimirReconcile => MimirP!ReconcileStep
<1>1. Mimir!CheckDrift => MimirP!CheckDrift
  BY DEF Mimir!CheckDrift, MimirP!CheckDrift
<1>2. Mimir!ApplyGet => MimirP!ApplyGet
  BY DEF Mimir!ApplyGet, MimirP!ApplyGet, Mimir!Applied, MimirP!Applied
<1>3. Mimir!PatchCM => MimirP!PatchCM
  BY DEF Mimir!PatchCM, MimirP!PatchCM, Mimir!ServerSideApply, MimirP!ServerSideApply
<1>4. Mimir!ReGet => MimirP!ReGet
  BY DEF Mimir!ReGet, MimirP!ReGet, Mimir!Applied, MimirP!Applied
<1>5. Mimir!ReconcileDone => MimirP!ReconcileDone
  BY DEF Mimir!ReconcileDone, MimirP!ReconcileDone
<1> QED
  BY <1>1, <1>2, <1>3, <1>4, <1>5, MimirGathers, MimirUpdatesStatus
     DEF MimirReconcile, MimirCheckDrift, MimirGather, MimirApply,
         MimirUpdateStatuses, MimirP!ReconcileStep

LEMMA MimirDelivers == MimirWatches => MimirP!DeliverCR \/ MimirP!DeliverCM
<1>1. Mimir!DeliverCR => MimirP!DeliverCR
  BY DEF Mimir!DeliverCR, MimirP!DeliverCR, Mimir!GenerationChanged,
     MimirP!GenerationChanged
<1>2. Mimir!DeliverCM => MimirP!DeliverCM
  BY DEF Mimir!DeliverCM, MimirP!DeliverCM, Mimir!outputCMPredicate,
     MimirP!outputCMPredicate
<1> QED BY <1>1, <1>2 DEF MimirWatches

LEMMA MimirBoots == Mimir!BootStep => MimirP!BootStep
<1>0. Mimir!EmptyBody = MimirP!EmptyBody
  BY DEF Mimir!EmptyBody, MimirP!EmptyBody, Mimir!Render, MimirP!Render
<1>1. Mimir!BootGet => MimirP!BootGet
  BY DEF Mimir!BootGet, MimirP!BootGet
<1>2. Mimir!BootApplyGet => MimirP!BootApplyGet
  BY <1>0 DEF Mimir!BootApplyGet, MimirP!BootApplyGet
<1>3. Mimir!BootPatch => MimirP!BootPatch
  BY <1>0 DEF Mimir!BootPatch, MimirP!BootPatch, Mimir!ServerSideApply,
     MimirP!ServerSideApply
<1>4. Mimir!BootReGet => MimirP!BootReGet
  BY <1>0 DEF Mimir!BootReGet, MimirP!BootReGet
<1>5. Mimir!BootSet => MimirP!BootSet
  BY DEF Mimir!BootSet, MimirP!BootSet
<1> QED BY <1>1, <1>2, <1>3, <1>4, <1>5 DEF Mimir!BootStep, MimirP!BootStep

LEMMA MimirEnds ==
  /\ Mimir!Exit => MimirP!Exit
  /\ Crash /\ Mimir!Exit => MimirP!Crash
  /\ Mimir!Restart => MimirP!Restart
<1>1. Mimir!Exit => MimirP!Exit
  OBVIOUS
<1>2. Crash /\ Mimir!Exit => MimirP!Crash
  BY <1>1 DEF Crash, Spend, MimirP!Crash, MimirP!Spend
<1>3. Mimir!Restart => MimirP!Restart
  BY DEF Mimir!Restart, MimirP!Restart
<1> QED BY <1>1, <1>2, <1>3

LEMMA MimirInits == Init /\ Mimir!Init => MimirP!Init
BY DEF Init, Mimir!Init, MimirP!Init, Mimir!NewCR, MimirP!NewCR, Mimir!NoStatus,
       MimirP!NoStatus, Mimir!Disturbances, MimirP!Disturbances, Disturbances

LEMMA MimirRests == MimirP!SettledConverged <=> Mimir!SettledConverged
BY SameDesired DEF Mimir!SettledConverged, MimirP!SettledConverged, Mimir!Settled,
   MimirP!Settled, Mimir!Converged, MimirP!Converged

HIDE DEF Mimir!Cached, MimirP!Cached, Mimir!Live, MimirP!Live, Mimir!Present,
        MimirP!Present, Mimir!SpecsOf, MimirP!SpecsOf, Mimir!Hash, MimirP!Hash,
        Mimir!Push, MimirP!Push, Mimir!Nothing, MimirP!Nothing,
        Mimir!EndReconcile, MimirP!EndReconcile, Mimir!FailReconcile,
        MimirP!FailReconcile, Mimir!Exit, MimirP!Exit

LEMMA MimirStep ==
  ASSUME UsedOK, [OperatorNext]_operatorVars
  PROVE  [MimirP!Next \/ MimirP!EndedByOther]_(MimirP!vars)
<1>0. UNCHANGED <<mimirVars, up, used>> => UNCHANGED MimirP!vars
  BY DEF mimirVars, MimirP!vars, MimirP!process, MimirP!locals, MimirP!bootVars
<1>1. CASE MimirReconcile \/ MimirWatches
  BY <1>1, MimirReconciles, MimirDelivers DEF MimirP!Next
<1>2. CASE BootstrapMimir
  BY <1>2, MimirBoots DEF BootstrapMimir, MimirP!Next
<1>3. CASE ProcessCrash \/ ProcessRestart
  BY <1>3, MimirEnds DEF ProcessCrash, ProcessRestart, MimirP!Next
<1>4. CASE LokiReconcile \/ LokiWatches
  <2>1. UNCHANGED <<up, used>>
    BY <1>4 DEF LokiReconcile, LokiWatches, ReconcileStep, CheckDrift, Gather,
       ApplyGet, PatchCM, ReGet, UpdateStatus, ReconcileDone, DeliverCR, DeliverCM
  <2> QED BY <1>0, <1>4, <2>1 DEF LokiReconcile, LokiWatches
<1>5. CASE BootstrapLoki
  <2>1. UNCHANGED used /\ (Exit \/ UNCHANGED up)
    BY <1>5 DEF BootstrapLoki, BootStep, BootGet, BootApplyGet, BootPatch,
       BootReGet, BootSet
  <2>2. CASE Mimir!Exit
    BY <2>1, <2>2, MimirEnds DEF MimirP!EndedByOther
  <2>3. CASE ~ Mimir!Exit
    <3>1. up' /\ UNCHANGED mimirVars
      BY <1>5, <2>3 DEF BootstrapLoki
    <3>2. UNCHANGED up
      BY <2>1, <3>1 DEF Exit
    <3> QED BY <1>0, <2>1, <3>1, <3>2
  <2> QED BY <2>2, <2>3
<1>6. CASE UNCHANGED operatorVars
  BY <1>0, <1>6 DEF operatorVars
<1> QED BY <1>1, <1>2, <1>3, <1>4, <1>5, <1>6 DEF OperatorNext, Bootstrap

LEMMA MimirNoRelist ==
  ASSUME UsedOK, [OperatorNext]_operatorVars
  PROVE  ~ MimirP!RelistCR
BY UsedStep DEF MimirP!RelistCR, MimirP!Spend, UsedOK, Disturbances

(* The Mimir target beside the Loki one.                                   *)
LEMMA MimirImplements == OperatorSpec => MimirP!SharedSpec /\ MimirP!RelistsWake
<1>1. OperatorInit => UsedOK /\ MimirP!Init
  BY MimirInits DEF OperatorInit, Init, UsedOK
<1>2. /\ UsedOK /\ [OperatorNext]_operatorVars
      => UsedOK' /\ [MimirP!RelistWakes]_(MimirP!vars)
  BY UsedStep, MimirNoRelist DEF MimirP!RelistWakes
<1>3. /\ UsedOK /\ [OperatorNext]_operatorVars
      => [MimirP!Next \/ MimirP!EndedByOther]_(MimirP!vars)
  BY MimirStep
<1> QED
  BY <1>1, <1>2, <1>3, PTL DEF OperatorSpec, MimirP!SharedSpec, MimirP!RelistsWake

(* What module Reconciler assumes of the constants, of Mimir's.            *)
LEMMA MimirAssumptions ==
  /\ MimirKeys \subseteq [ns : Nat \ {0}, name : Nat \ {0}]
  /\ MimirSpecs \subseteq [tenantId : Nat, weight : Int, overrides : MimirP!OverrideMaps]
  /\ ValidOverrides \subseteq MimirP!OverrideMaps
  /\ Absent \notin MimirSpecs
  /\ MimirInitialSpecs \subseteq [MimirKeys -> MimirSpecs \cup {Absent}]
  /\ InitialCMs \subseteq {Absent, NoKey} \cup Foreign
  /\ Limit \in [MimirP!Disturbances -> Nat]
  /\ Absent # NoKey
  /\ Absent \notin Foreign
  /\ Absent \notin MimirP!CRs
  /\ \A x \in {Absent, NoKey, NoBody} \cup Foreign : x \notin MimirP!Bodies
<1>1. MimirP!OverrideMaps = OverrideMaps
  BY DEF MimirP!OverrideMaps, OverrideMaps
<1>2. Mimir!OverrideMaps = MimirP!OverrideMaps
  BY DEF MimirP!OverrideMaps, Mimir!OverrideMaps
<1>3. Mimir!Bodies = MimirP!Bodies
  BY <1>2, SameGroups DEF Mimir!Bodies, MimirP!Bodies, Mimir!Outputs, MimirP!Outputs
<1>4. Mimir!Statuses = MimirP!Statuses
  BY <1>3, SameGroups DEF Mimir!Statuses, MimirP!Statuses
<1>5. Mimir!CRs = MimirP!CRs
  BY <1>4 DEF Mimir!CRs, MimirP!CRs
<1>6. MimirP!Disturbances = Disturbances
  BY DEF MimirP!Disturbances, Disturbances
<1> QED
  BY <1>1, <1>3, <1>5, <1>6, MimirAssumption, ValidAssumption, InitialAssumption,
     LimitAssumption, DistinctAssumption

(* Each target is at rest only with what it promises delivered, for any    *)
(* CRs of either kind, however the steps of the two are interleaved, and   *)
(* whichever of them ends the process at whatever step of the other.       *)
THEOREM BothAreServed == OperatorSpec => []BothServe
<1>1. OperatorSpec => []SettledConverged
  BY LokiImplements, SharedProcessIsSafe, PTL
<1>2. MimirP!SharedSpec /\ MimirP!RelistsWake => []MimirP!SettledConverged
  BY MimirAssumptions, MimirP!SharedProcessIsSafe, PTL
<1>3. OperatorSpec => []Mimir!SettledConverged
  BY <1>2, MimirImplements, MimirRests, PTL
<1> QED BY <1>1, <1>3, PTL DEF BothServe
=============================================================================
