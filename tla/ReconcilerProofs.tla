-------------------------- MODULE ReconcilerProofs --------------------------
(***************************************************************************)
(* Proofs about Reconciler for every set of CRs, every set of specs, every *)
(* validator and every limit on edits, third-party writes and failures.    *)
(***************************************************************************)
EXTENDS ReconcilerInv, TLAPS

-----------------------------------------------------------------------------
(* The pipeline from specs to body.                                        *)

(* The tenant a CR's spec names or defaults to is one of Tenants.          *)
LEMMA EffectiveType ==
  ASSUME NEW k \in Keys, NEW spec \in Specs
  PROVE  Effective(k, spec) \in Tenants
BY DEF Tenants

(* Output keeps a tenant only with a merged document that validates.       *)
LEMMA OutputValid ==
  ASSUME NEW specs
  PROVE  /\ DOMAIN Output(specs) \subseteq Tenants
         /\ \A t \in DOMAIN Output(specs) : Output(specs)[t] \in ValidOverrides
BY DEF Output, Validate

(* A rendered body is one of Bodies.                                       *)
LEMMA DesiredType ==
  ASSUME NEW specs
  PROVE  Desired(specs) \in Bodies
<1> DEFINE out == Output(specs)
           D   == DOMAIN out
<1>1. out = [t \in D |-> out[t]]
  BY DEF Output
<1>2. \A t \in D : out[t] \in OverrideMaps
  BY OutputValid, ValidAssumption
<1>3. out \in [D -> OverrideMaps]
  <2> HIDE DEF out, D
  <2> QED BY <1>1, <1>2
<1>4. D \in SUBSET Tenants
  BY OutputValid
<1>5. out \in Outputs
  <2> HIDE DEF out, D
  <2> QED BY <1>3, <1>4 DEF Outputs
<1> QED BY <1>5 DEF Desired, Render, Bodies

(* So is the empty body the bootstrap writes.                              *)
LEMMA EmptyBodyType == EmptyBody \in Bodies
<1> DEFINE none == [t \in {} |-> t]
<1>1. none \in [{} -> OverrideMaps]
  OBVIOUS
<1>2. {} \in SUBSET Tenants
  OBVIOUS
<1>3. none \in Outputs
  <2> HIDE DEF none
  <2> QED BY <1>1, <1>2 DEF Outputs
<1> QED BY <1>3 DEF EmptyBody, Render, Bodies

-----------------------------------------------------------------------------
(* Histories.                                                              *)

(* A history's cached and live states, and what appending, dropping the    *)
(* delivered event and starting afresh do to them.                         *)
LEMMA HistoryFacts ==
  ASSUME NEW S, NEW h \in Seq(S), h # <<>>
  PROVE  /\ Len(h) \in Nat \ {0}
         /\ DOMAIN h = 1 .. Len(h)
         /\ \A i \in 1 .. Len(h) : h[i] \in S
         /\ Cached(h) \in S /\ Live(h) \in S
         /\ Len(h) = 1 => Cached(h) = Live(h)
BY DEF Cached, Live

LEMMA AppendFacts ==
  ASSUME NEW S, NEW h \in Seq(S), h # <<>>, NEW x \in S
  PROVE  /\ Append(h, x) \in Seq(S) /\ Append(h, x) # <<>>
         /\ Len(Append(h, x)) = Len(h) + 1
         /\ \A i \in 1 .. Len(h) : Append(h, x)[i] = h[i]
         /\ Append(h, x)[Len(h) + 1] = x
         /\ Live(Append(h, x)) = x
         /\ Cached(Append(h, x)) = Cached(h)
<1>1. Len(h) \in Nat \ {0} BY HistoryFacts
<1>2. /\ Append(h, x) \in Seq(S)
      /\ Len(Append(h, x)) = Len(h) + 1
      /\ \A i \in 1 .. Len(h) : Append(h, x)[i] = h[i]
      /\ Append(h, x)[Len(h) + 1] = x
  BY <1>1
<1> QED BY <1>1, <1>2 DEF Live, Cached

LEMMA SingletonFacts ==
  ASSUME NEW S, NEW x \in S
  PROVE  /\ <<x>> \in Seq(S) /\ <<x>> # <<>>
         /\ Len(<<x>>) = 1
         /\ <<x>>[1] = x
         /\ Live(<<x>>) = x /\ Cached(<<x>>) = x
BY DEF Live, Cached

LEMMA TailFacts ==
  ASSUME NEW S, NEW h \in Seq(S), Len(h) > 1
  PROVE  /\ Tail(h) \in Seq(S) /\ Tail(h) # <<>>
         /\ Len(Tail(h)) = Len(h) - 1
         /\ \A i \in 1 .. Len(h) - 1 : Tail(h)[i] = h[i+1]
         /\ Live(Tail(h)) = Live(h)
         /\ Cached(Tail(h)) = h[2]
<1>1. Len(h) \in Nat OBVIOUS
<1>2. /\ Tail(h) \in Seq(S)
      /\ Len(Tail(h)) = Len(h) - 1
      /\ \A i \in 1 .. Len(h) - 1 : Tail(h)[i] = h[i+1]
  BY <1>1
<1>3. Len(Tail(h)) \in Nat \ {0}
  BY <1>1, <1>2
<1>4. Tail(h) # <<>>
  <2>1. Len(<<>>) = 0
    OBVIOUS
  <2> QED BY <1>3, <2>1, Zenon
<1>5. Tail(h)[Len(h) - 1] = h[Len(h)] /\ Tail(h)[1] = h[2]
  <2>1. /\ Len(h) - 1 \in 1 .. Len(h) - 1
        /\ 1 \in 1 .. Len(h) - 1
        /\ (Len(h) - 1) + 1 = Len(h)
    BY <1>1
  <2> QED BY <1>2, <2>1
<1> QED BY <1>2, <1>4, <1>5 DEF Live, Cached

(* A write leaves a history of which the written state is the live one.    *)
LEMMA PushFacts ==
  ASSUME NEW S, NEW h \in Seq(S), h # <<>>, NEW x \in S
  PROVE  /\ Push(h, x) \in Seq(S) /\ Push(h, x) # <<>>
         /\ Live(Push(h, x)) = x
BY AppendFacts, SingletonFacts DEF Push

-----------------------------------------------------------------------------
(* Types of the CRs an action writes.                                      *)

LEMMA NewCRType ==
  ASSUME NEW spec \in Specs
  PROVE  NewCR(spec) \in CRs
BY DEF NewCR, NoStatus, CRs, Statuses

LEMMA UpdatedCRType ==
  ASSUME NEW cr \in CRs, NEW spec \in Specs
  PROVE  [cr EXCEPT !.spec = spec, !.generation = @ + 1] \in CRs
<1>1. cr.generation + 1 \in Nat \ {0}
  BY DEF CRs
<1> QED BY <1>1 DEF CRs

LEMMA PresentType ==
  ASSUME NEW crs \in Snapshots, NEW k \in Keys, crs[k] # Absent
  PROVE  crs[k] \in CRs
BY DEF Snapshots

LEMMA StatusType ==
  ASSUME NEW crs \in Snapshots, NEW k \in Keys, crs[k] # Absent, NEW b \in Bodies
  PROVE  /\ computeDesiredStatus(crs, k, Hash(b)) \in Statuses
         /\ computeDesiredStatus(crs, k, Hash(b)).observedGeneration
              = crs[k].generation
         /\ computeDesiredStatus(crs, k, Hash(b)).validated
              = Validate(crs[k].spec.overrides)
         /\ computeDesiredStatus(crs, k, Hash(b)).effectiveTenantId
              = Effective(k, crs[k].spec)
<1> DEFINE specs == SpecsOf(crs)
           peers == computePeers(specs, k)
<1>1. crs[k] \in CRs
  BY PresentType
<1>2. specs[k] = crs[k].spec /\ specs[k] \in Specs
  BY <1>1 DEF SpecsOf, CRs
<1>3. Effective(k, specs[k]) \in Tenants
  BY <1>2, EffectiveType
<1>4. peers \in SUBSET [peer : Keys, weight : Int]
  <2>1. ASSUME NEW j \in ValidKeys(specs)
        PROVE  j \in Keys /\ specs[j].weight \in Int
    <3>1. j \in Keys /\ specs[j] # Absent
      BY DEF ValidKeys
    <3>2. crs[j] # Absent
      BY <3>1 DEF SpecsOf
    <3>3. crs[j].spec \in Specs /\ specs[j] = crs[j].spec
      BY <3>1, <3>2, PresentType DEF SpecsOf, CRs
    <3> QED BY <3>1, <3>3, SpecsAssumption
  <2>2. GroupByTenant(specs, Effective(k, specs[k])) \ {k} \subseteq ValidKeys(specs)
    BY DEF GroupByTenant
  <2> QED BY <2>1, <2>2 DEF computePeers
<1>5. crs[k].spec # Absent
  BY <1>1, AbsentAssumption DEF CRs
<1>6. (k \in ValidKeys(specs)) = Validate(crs[k].spec.overrides)
  BY <1>2, <1>5 DEF ValidKeys, Validate
<1>7. Hash(b) \in [sha256 : Bodies] /\ crs[k].generation \in Nat
  BY <1>1 DEF Hash, CRs
<1> HIDE DEF specs, peers
<1> QED
  BY <1>2, <1>3, <1>4, <1>6, <1>7 DEF computeDesiredStatus, Statuses, Validate, specs, peers

-----------------------------------------------------------------------------
(* Type correctness.                                                       *)

LEMMA TypeInit == Init => TypeOK
<1> SUFFICES ASSUME Init PROVE TypeOK
  OBVIOUS
<1>1. crHist \in Seq(Snapshots) /\ crHist # <<>>
  <2>1. PICK specs \in InitialSpecs :
          crHist = << [k \in Keys |-> IF specs[k] = Absent THEN Absent
                                                         ELSE NewCR(specs[k])] >>
    BY DEF Init
  <2>2. [k \in Keys |-> IF specs[k] = Absent THEN Absent ELSE NewCR(specs[k])]
          \in Snapshots
    BY InitialAssumption, NewCRType DEF Snapshots
  <2> QED BY <2>1, <2>2, SingletonFacts
<1>2. cmHist \in Seq(ConfigMaps) /\ cmHist # <<>>
  <2>1. PICK cm \in InitialCMs : cmHist = <<cm>>
    BY DEF Init
  <2>2. cm \in ConfigMaps
    BY InitialAssumption DEF ConfigMaps
  <2> QED BY <2>1, <2>2, SingletonFacts
<1>3. Nothing \in Snapshots
  BY DEF Nothing, Snapshots
<1> QED BY <1>1, <1>2, <1>3 DEF Init, TypeOK, Hashes

(* What every state of type TypeOK offers the proofs about its steps.      *)
LEMMA TypeFacts ==
  ASSUME TypeOK
  PROVE  /\ Cached(crHist) \in Snapshots /\ Live(crHist) \in Snapshots
         /\ Cached(cmHist) \in ConfigMaps /\ Live(cmHist) \in ConfigMaps
         /\ <<Live(crHist)>> \in Seq(Snapshots) /\ <<Live(crHist)>> # <<>>
         /\ <<Live(cmHist)>> \in Seq(ConfigMaps) /\ <<Live(cmHist)>> # <<>>
         /\ Nothing \in Snapshots
<1>1. /\ Cached(crHist) \in Snapshots /\ Live(crHist) \in Snapshots
      /\ Cached(cmHist) \in ConfigMaps /\ Live(cmHist) \in ConfigMaps
  BY HistoryFacts DEF TypeOK
<1>2. /\ <<Live(crHist)>> \in Seq(Snapshots) /\ <<Live(crHist)>> # <<>>
      /\ <<Live(cmHist)>> \in Seq(ConfigMaps) /\ <<Live(cmHist)>> # <<>>
  BY <1>1, SingletonFacts
<1>3. Nothing \in Snapshots
  BY DEF Nothing, Snapshots
<1> QED BY <1>1, <1>2, <1>3

(* Writing a CR of the right type keeps the history's type.                *)
LEMMA WriteCRType ==
  ASSUME TypeOK, NEW k \in Keys, NEW cr \in CRs \cup {Absent}, WriteCR(k, cr)
  PROVE  /\ crHist' \in Seq(Snapshots) /\ crHist' # <<>>
         /\ fresh' \subseteq Keys
         /\ Live(crHist') = [Live(crHist) EXCEPT ![k] = cr]
<1>1. [Live(crHist) EXCEPT ![k] = cr] \in Snapshots
  BY TypeFacts DEF Snapshots
<1> QED BY <1>1, PushFacts DEF TypeOK, WriteCR

LEMMA ApplyType ==
  ASSUME TypeOK, NEW text \in Bodies, ServerSideApply(text)
  PROVE  /\ cmHist' \in Seq(ConfigMaps) /\ cmHist' # <<>>
         /\ Live(cmHist') = text
<1>1. text \in ConfigMaps
  BY DEF ConfigMaps
<1>2. CASE Live(cmHist) = text
  BY <1>2 DEF TypeOK, ServerSideApply
<1>3. CASE Live(cmHist) # text
  <2>1. cmHist' = Push(cmHist, text)
    BY <1>3 DEF ServerSideApply
  <2> QED BY <1>1, <2>1, PushFacts DEF TypeOK
<1> QED BY <1>2, <1>3

(* Counting a disturbance keeps the counters' type.                        *)
LEMMA SpendType ==
  ASSUME TypeOK, NEW kind \in Disturbances, Spend(kind)
  PROVE  used' \in [Disturbances -> Nat]
BY DEF TypeOK, Spend

-----------------------------------------------------------------------------
(* BaseInv, action by action.                                              *)

LEMMA BaseUserEdit == BaseInv /\ UserEdit => BaseInv'
<1> SUFFICES ASSUME BaseInv, UserEdit PROVE BaseInv'
  OBVIOUS
<1> USE DEF BaseInv
<1>1. PICK k \in Keys, cr \in CRs \cup {Absent} : WriteCR(k, cr)
  <2>1. PICK k \in Keys : \/ \E spec \in Specs : CreateCR(k, spec) \/ UpdateSpec(k, spec)
                         \/ DeleteCR(k)
    BY DEF UserEdit
  <2>2. ASSUME NEW spec \in Specs, CreateCR(k, spec)
        PROVE  \E cr \in CRs \cup {Absent} : WriteCR(k, cr)
    BY <2>2, NewCRType DEF CreateCR
  <2>3. ASSUME NEW spec \in Specs, UpdateSpec(k, spec)
        PROVE  \E cr \in CRs \cup {Absent} : WriteCR(k, cr)
    <3>1. Live(crHist)[k] \in CRs
      BY <2>3, TypeFacts, PresentType DEF UpdateSpec
    <3>2. [Live(crHist)[k] EXCEPT !.spec = spec, !.generation = @ + 1] \in CRs
      BY <3>1, UpdatedCRType
    <3> QED BY <2>3, <3>2 DEF UpdateSpec
  <2>4. ASSUME DeleteCR(k)
        PROVE  \E cr \in CRs \cup {Absent} : WriteCR(k, cr)
    BY <2>4 DEF DeleteCR
  <2> QED BY <2>1, <2>2, <2>3, <2>4
<1>2. /\ crHist' \in Seq(Snapshots) /\ crHist' # <<>>
      /\ fresh' \subseteq Keys
      /\ Live(crHist') = [Live(crHist) EXCEPT ![k] = cr]
  BY <1>1, WriteCRType
<1>3. TypeOK'
  <2>1. used' \in [Disturbances -> Nat]
    BY SpendType DEF UserEdit, Disturbances
  <2> QED BY <1>2, <2>1 DEF UserEdit, TypeOK, bootVars
<1>4. PhaseInv'
  <2>1. ~ up => Len(crHist') = 1
    BY <1>1 DEF WriteCR, Push
  <2> QED BY <1>1, <2>1 DEF UserEdit, PhaseInv, WriteCR, bootVars, PastGather, Present
<1>5. FreshInv'
  <2>1. fresh' = fresh \ {k} /\ seen' = seen
    BY <1>1 DEF WriteCR, UserEdit
  <2>2. \A j \in fresh' : Live(crHist')[j] = Live(crHist)[j]
    BY <1>2, <2>1, TypeFacts DEF Snapshots
  <2> QED BY <2>1, <2>2 DEF FreshInv
<1> QED BY <1>3, <1>4, <1>5

LEMMA BaseTamper == BaseInv /\ Tamper => BaseInv'
<1> SUFFICES ASSUME BaseInv, Tamper PROVE BaseInv'
  OBVIOUS
<1> USE DEF BaseInv
<1>1. PICK cm \in {Absent, NoKey} \cup Foreign : cmHist' = Push(cmHist, cm)
  BY DEF Tamper
<1>2. cmHist' \in Seq(ConfigMaps) /\ cmHist' # <<>>
  <2>1. cm \in ConfigMaps
    BY DEF ConfigMaps
  <2> QED BY <1>1, <2>1, PushFacts DEF TypeOK
<1>3. used' \in [Disturbances -> Nat]
  BY SpendType DEF Tamper, Disturbances
<1>4. TypeOK'
  BY <1>2, <1>3 DEF Tamper, TypeOK, process, locals, bootVars
<1>5. PhaseInv'
  <2>1. ~ up => Len(cmHist') = 1
    BY <1>1 DEF Push
  <2> QED BY <2>1 DEF Tamper, PhaseInv, process, locals, bootVars, PastGather, Present
<1>6. FreshInv'
  BY DEF Tamper, FreshInv, process, locals
<1> QED BY <1>4, <1>5, <1>6

(* The informers move a cache forward and touch nothing else but the queue. *)
LEMMA BaseInformers ==
  BaseInv /\ (DeliverCR \/ DeliverCM \/ RelistCR \/ RelistCM) => BaseInv'
<1> SUFFICES ASSUME BaseInv, DeliverCR \/ DeliverCM \/ RelistCR \/ RelistCM
             PROVE  BaseInv'
  OBVIOUS
<1> USE DEF BaseInv
<1>1. /\ crHist' \in Seq(Snapshots) /\ crHist' # <<>>
      /\ Live(crHist') = Live(crHist)
  <2>1. CASE DeliverCR
    <3>1. crHist' = Tail(crHist) /\ Len(crHist) > 1
      BY <2>1 DEF DeliverCR
    <3> QED BY <3>1, TailFacts DEF TypeOK
  <2>2. CASE RelistCR
    BY <2>2, TypeFacts, SingletonFacts DEF RelistCR
  <2>3. CASE DeliverCM \/ RelistCM
    BY <2>3 DEF DeliverCM, RelistCM, TypeOK
  <2> QED BY <2>1, <2>2, <2>3
<1>2. cmHist' \in Seq(ConfigMaps) /\ cmHist' # <<>>
  <2>1. CASE DeliverCM
    <3>1. cmHist' = Tail(cmHist) /\ Len(cmHist) > 1
      BY <2>1 DEF DeliverCM
    <3> QED BY <3>1, TailFacts DEF TypeOK
  <2>2. CASE RelistCM
    BY <2>2, TypeFacts DEF RelistCM
  <2>3. CASE DeliverCR \/ RelistCR
    BY <2>3 DEF DeliverCR, RelistCR, TypeOK
  <2> QED BY <2>1, <2>2, <2>3
<1>3. used' \in [Disturbances -> Nat]
  <2>1. CASE DeliverCR \/ DeliverCM
    BY <2>1 DEF DeliverCR, DeliverCM, TypeOK
  <2>2. CASE RelistCR
    BY <2>2, SpendType DEF RelistCR, Disturbances
  <2>3. CASE RelistCM
    BY <2>3, SpendType DEF RelistCM, Disturbances
  <2> QED BY <2>1, <2>2, <2>3
<1>4. queued' \in BOOLEAN
  BY DEF DeliverCR, DeliverCM, RelistCR, RelistCM
<1>5. up /\ UNCHANGED <<up, hashCache, locals, bootVars>>
  BY DEF DeliverCR, DeliverCM, RelistCR, RelistCM
<1>6. TypeOK'
  BY <1>1, <1>2, <1>3, <1>4, <1>5 DEF TypeOK, locals, bootVars
<1>7. PhaseInv'
  BY <1>5 DEF PhaseInv, locals, bootVars, PastGather, Present
<1>8. FreshInv'
  BY <1>1, <1>5 DEF FreshInv, locals
<1> QED BY <1>6, <1>7, <1>8

(* Ending a reconcile, by success or by failure, clears what it held.      *)
LEMMA BaseEndReconcile ==
  ASSUME TypeOK, EndReconcile
  PROVE  /\ pc' = "idle" /\ seen' \in Snapshots /\ body' \in Bodies \cup {NoBody}
         /\ fresh' = {} /\ todo' = {}
         /\ drift' \in BOOLEAN /\ conflictHit' \in BOOLEAN
         /\ ~ PastGather'
         /\ FreshInv'
BY TypeFacts DEF EndReconcile, PastGather, FreshInv

LEMMA BaseCheckDrift == BaseInv /\ CheckDrift => BaseInv'
<1> SUFFICES ASSUME BaseInv, CheckDrift PROVE BaseInv'
  OBVIOUS
<1> USE DEF BaseInv
<1>1. TypeOK'
  BY DEF CheckDrift, TypeOK, bootVars
<1>2. PhaseInv'
  BY DEF CheckDrift, PhaseInv, bootVars, PastGather, Present
<1>3. FreshInv'
  BY DEF CheckDrift, FreshInv
<1> QED BY <1>1, <1>2, <1>3

LEMMA BaseGather == BaseInv /\ Gather => BaseInv'
<1> SUFFICES ASSUME BaseInv, Gather PROVE BaseInv'
  OBVIOUS
<1> USE DEF BaseInv
<1>0. up
  BY DEF Gather, PhaseInv
<1>1. CASE FailReconcile
  <2>1. TypeOK'
    BY <1>1, BaseEndReconcile DEF FailReconcile, Gather, TypeOK, bootVars
  <2>2. PhaseInv'
    BY <1>0, <1>1, BaseEndReconcile DEF FailReconcile, Gather, PhaseInv
  <2>3. FreshInv'
    BY <1>1, BaseEndReconcile DEF FailReconcile
  <2> QED BY <2>1, <2>2, <2>3
<1>2. CASE ~ FailReconcile
  <2> DEFINE crs == Cached(crHist)
  <2>1. /\ pc' = "apply"
        /\ seen' = crs
        /\ body' = Desired(SpecsOf(crs))
        /\ fresh' = { k \in Present(crs) :
                        \A i \in DOMAIN crHist : crHist[i][k] = crs[k] }
        /\ UNCHANGED <<queued, drift, todo, conflictHit>>
        /\ UNCHANGED <<crHist, cmHist, up, hashCache, bootVars, used>>
    BY <1>2 DEF Gather
  <2>2. crs \in Snapshots /\ body' \in Bodies
    BY <2>1, TypeFacts, DesiredType
  <2>3. fresh' \subseteq Keys
    BY <2>1 DEF Present
  <2>4. TypeOK'
    <3> HIDE DEF crs
    <3> QED BY <2>1, <2>2, <2>3 DEF TypeOK, bootVars
  <2>5. PhaseInv'
    <3>1. todo = {}
      BY DEF PhaseInv, Gather
    <3> QED BY <1>0, <2>1, <2>2, <3>1 DEF PhaseInv
  <2>6. FreshInv'
    <3>1. Len(crHist) \in DOMAIN crHist
      BY HistoryFacts DEF TypeOK
    <3> QED BY <2>1, <3>1 DEF FreshInv, Present, Live
  <2> QED BY <2>4, <2>5, <2>6
<1> QED BY <1>1, <1>2

(* The hash of a body, and the CRs whose status comes next.                *)
LEMMA BaseApplied ==
  ASSUME TypeOK, Applied, body \in Bodies, UNCHANGED <<seen, body>>
  PROVE  /\ hashCache' \in Hashes
         /\ pc' = "status"
         /\ todo' \subseteq Keys
         /\ todo' \subseteq Present(seen)'
<1>1. Hash(body) \in [sha256 : ConfigMaps \ {Absent}]
  BY DistinctAssumption DEF Hash, ConfigMaps
<1> QED BY <1>1 DEF Applied, Hashes, Present

LEMMA BaseApplyGet == BaseInv /\ ApplyGet => BaseInv'
<1> SUFFICES ASSUME BaseInv, ApplyGet PROVE BaseInv'
  OBVIOUS
<1> USE DEF BaseInv
<1>0. up /\ body \in Bodies
  BY DEF ApplyGet, PhaseInv, PastGather
<1>1. UNCHANGED <<crHist, cmHist, up, queued, drift, seen, body, fresh,
                  conflictHit, bootVars, used>>
  BY DEF ApplyGet
<1>2. FreshInv'
  BY <1>1 DEF FreshInv
<1>3. CASE Applied
  <2>1. TypeOK'
    BY <1>0, <1>1, <1>3, BaseApplied DEF TypeOK, bootVars
  <2>2. PhaseInv'
    BY <1>0, <1>1, <1>3, BaseApplied DEF PhaseInv
  <2> QED BY <1>2, <2>1, <2>2
<1>4. CASE pc' = "patch" /\ UNCHANGED <<hashCache, todo>>
  <2>1. TypeOK'
    BY <1>1, <1>4 DEF TypeOK, bootVars
  <2>2. PhaseInv'
    BY <1>0, <1>1, <1>4 DEF PhaseInv, Present
  <2> QED BY <1>2, <2>1, <2>2
<1> QED BY <1>3, <1>4 DEF ApplyGet

LEMMA BasePatchCM == BaseInv /\ PatchCM => BaseInv'
<1> SUFFICES ASSUME BaseInv, PatchCM PROVE BaseInv'
  OBVIOUS
<1> USE DEF BaseInv
<1>0. up /\ body \in Bodies
  BY DEF PatchCM, PhaseInv, PastGather
<1>1. cmHist' \in Seq(ConfigMaps) /\ cmHist' # <<>>
  BY <1>0, ApplyType DEF PatchCM
<1>2. TypeOK'
  BY <1>1 DEF PatchCM, TypeOK, bootVars
<1>3. PhaseInv'
  BY <1>0 DEF PatchCM, PhaseInv, Present
<1>4. FreshInv'
  BY DEF PatchCM, FreshInv
<1> QED BY <1>2, <1>3, <1>4

LEMMA BaseReGet == BaseInv /\ ReGet => BaseInv'
<1> SUFFICES ASSUME BaseInv, ReGet PROVE BaseInv'
  OBVIOUS
<1> USE DEF BaseInv
<1>0. up /\ body \in Bodies /\ UNCHANGED <<crHist, cmHist, up, bootVars, used>>
  BY DEF ReGet, PhaseInv, PastGather
<1>1. CASE FailReconcile /\ UNCHANGED hashCache
  <2>1. TypeOK'
    BY <1>0, <1>1, BaseEndReconcile DEF FailReconcile, TypeOK, bootVars
  <2>2. PhaseInv'
    BY <1>0, <1>1, BaseEndReconcile DEF FailReconcile, PhaseInv
  <2>3. FreshInv'
    BY <1>1, BaseEndReconcile DEF FailReconcile
  <2> QED BY <2>1, <2>2, <2>3
<1>2. CASE Applied /\ UNCHANGED <<queued, drift, seen, body, fresh, conflictHit>>
  <2>1. TypeOK'
    BY <1>0, <1>2, BaseApplied DEF TypeOK, bootVars
  <2>2. PhaseInv'
    BY <1>0, <1>2, BaseApplied DEF PhaseInv
  <2>3. FreshInv'
    BY <1>0, <1>2 DEF FreshInv
  <2> QED BY <2>1, <2>2, <2>3
<1> QED BY <1>1, <1>2 DEF ReGet

LEMMA BaseAPIError == BaseInv /\ APIError => BaseInv'
<1> SUFFICES ASSUME BaseInv, APIError PROVE BaseInv'
  OBVIOUS
<1> USE DEF BaseInv
<1>0. up /\ EndReconcile /\ queued' = TRUE
  BY DEF APIError, PhaseInv, FailReconcile
<1>1. cmHist' \in Seq(ConfigMaps) /\ cmHist' # <<>>
  <2>1. CASE UNCHANGED cmHist
    BY <2>1 DEF TypeOK
  <2>2. CASE pc = "patch" /\ ServerSideApply(body)
    BY <2>2, ApplyType DEF PhaseInv, PastGather
  <2> QED BY <2>1, <2>2 DEF APIError
<1>2. used' \in [Disturbances -> Nat]
  BY SpendType DEF APIError, Disturbances
<1>3. TypeOK'
  BY <1>0, <1>1, <1>2, BaseEndReconcile DEF APIError, TypeOK, bootVars
<1>4. PhaseInv'
  BY <1>0, BaseEndReconcile DEF APIError, PhaseInv
<1>5. FreshInv'
  BY <1>0, BaseEndReconcile
<1> QED BY <1>3, <1>4, <1>5

(* A status write goes to the live object, whose spec and generation it    *)
(* leaves alone.                                                           *)
LEMMA StatusWriteFacts ==
  ASSUME BaseInv, NEW k \in Keys, pc = "status", WriteStatus(k)
  PROVE  /\ Live(crHist)[k] \in CRs
         /\ seen[k] = Live(crHist)[k]
         /\ DesiredStatus(k) \in Statuses
         /\ DesiredStatus(k).observedGeneration = Live(crHist)[k].generation
         /\ DesiredStatus(k).validated = Validate(Live(crHist)[k].spec.overrides)
         /\ DesiredStatus(k).effectiveTenantId = Effective(k, Live(crHist)[k].spec)
         /\ [Live(crHist)[k] EXCEPT !.status = DesiredStatus(k)] \in CRs
         /\ WriteCR(k, [Live(crHist)[k] EXCEPT !.status = DesiredStatus(k)])
<1>1. seen[k] # Absent /\ seen[k] = Live(crHist)[k]
  BY DEF BaseInv, FreshInv, WriteStatus
<1>2. body \in Bodies /\ seen \in Snapshots
  BY DEF BaseInv, PhaseInv, PastGather, TypeOK
<1>3. Live(crHist)[k] \in CRs
  BY <1>1, <1>2, PresentType
<1>4. /\ DesiredStatus(k) \in Statuses
      /\ DesiredStatus(k).observedGeneration = Live(crHist)[k].generation
      /\ DesiredStatus(k).validated = Validate(Live(crHist)[k].spec.overrides)
      /\ DesiredStatus(k).effectiveTenantId = Effective(k, Live(crHist)[k].spec)
  BY <1>1, <1>2, StatusType DEF DesiredStatus
<1>5. [Live(crHist)[k] EXCEPT !.status = DesiredStatus(k)] \in CRs
  BY <1>3, <1>4 DEF CRs
<1>6. WriteCR(k, [Live(crHist)[k] EXCEPT !.status = DesiredStatus(k)])
  BY DEF WriteStatus
<1> QED BY <1>1, <1>3, <1>4, <1>5, <1>6

(* A turn of the loop over the statuses, failed or not, writes one status  *)
(* or none.                                                                *)
LEMMA StatusStep ==
  ASSUME BaseInv, NEW k \in Keys, UpdateStatus(k) \/ StatusError(k)
  PROVE  /\ up /\ pc = "status" /\ todo' = todo \ {k}
         /\ UNCHANGED <<cmHist, up, queued, hashCache, pc, drift, seen, body, bootVars>>
         /\ conflictHit' \in BOOLEAN /\ used' \in [Disturbances -> Nat]
         /\ WriteStatus(k) \/ UNCHANGED <<crHist, fresh>>
<1>1. CASE UpdateStatus(k)
  BY <1>1 DEF UpdateStatus, BaseInv, PhaseInv, TypeOK
<1>2. CASE StatusError(k)
  <2>1. used' \in [Disturbances -> Nat]
    BY <1>2, SpendType DEF StatusError, Disturbances, BaseInv
  <2> QED BY <1>2, <2>1 DEF StatusError, BaseInv, PhaseInv, TypeOK
<1> QED BY <1>1, <1>2

LEMMA BaseStatusStep ==
  ASSUME BaseInv, NEW k \in Keys, UpdateStatus(k) \/ StatusError(k)
  PROVE  BaseInv'
<1> USE DEF BaseInv
<1>0. /\ up /\ pc = "status" /\ todo' = todo \ {k}
      /\ UNCHANGED <<cmHist, up, queued, hashCache, pc, drift, seen, body, bootVars>>
      /\ conflictHit' \in BOOLEAN /\ used' \in [Disturbances -> Nat]
      /\ WriteStatus(k) \/ UNCHANGED <<crHist, fresh>>
  BY StatusStep
<1>1. PhaseInv'
  BY <1>0 DEF PhaseInv, PastGather, Present, bootVars
<1>2. CASE WriteStatus(k)
  <2> DEFINE cr == [Live(crHist)[k] EXCEPT !.status = DesiredStatus(k)]
  <2>1. cr \in CRs \cup {Absent} /\ WriteCR(k, cr)
    BY <1>0, <1>2, StatusWriteFacts
  <2>2. /\ crHist' \in Seq(Snapshots) /\ crHist' # <<>>
        /\ fresh' \subseteq Keys
        /\ Live(crHist') = [Live(crHist) EXCEPT ![k] = cr]
    BY <2>1, WriteCRType
  <2>3. TypeOK'
    BY <1>0, <2>2 DEF TypeOK, bootVars
  <2>4. FreshInv'
    <3>1. fresh' = fresh \ {k}
      BY <2>1 DEF WriteCR
    <3>2. \A j \in fresh' : Live(crHist')[j] = Live(crHist)[j]
      BY <2>2, <3>1, TypeFacts DEF Snapshots
    <3> QED BY <1>0, <3>1, <3>2 DEF FreshInv
  <2> QED BY <1>1, <2>3, <2>4
<1>3. CASE UNCHANGED <<crHist, fresh>>
  <2>1. TypeOK'
    BY <1>0, <1>3 DEF TypeOK, bootVars
  <2>2. FreshInv'
    BY <1>0, <1>3 DEF FreshInv
  <2> QED BY <1>1, <2>1, <2>2
<1> QED BY <1>0, <1>2, <1>3

LEMMA BaseReconcileDone == BaseInv /\ ReconcileDone => BaseInv'
<1> SUFFICES ASSUME BaseInv, ReconcileDone PROVE BaseInv'
  OBVIOUS
<1> USE DEF BaseInv
<1>0. up /\ EndReconcile /\ queued' \in BOOLEAN
  BY DEF ReconcileDone, PhaseInv
<1>1. TypeOK'
  BY <1>0, BaseEndReconcile DEF ReconcileDone, TypeOK, bootVars
<1>2. PhaseInv'
  BY <1>0, BaseEndReconcile DEF ReconcileDone, PhaseInv
<1>3. FreshInv'
  BY <1>0, BaseEndReconcile
<1> QED BY <1>1, <1>2, <1>3

(* The process ends: everything but the API server's state is reset.       *)
LEMMA BaseExit ==
  ASSUME BaseInv, Exit, used' \in [Disturbances -> Nat]
  PROVE  BaseInv'
<1> USE DEF BaseInv
<1>1. TypeOK'
  BY BaseEndReconcile, TypeFacts DEF Exit, TypeOK, Hashes
<1>2. PhaseInv'
  BY BaseEndReconcile, TypeFacts, SingletonFacts DEF Exit, PhaseInv
<1>3. FreshInv'
  BY BaseEndReconcile DEF Exit
<1> QED BY <1>1, <1>2, <1>3

LEMMA BaseBootStep == BaseInv /\ BootStep => BaseInv'
<1> SUFFICES ASSUME BaseInv, BootStep PROVE BaseInv'
  OBVIOUS
<1> USE DEF BaseInv
<1>0. up
  BY DEF BootStep, BootGet, BootApplyGet, BootPatch, BootReGet, BootSet, PhaseInv
<1>1. CASE BootReGet /\ Exit
  BY <1>1, BaseExit DEF BootReGet, TypeOK
<1>2. CASE ~ Exit
  <2>1. UNCHANGED <<crHist, up, queued, locals, used>>
    BY <1>2 DEF BootStep, BootGet, BootApplyGet, BootPatch, BootReGet, BootSet
  <2>2. cmHist' \in Seq(ConfigMaps) /\ cmHist' # <<>>
    <3>1. CASE BootPatch
      BY <3>1, ApplyType, EmptyBodyType DEF BootPatch
    <3>2. CASE ~ BootPatch
      BY <1>2, <3>2 DEF BootStep, BootGet, BootApplyGet, BootReGet, BootSet, TypeOK
    <3> QED BY <3>1, <3>2
  <2>3. /\ Hash(EmptyBody) \in Hashes
        /\ Cached(cmHist) # Absent => Hash(Cached(cmHist)) \in Hashes
        /\ NoHash \in Hashes
    <3>1. EmptyBody \in ConfigMaps \ {Absent}
      BY EmptyBodyType, DistinctAssumption DEF ConfigMaps
    <3> QED BY <3>1, TypeFacts DEF Hash, Hashes
  <2>4. /\ boot' \in {"get", "apply", "patch", "reget", "set", "done"}
        /\ bootHash' \in Hashes
        /\ hashCache' \in Hashes
    BY <1>2, <2>3 DEF BootStep, BootGet, BootApplyGet, BootPatch, BootReGet, BootSet,
                      TypeOK
  <2>5. TypeOK'
    BY <2>1, <2>2, <2>4 DEF TypeOK, locals
  <2>6. PhaseInv'
    BY <1>0, <2>1 DEF PhaseInv, locals, PastGather, Present
  <2>7. FreshInv'
    BY <2>1 DEF FreshInv, locals
  <2> QED BY <2>5, <2>6, <2>7
<1>3. Exit => BootReGet
  <2>1. Exit => ~ up'
    BY DEF Exit
  <2> QED BY <1>0, <2>1 DEF BootStep, BootGet, BootApplyGet, BootPatch, BootSet
<1> QED BY <1>1, <1>2, <1>3

LEMMA BaseCrash == BaseInv /\ Crash => BaseInv'
<1> SUFFICES ASSUME BaseInv, Crash PROVE BaseInv'
  OBVIOUS
<1>1. used' \in [Disturbances -> Nat]
  BY SpendType DEF Crash, Disturbances, BaseInv
<1> QED BY <1>1, BaseExit DEF Crash

LEMMA BaseRestart == BaseInv /\ Restart => BaseInv'
<1> SUFFICES ASSUME BaseInv, Restart PROVE BaseInv'
  OBVIOUS
<1> USE DEF BaseInv
<1>1. TypeOK'
  BY DEF Restart, TypeOK, locals, bootVars
<1>2. PhaseInv'
  BY DEF Restart, PhaseInv, locals, bootVars, PastGather, Present
<1>3. FreshInv'
  BY DEF Restart, FreshInv, locals
<1> QED BY <1>1, <1>2, <1>3

LEMMA BaseInit == Init => BaseInv
<1> SUFFICES ASSUME Init PROVE BaseInv
  OBVIOUS
<1>1. TypeOK
  BY TypeInit
<1>2. PhaseInv
  <2>1. Len(crHist) = 1 /\ Len(cmHist) = 1
    BY DEF Init
  <2> QED BY <2>1 DEF Init, PhaseInv, PastGather, Nothing, Present
<1>3. FreshInv
  BY DEF Init, FreshInv
<1> QED BY <1>1, <1>2, <1>3 DEF BaseInv

LEMMA BaseStutter == BaseInv /\ UNCHANGED vars => BaseInv'
<1> SUFFICES ASSUME BaseInv, UNCHANGED vars PROVE BaseInv'
  OBVIOUS
<1> USE DEF BaseInv, vars, process, locals, bootVars
<1>1. TypeOK'
  BY DEF TypeOK
<1>2. PhaseInv'
  BY DEF PhaseInv, PastGather, Present
<1>3. FreshInv'
  BY DEF FreshInv
<1> QED BY <1>1, <1>2, <1>3

LEMMA BaseNext == BaseInv /\ [Next]_vars => BaseInv'
BY BaseUserEdit, BaseTamper, BaseInformers, BaseCheckDrift, BaseGather,
   BaseApplyGet, BasePatchCM, BaseReGet, BaseAPIError, BaseStatusStep,
   BaseReconcileDone, BaseBootStep, BaseCrash, BaseRestart,
   BaseStutter
   DEF Next, ReconcileStep

(* The base invariant: types, which part of the program may be running,    *)
(* and optimistic concurrency, the listed CR with a current                *)
(* resourceVersion being the live one.                                     *)
THEOREM BaseInvariant == Spec => []BaseInv
BY BaseInit, BaseNext, PTL DEF Spec

(* Every variable keeps its type, for every set of CRs, specs and limits.  *)
THEOREM TypeCorrect == Spec => []TypeOK
<1>1. BaseInv => TypeOK
  BY DEF BaseInv
<1> QED BY <1>1, BaseInvariant, PTL

-----------------------------------------------------------------------------
(* What a step can do to the live CRs.                                     *)

(* The live CRs change only by a user's edit or by a status write that     *)
(* passed the resourceVersion check.                                       *)
LEMMA LiveCRSteps ==
  ASSUME BaseInv, [Next]_vars
  PROVE  \/ Live(crHist') = Live(crHist)
         \/ UserEdit
         \/ \E k \in Keys : pc = "status" /\ WriteStatus(k)
<1>1. CASE UNCHANGED crHist
  BY <1>1
<1>2. CASE DeliverCR
  <2>1. crHist' = Tail(crHist) /\ Len(crHist) > 1
    BY <1>2 DEF DeliverCR
  <2> QED BY <2>1, TailFacts DEF BaseInv, TypeOK
<1>3. CASE crHist' = <<Live(crHist)>>
  BY <1>3, TypeFacts, SingletonFacts DEF BaseInv
<1>4. ASSUME NEW k \in Keys, UpdateStatus(k) \/ StatusError(k)
      PROVE  UNCHANGED crHist \/ (pc = "status" /\ WriteStatus(k))
  BY <1>4, StatusStep
<1>5. CASE UNCHANGED vars
  BY <1>5, <1>1 DEF vars
<1>6. CASE DeliverCM \/ RelistCM \/ Tamper \/ CheckDrift \/ Gather \/ ApplyGet
           \/ PatchCM \/ ReGet \/ APIError \/ ReconcileDone \/ Restart
  BY <1>6, <1>1 DEF DeliverCM, RelistCM, Tamper, CheckDrift, Gather, ApplyGet,
       PatchCM, ReGet, APIError, ReconcileDone, Restart
<1>7. CASE BootStep \/ Crash \/ RelistCR
  BY <1>7, <1>1, <1>3 DEF BootStep, BootGet, BootApplyGet, BootPatch, BootReGet,
       BootSet, Crash, Exit, RelistCR
<1> QED
  BY <1>1, <1>2, <1>4, <1>5, <1>6, <1>7 DEF Next, ReconcileStep

(* What StatusTruthful says of one CR.                                     *)
TruthfulCR(k, cr) ==
  /\ cr.status.observedGeneration <= cr.generation
  /\ cr.status.observedGeneration = cr.generation =>
       /\ cr.status.validated = Validate(cr.spec.overrides)
       /\ cr.status.effectiveTenantId = Effective(k, cr.spec)

LEMMA TruthfulStep ==
  ASSUME BaseInv, StatusTruthful, [Next]_vars
  PROVE  StatusTruthful'
<1>0. \A j \in Keys : Live(crHist)[j] # Absent => TruthfulCR(j, Live(crHist)[j])
  BY DEF StatusTruthful, TruthfulCR, Present
<1>1. SUFFICES \A j \in Keys :
                 Live(crHist')[j] # Absent => TruthfulCR(j, Live(crHist')[j])
  BY DEF StatusTruthful, TruthfulCR, Present
<1>2. CASE Live(crHist') = Live(crHist)
  BY <1>0, <1>2
<1>3. ASSUME NEW k \in Keys, NEW cr \in CRs \cup {Absent}, WriteCR(k, cr),
             cr # Absent => TruthfulCR(k, cr)
      PROVE  \A j \in Keys :
               Live(crHist')[j] # Absent => TruthfulCR(j, Live(crHist')[j])
  <2>1. Live(crHist') = [Live(crHist) EXCEPT ![k] = cr]
    BY <1>3, WriteCRType DEF BaseInv
  <2>2. Live(crHist) \in Snapshots
    BY TypeFacts DEF BaseInv
  <2>3. /\ Live(crHist')[k] = cr
        /\ \A j \in Keys \ {k} : Live(crHist')[j] = Live(crHist)[j]
    BY <2>1, <2>2 DEF Snapshots
  <2> QED BY <1>0, <1>3, <2>3
<1>4. CASE UserEdit
  <2>1. PICK k \in Keys : \/ \E spec \in Specs : CreateCR(k, spec) \/ UpdateSpec(k, spec)
                         \/ DeleteCR(k)
    BY <1>4 DEF UserEdit
  <2>2. ASSUME NEW spec \in Specs, CreateCR(k, spec)
        PROVE  \E cr \in CRs \cup {Absent} :
                 WriteCR(k, cr) /\ (cr # Absent => TruthfulCR(k, cr))
    <3>1. TruthfulCR(k, NewCR(spec))
      BY DEF TruthfulCR, NewCR, NoStatus
    <3> QED BY <2>2, <3>1, NewCRType DEF CreateCR
  <2>3. ASSUME NEW spec \in Specs, UpdateSpec(k, spec)
        PROVE  \E cr \in CRs \cup {Absent} :
                 WriteCR(k, cr) /\ (cr # Absent => TruthfulCR(k, cr))
    <3> DEFINE old == Live(crHist)[k]
               new == [old EXCEPT !.spec = spec, !.generation = @ + 1]
    <3>1. old \in CRs /\ old # Absent
      BY <2>3, TypeFacts, PresentType DEF UpdateSpec, BaseInv
    <3>2. new \in CRs
      BY <3>1, UpdatedCRType
    <3>3. /\ old.status.observedGeneration \in Nat /\ old.generation \in Nat
          /\ old.status.observedGeneration <= old.generation
      BY <1>0, <3>1 DEF TruthfulCR, CRs, Statuses
    <3>4. /\ new.status = old.status
          /\ new.generation = old.generation + 1
      BY <3>1 DEF CRs
    <3>5. TruthfulCR(k, new)
      <4> HIDE DEF old, new
      <4> QED BY <3>3, <3>4 DEF TruthfulCR
    <3>6. WriteCR(k, new)
      BY <2>3 DEF UpdateSpec
    <3> QED BY <3>2, <3>5, <3>6
  <2>4. ASSUME DeleteCR(k)
        PROVE  \E cr \in CRs \cup {Absent} :
                 WriteCR(k, cr) /\ (cr # Absent => TruthfulCR(k, cr))
    BY <2>4 DEF DeleteCR
  <2> QED BY <1>3, <2>1, <2>2, <2>3, <2>4
<1>5. ASSUME NEW k \in Keys, pc = "status", WriteStatus(k)
      PROVE  \A j \in Keys :
               Live(crHist')[j] # Absent => TruthfulCR(j, Live(crHist')[j])
  <2> DEFINE old == Live(crHist)[k]
             new == [old EXCEPT !.status = DesiredStatus(k)]
  <2>1. /\ old \in CRs /\ new \in CRs
        /\ DesiredStatus(k).observedGeneration = old.generation
        /\ DesiredStatus(k).validated = Validate(old.spec.overrides)
        /\ DesiredStatus(k).effectiveTenantId = Effective(k, old.spec)
        /\ WriteCR(k, new)
    BY <1>5, StatusWriteFacts
  <2>2. /\ new.status = DesiredStatus(k)
        /\ new.generation = old.generation /\ old.generation \in Nat
        /\ new.spec = old.spec
    BY <2>1 DEF CRs
  <2>3. TruthfulCR(k, new)
    <3> HIDE DEF old, new
    <3> QED BY <2>1, <2>2 DEF TruthfulCR
  <2> QED BY <1>3, <2>1, <2>3
<1> QED BY <1>2, <1>4, <1>5, LiveCRSteps

LEMMA InitTruthful == Init => StatusTruthful
<1> SUFFICES ASSUME Init PROVE StatusTruthful
  OBVIOUS
<1>1. PICK specs \in InitialSpecs :
        crHist = << [k \in Keys |-> IF specs[k] = Absent THEN Absent
                                                       ELSE NewCR(specs[k])] >>
  BY DEF Init
<1>2. Live(crHist) = [k \in Keys |-> IF specs[k] = Absent THEN Absent
                                                        ELSE NewCR(specs[k])]
  BY <1>1 DEF Live
<1>3. ASSUME NEW k \in Present(Live(crHist))
      PROVE  TruthfulCR(k, Live(crHist)[k])
  <2>1. k \in Keys /\ Live(crHist)[k] = NewCR(specs[k])
    BY <1>2 DEF Present
  <2> QED BY <2>1 DEF TruthfulCR, NewCR, NoStatus
<1> QED BY <1>3 DEF StatusTruthful, TruthfulCR

(* Optimistic concurrency keeps statuses truthful: a status that claims to *)
(* describe a CR's current generation carries the verdict and the tenant   *)
(* of that generation, however stale the caches and whatever the users do. *)
THEOREM StatusIsTruthful == Spec => []StatusTruthful
BY InitTruthful, TruthfulStep, BaseInvariant, PTL DEF Spec
=============================================================================
