----------------------------- MODULE Reconciler -----------------------------
(***************************************************************************)
(* One target of the operator: the API server's CRs and output ConfigMap,  *)
(* the informer caches that lag behind it, the singleton work queue, the   *)
(* reconcile loop, the bootstrap runnable that runs beside it, and process *)
(* exit and restart.                                                       *)
(*                                                                         *)
(* The client the manager hands out reads from informer caches and writes  *)
(* to the API server.  Each watched kind is one history: its first element *)
(* is what the cache shows, its last what the API server holds, and each   *)
(* pair of neighbours is a watch event still on its way.                   *)
(***************************************************************************)
EXTENDS TenantOutput

CONSTANTS
  NoKey,     \* the ConfigMap exists without the operator's data key
  Foreign,   \* bodies a third party may write under the data key
  NoHash,    \* HashCache has no entry / a CR has no Applied=True condition
  NoBody,    \* no body has been rendered
  InitialSpecs, \* the CRs that may exist before the operator is installed
  InitialCMs,   \* what may stand in the output ConfigMap's place then
  Limit      \* per kind of disturbance, how often it may happen

Disturbances == {"edit", "tamper", "crash", "fault", "statusError",
                 "relistCR", "relistCM"}

ASSUME InitialAssumption ==
  /\ InitialSpecs \subseteq [Keys -> Specs \cup {Absent}]
  /\ InitialCMs \subseteq {Absent, NoKey} \cup Foreign

ASSUME LimitAssumption == Limit \in [Disturbances -> Nat]

Bodies == [overrides : Outputs]

Statuses ==
  [observedGeneration : Nat, effectiveTenantId : {0} \cup Tenants,
   validated : BOOLEAN, applied : {NoHash} \cup [sha256 : Bodies],
   peers : SUBSET [peer : Keys, weight : Int]]

CRs == [spec : Specs, generation : Nat \ {0}, status : Statuses]

(* What stands for "no object" is no object, and no body a third party     *)
(* writes is one the operator could have rendered: bodies do not say who   *)
(* wrote them, and OutputSafe is about the operator's.                     *)
ASSUME DistinctAssumption ==
  /\ Absent # NoKey
  /\ Absent \notin Foreign
  /\ Absent \notin CRs
  /\ \A x \in {Absent, NoKey, NoBody} \cup Foreign : x \notin Bodies

VARIABLES
  crHist,      \* history of the CRs: Keys -> CR or Absent
  cmHist,      \* history of the output ConfigMap
  up,          \* the operator process runs
  queued,      \* the singleton key is in the work queue (or waits its delay)
  hashCache,   \* HashCache entry of this target
  pc,          \* next step of the running Reconcile, "idle" when none runs
  drift,       \* Reconcile: driftDetected
  seen,        \* Reconcile: the CRs gather listed
  body,        \* Reconcile: the rendered body
  fresh,       \* listed CRs whose resourceVersion is still the live one
  todo,        \* Reconcile: CRs updateStatuses has yet to visit
  conflictHit, \* Reconcile: some status update met a 409
  boot,        \* next step of BootstrapRunnable.Start
  bootHash,    \* Bootstrap: the hash it is about to record
  used         \* how often each disturbance has happened

locals   == <<pc, drift, seen, body, fresh, todo, conflictHit>>
bootVars == <<boot, bootHash>>
process  == <<up, queued, hashCache, locals, bootVars>>
vars     == <<crHist, cmHist, process, used>>

-----------------------------------------------------------------------------
Cached(hist) == hist[1]
Live(hist)   == hist[Len(hist)]

(* A write reaches the API server at once and the cache later; a process   *)
(* that is down has no cache, it lists everything when it starts.          *)
Push(hist, x) == IF up THEN Append(hist, x) ELSE <<x>>

Nothing == [k \in Keys |-> Absent]

Present(crs) == { k \in Keys : crs[k] # Absent }

SpecsOf(crs) == [k \in Keys |-> IF crs[k] = Absent THEN Absent ELSE crs[k].spec]

NoStatus == [observedGeneration |-> 0, effectiveTenantId |-> 0,
             validated |-> FALSE, applied |-> NoHash, peers |-> {}]

NewCR(spec) == [spec |-> spec, generation |-> 1, status |-> NoStatus]

Spend(kind) == /\ used[kind] < Limit[kind]
               /\ used' = [used EXCEPT ![kind] = @ + 1]

-----------------------------------------------------------------------------
(* Users and third parties, through the API server (external).             *)

WriteCR(k, cr) ==
  /\ crHist' = Push(crHist, [Live(crHist) EXCEPT ![k] = cr])
  /\ fresh' = fresh \ {k}

CreateCR(k, spec) ==
  /\ Live(crHist)[k] = Absent
  /\ WriteCR(k, NewCR(spec))

UpdateSpec(k, spec) ==
  LET cr == Live(crHist)[k]
  IN  /\ cr # Absent
      /\ cr.spec # spec
      /\ WriteCR(k, [cr EXCEPT !.spec = spec, !.generation = @ + 1])

DeleteCR(k) ==
  /\ Live(crHist)[k] # Absent
  /\ WriteCR(k, Absent)

UserEdit ==
  /\ Spend("edit")
  /\ \E k \in Keys :
       \/ \E spec \in Specs : CreateCR(k, spec) \/ UpdateSpec(k, spec)
       \/ DeleteCR(k)
  /\ UNCHANGED <<cmHist, up, queued, hashCache, pc, drift, seen, body, todo,
                 conflictHit, bootVars>>

Tamper ==
  /\ Spend("tamper")
  /\ \E cm \in {Absent, NoKey} \cup Foreign :
       /\ cm # Live(cmHist)
       /\ cmHist' = Push(cmHist, cm)
  /\ UNCHANGED <<crHist, process>>

-----------------------------------------------------------------------------
(* Informers.  CR events pass GenerationChangedPredicate, ConfigMap events *)
(* only the name filter of outputCMPredicate; every handler maps the event *)
(* to the same key.                                                        *)

(* Mutant: deletions do not pass the filter.                               *)
GenerationChangedNoDeletes(old, new) ==
  \E k \in Keys :
    /\ new[k] # Absent
    /\ old[k] = Absent \/ old[k].generation # new[k].generation

GenerationChanged(old, new) ==
  \E k \in Keys :
    \/ (old[k] = Absent) # (new[k] = Absent)
    \/ /\ old[k] # Absent
       /\ new[k] # Absent
       /\ old[k].generation # new[k].generation

(* Mutant: only creations and deletions of the ConfigMap pass the filter.  *)
outputCMExistencePredicate(old, new) == (old = Absent) # (new = Absent)

outputCMPredicate(old, new) == old # Absent \/ new # Absent

DeliverCR ==
  /\ up
  /\ Len(crHist) > 1
  /\ queued' = (queued \/ GenerationChanged(crHist[1], crHist[2]))
  /\ crHist' = Tail(crHist)
  /\ UNCHANGED <<cmHist, up, hashCache, locals, bootVars, used>>

DeliverCM ==
  /\ up
  /\ Len(cmHist) > 1
  /\ queued' = (queued \/ outputCMPredicate(cmHist[1], cmHist[2]))
  /\ cmHist' = Tail(cmHist)
  /\ UNCHANGED <<crHist, up, hashCache, locals, bootVars, used>>

(* A watch that breaks is replaced by a list: the handlers see one event   *)
(* per object, from what the cache had to what the list shows.             *)
RelistCR ==
  /\ up
  /\ Len(crHist) > 1
  /\ Spend("relistCR")
  /\ queued' = (queued \/ GenerationChanged(Cached(crHist), Live(crHist)))
  /\ crHist' = <<Live(crHist)>>
  /\ UNCHANGED <<cmHist, up, hashCache, locals, bootVars>>

RelistCM ==
  /\ up
  /\ Len(cmHist) > 1
  /\ Spend("relistCM")
  /\ queued' = (queued \/ outputCMPredicate(Cached(cmHist), Live(cmHist)))
  /\ cmHist' = <<Live(cmHist)>>
  /\ UNCHANGED <<crHist, up, hashCache, locals, bootVars>>

-----------------------------------------------------------------------------
(* Reconcile, one action per read or write that others can interleave with *)

EndReconcile ==
  /\ pc' = "idle"
  /\ drift' = FALSE
  /\ seen' = Nothing
  /\ body' = NoBody
  /\ fresh' = {}
  /\ todo' = {}
  /\ conflictHit' = FALSE

(* Mutant: the error is swallowed.                                         *)
FailReconcileSwallowed == EndReconcile /\ UNCHANGED queued

(* An error (or a recovered panic) puts the key back, rate-limited.        *)
FailReconcile == EndReconcile /\ queued' = TRUE

CheckDrift ==
  /\ up
  /\ pc = "idle"
  /\ queued
  /\ queued' = FALSE
  /\ pc' = "gather"
  /\ drift' = (/\ hashCache # NoHash
               /\ Cached(cmHist) # Absent
               /\ Hash(Cached(cmHist)) # hashCache)
  /\ UNCHANGED <<crHist, cmHist, up, hashCache, seen, body, fresh, todo,
                 conflictHit, bootVars, used>>

(* List the cached CRs, validate, group, sort, merge, re-validate, render. *)
Gather ==
  /\ pc = "gather"
  /\ LET crs == Cached(crHist)
     IN  \/ /\ MergePanics(SpecsOf(crs))
            /\ FailReconcile
         \/ /\ ~ MergePanics(SpecsOf(crs))
            /\ pc' = "apply"
            /\ seen' = crs
            /\ body' = Desired(SpecsOf(crs))
            /\ fresh' = { k \in Present(crs) :
                            \A i \in DOMAIN crHist : crHist[i][k] = crs[k] }
            /\ UNCHANGED <<queued, drift, todo, conflictHit>>
  /\ UNCHANGED <<crHist, cmHist, up, hashCache, bootVars, used>>

(* Mutant: the body itself is recorded, not its hash.                      *)
AppliedRecordsBody ==
  /\ hashCache' = body
  /\ pc' = "status"
  /\ todo' = Present(seen)

(* apply.ConfigMap returned: record the hash and go on to the statuses.    *)
Applied ==
  /\ hashCache' = Hash(body)
  /\ pc' = "status"
  /\ todo' = Present(seen)

ApplyGet ==
  /\ pc = "apply"
  /\ \/ /\ Cached(cmHist) = body
        /\ Applied
     \/ /\ Cached(cmHist) # body
        /\ pc' = "patch"
        /\ UNCHANGED <<hashCache, todo>>
  /\ UNCHANGED <<crHist, cmHist, up, queued, drift, seen, body, fresh,
                 conflictHit, bootVars, used>>

(* Mutant: tenants the body no longer has stay in the ConfigMap.           *)
ServerSideApplyKeepsTenants(text) ==
  LET old == Live(cmHist)
      new == IF old \in Bodies THEN Render(text.overrides @@ old.overrides)
                               ELSE text
  IN  cmHist' = IF old = new THEN cmHist ELSE Push(cmHist, new)

(* A forced server-side apply; one that changes nothing makes no event.    *)
ServerSideApply(text) ==
  cmHist' = IF Live(cmHist) = text THEN cmHist ELSE Push(cmHist, text)

PatchCM ==
  /\ pc = "patch"
  /\ ServerSideApply(body)
  /\ pc' = "reget"
  /\ UNCHANGED <<crHist, up, queued, hashCache, drift, seen, body, fresh, todo,
                 conflictHit, bootVars, used>>

ReGet ==
  /\ pc = "reget"
  /\ \/ /\ Cached(cmHist) = Absent
        /\ FailReconcile
        /\ UNCHANGED hashCache
     \/ /\ Cached(cmHist) # Absent
        /\ Applied
        /\ UNCHANGED <<queued, drift, seen, body, fresh, conflictHit>>
  /\ UNCHANGED <<crHist, cmHist, up, bootVars, used>>

(* List, Get or Patch returns an error; a patch may have been carried out. *)
APIError ==
  /\ pc \in {"gather", "apply", "patch", "reget"}
  /\ Spend("fault")
  /\ \/ UNCHANGED cmHist
     \/ pc = "patch" /\ ServerSideApply(body)
  /\ FailReconcile
  /\ UNCHANGED <<crHist, up, hashCache, bootVars>>

computeDesiredStatus(crs, k, hash) ==
  LET specs == SpecsOf(crs)
      valid == k \in ValidKeys(specs)
  IN  [observedGeneration |-> crs[k].generation,
       effectiveTenantId  |-> Effective(k, specs[k]),
       validated          |-> valid,
       applied            |-> IF valid THEN hash ELSE NoHash,
       peers              |-> IF valid THEN computePeers(specs, k) ELSE {}]

DesiredStatus(k) == computeDesiredStatus(seen, k, Hash(body))

(* Mutant: the generations are not compared.                               *)
NeedsUpdateAnyGeneration(k) ==
  DesiredStatus(k) # [seen[k].status EXCEPT !.observedGeneration = seen[k].generation]

NeedsUpdate(k) == DesiredStatus(k) # seen[k].status

(* Mutant: the update carries no resourceVersion.                          *)
UpdateStatusUnversioned(k) ==
  /\ pc = "status"
  /\ k \in todo
  /\ todo' = todo \ {k}
  /\ IF NeedsUpdate(k) /\ Live(crHist)[k] # Absent
     THEN WriteCR(k, [Live(crHist)[k] EXCEPT !.status = DesiredStatus(k)])
     ELSE UNCHANGED <<crHist, fresh>>
  /\ UNCHANGED <<cmHist, up, queued, hashCache, pc, drift, seen, body,
                 conflictHit, bootVars, used>>

(* The update carries the cached object's resourceVersion, so it takes     *)
(* effect only on a fresh object.                                          *)
WriteStatus(k) ==
  /\ k \in fresh
  /\ WriteCR(k, [Live(crHist)[k] EXCEPT !.status = DesiredStatus(k)])

(* One turn of the loop in updateStatuses.                                 *)
UpdateStatus(k) ==
  /\ pc = "status"
  /\ k \in todo
  /\ todo' = todo \ {k}
  /\ \/ /\ NeedsUpdate(k)
        /\ WriteStatus(k)
        /\ UNCHANGED conflictHit
     \/ /\ NeedsUpdate(k) /\ k \notin fresh
        /\ conflictHit' = (conflictHit \/ Live(crHist)[k] # Absent)
        /\ UNCHANGED <<crHist, fresh>>
     \/ /\ ~ NeedsUpdate(k)
        /\ UNCHANGED <<crHist, fresh, conflictHit>>
  /\ UNCHANGED <<cmHist, up, queued, hashCache, pc, drift, seen, body,
                 bootVars, used>>

(* A status update that fails for another reason, and may have been        *)
(* carried out, is only logged.                                            *)
StatusError(k) ==
  /\ pc = "status"
  /\ k \in todo
  /\ NeedsUpdate(k)
  /\ Spend("statusError")
  /\ todo' = todo \ {k}
  /\ \/ UNCHANGED <<crHist, fresh>>
     \/ WriteStatus(k)
  /\ UNCHANGED <<cmHist, up, queued, hashCache, pc, drift, seen, body,
                 conflictHit, bootVars>>

(* Mutant: a 409 is not followed up.                                       *)
ReconcileDoneNoRequeue ==
  /\ pc = "status"
  /\ todo = {}
  /\ EndReconcile
  /\ UNCHANGED <<crHist, cmHist, up, queued, hashCache, bootVars, used>>

ReconcileDone ==
  /\ pc = "status"
  /\ todo = {}
  /\ queued' = (queued \/ conflictHit)
  /\ EndReconcile
  /\ UNCHANGED <<crHist, cmHist, up, hashCache, bootVars, used>>

ReconcileStep ==
  \/ CheckDrift
  \/ Gather
  \/ ApplyGet
  \/ PatchCM
  \/ ReGet
  \/ \E k \in Keys : UpdateStatus(k)
  \/ ReconcileDone

-----------------------------------------------------------------------------
(* BootstrapRunnable.Start, which the manager does not wait for.           *)

(* Mutant: whether the ConfigMap exists is not asked.                      *)
BootGetBlind ==
  /\ up
  /\ boot = "get"
  /\ boot' = "apply"
  /\ UNCHANGED <<crHist, cmHist, up, queued, hashCache, locals, bootHash, used>>

BootGet ==
  /\ up
  /\ boot = "get"
  /\ \/ /\ Cached(cmHist) # Absent
        /\ boot' = "set"
        /\ bootHash' = Hash(Cached(cmHist))
     \/ /\ Cached(cmHist) = Absent
        /\ boot' = "apply"
        /\ UNCHANGED bootHash
  /\ UNCHANGED <<crHist, cmHist, up, queued, hashCache, locals, used>>

BootApplyGet ==
  /\ boot = "apply"
  /\ \/ /\ Cached(cmHist) = EmptyBody
        /\ boot' = "set"
        /\ bootHash' = Hash(EmptyBody)
     \/ /\ Cached(cmHist) # EmptyBody
        /\ boot' = "patch"
        /\ UNCHANGED bootHash
  /\ UNCHANGED <<crHist, cmHist, up, queued, hashCache, locals, used>>

BootPatch ==
  /\ boot = "patch"
  /\ ServerSideApply(EmptyBody)
  /\ boot' = "reget"
  /\ UNCHANGED <<crHist, up, queued, hashCache, locals, bootHash, used>>

(* The process ends; what it kept in memory is gone.                       *)
Exit ==
  /\ up' = FALSE
  /\ queued' = FALSE
  /\ hashCache' = NoHash
  /\ EndReconcile
  /\ boot' = "get"
  /\ bootHash' = NoHash
  /\ crHist' = <<Live(crHist)>>
  /\ cmHist' = <<Live(cmHist)>>

(* An error from Start stops the manager.                                  *)
BootReGet ==
  /\ boot = "reget"
  /\ \/ /\ Cached(cmHist) = Absent
        /\ Exit
     \/ /\ Cached(cmHist) # Absent
        /\ boot' = "set"
        /\ bootHash' = Hash(EmptyBody)
        /\ UNCHANGED <<crHist, cmHist, up, queued, hashCache, locals>>
  /\ UNCHANGED used

BootSet ==
  /\ boot = "set"
  /\ hashCache' = bootHash
  /\ boot' = "done"
  /\ bootHash' = NoHash
  /\ UNCHANGED <<crHist, cmHist, up, queued, locals, used>>

BootStep == BootGet \/ BootApplyGet \/ BootPatch \/ BootReGet \/ BootSet

(* The process is killed, or Start returned another API error: BootPatch   *)
(* with a crash before or after it is a failed patch.                      *)
Crash ==
  /\ up
  /\ Spend("crash")
  /\ Exit

(* Mutant: what the first list finds makes no event.                       *)
RestartQuiet ==
  /\ ~ up
  /\ up' = TRUE
  /\ UNCHANGED <<crHist, cmHist, queued, hashCache, locals, bootVars, used>>

(* A new process lists both kinds; each object found is an Add event.  A   *)
(* list that is a little behind, which the API server may serve, is not    *)
(* modelled: what it lacks follows as events, as behind a lagging cache.   *)
Restart ==
  /\ ~ up
  /\ up' = TRUE
  /\ queued' = (Present(Live(crHist)) # {} \/ Live(cmHist) # Absent)
  /\ UNCHANGED <<crHist, cmHist, hashCache, locals, bootVars, used>>

-----------------------------------------------------------------------------
Init ==
  /\ \E specs \in InitialSpecs :
       crHist = << [k \in Keys |-> IF specs[k] = Absent THEN Absent
                                                      ELSE NewCR(specs[k])] >>
  /\ \E cm \in InitialCMs : cmHist = <<cm>>
  /\ up = FALSE
  /\ queued = FALSE
  /\ hashCache = NoHash
  /\ pc = "idle"
  /\ drift = FALSE
  /\ seen = Nothing
  /\ body = NoBody
  /\ fresh = {}
  /\ todo = {}
  /\ conflictHit = FALSE
  /\ boot = "get"
  /\ bootHash = NoHash
  /\ used = [kind \in Disturbances |-> 0]

Next ==
  \/ UserEdit
  \/ Tamper
  \/ DeliverCR
  \/ DeliverCM
  \/ RelistCR
  \/ RelistCM
  \/ ReconcileStep
  \/ APIError
  \/ \E k \in Keys : StatusError(k)
  \/ BootStep
  \/ Crash
  \/ Restart

Spec == Init /\ [][Next]_vars

(* The informers, the queue's worker, the bootstrap goroutine and the      *)
(* kubelet that restarts the pod keep running; nothing is assumed of users,*)
(* third parties or failures beyond their limits.                          *)
Fairness ==
  /\ WF_vars(DeliverCR)
  /\ WF_vars(DeliverCM)
  /\ WF_vars(ReconcileStep)
  /\ WF_vars(BootStep)
  /\ WF_vars(Restart)

FairSpec == Spec /\ Fairness

-----------------------------------------------------------------------------
Snapshots == [Keys -> CRs \cup {Absent}]

ConfigMaps == {Absent, NoKey} \cup Foreign \cup Bodies

Hashes == {NoHash} \cup [sha256 : ConfigMaps \ {Absent}]

(* Every variable holds a value of its kind; both histories are never      *)
(* empty, so a cache and a live state always exist.                        *)
TypeOK ==
  /\ crHist \in Seq(Snapshots) /\ crHist # <<>>
  /\ cmHist \in Seq(ConfigMaps) /\ cmHist # <<>>
  /\ up \in BOOLEAN /\ queued \in BOOLEAN
  /\ hashCache \in Hashes
  /\ pc \in {"idle", "gather", "apply", "patch", "reget", "status"}
  /\ drift \in BOOLEAN
  /\ seen \in Snapshots
  /\ body \in Bodies \cup {NoBody}
  /\ fresh \subseteq Keys
  /\ todo \subseteq Keys
  /\ conflictHit \in BOOLEAN
  /\ boot \in {"get", "apply", "patch", "reget", "set", "done"}
  /\ bootHash \in Hashes
  /\ used \in [Disturbances -> Nat]

(* The operator is at rest: nothing queued, running or still to be         *)
(* delivered.                                                              *)
Settled ==
  /\ up /\ boot = "done"
  /\ pc = "idle" /\ ~ queued
  /\ Len(crHist) = 1 /\ Len(cmHist) = 1

Converged == Live(cmHist) = Desired(SpecsOf(Live(crHist)))

(* No wake-up is lost: when the operator is at rest, the output ConfigMap  *)
(* is exactly the rendered union of all current valid CRs, whatever the    *)
(* caches showed the reconciles on the way, whoever wrote the ConfigMap in *)
(* between and wherever the process died.                                  *)
SettledConverged == Settled => Converged

(* When the operator is at rest and no status write has failed, every CR's *)
(* status has been computed for its current generation, whichever stale    *)
(* CRs the status updates before were computed from and refused for.       *)
SettledObserved ==
  Settled /\ used["statusError"] = 0 =>
    \A k \in Present(Live(crHist)) :
      LET cr == Live(crHist)[k]
      IN  cr.status.observedGeneration = cr.generation

StatusesCurrent ==
  \A k \in Present(Live(crHist)) :
    Live(crHist)[k].status =
      computeDesiredStatus(Live(crHist), k, Hash(Live(cmHist)))

(* As long as the specs have changed only once and no status write failed, *)
(* every status at rest is exactly that of the output being served: a      *)
(* reconcile that reads CRs older than its predecessor's status writes     *)
(* meets a 409 and is repeated.  After a second change the cached status   *)
(* can happen to be the desired one while the live one is not.             *)
FirstEditInStatus ==
  Settled /\ used["edit"] <= 1 /\ used["statusError"] = 0 => StatusesCurrent

(* A status that claims to describe the current generation does: its       *)
(* verdict and its tenant are those of the spec it stands beside, even     *)
(* when it was computed from a stale cache or for a deleted namesake.      *)
StatusTruthful ==
  \A k \in Present(Live(crHist)) :
    LET cr == Live(crHist)[k]
    IN  /\ cr.status.observedGeneration <= cr.generation
        /\ cr.status.observedGeneration = cr.generation =>
             /\ cr.status.validated = Validate(cr.spec.overrides)
             /\ cr.status.effectiveTenantId = Effective(k, cr.spec)

(* Whatever the operator itself put under the data key holds only tenant   *)
(* documents that validate as merged.                                      *)
OutputSafe ==
  Live(cmHist) \in Bodies =>
    \A t \in DOMAIN Live(cmHist).overrides :
      Validate(Live(cmHist).overrides[t])

(* Once users, third parties and failures leave it alone, the operator     *)
(* reaches the union of the valid CRs and comes to rest there: it neither  *)
(* gives up nor keeps rewriting its own output.                            *)
Convergence == <>[](Settled /\ Converged)
=============================================================================
