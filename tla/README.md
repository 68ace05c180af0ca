# runtime-overrides-operator in TLA+

The operator turns `LokiTenantOverride` and `MimirTenantOverride` objects (CRs,
many, in many namespaces, written by many people) into one ConfigMap per target
that Loki or Mimir reads as its runtime configuration, and reports on each CR in
its status. What it promises is stated in `internal/controller/loki_controller.go`:
*the output CM is always the union of all current valid CRs*. This project models
the code that has to keep that promise over a cache that lags behind, an API server
others write to as well, and a process that may die at any point; checks the models
with TLC; and proves the central properties with TLAPS for every set of CRs.

Paths below are relative to the repository.

## 1. The system

### Components

| Part | Code | State | Operations |
|---|---|---|---|
| Loki reconciler | `internal/controller/loki_controller.go` | none between reconciles but the hash cache entry; a queue with one key | check drift, gather CRs, group/sort/merge/validate, render, apply, record the hash, update statuses, requeue |
| Mimir reconciler | `internal/controller/mimir_controller.go` | the same, its own | a parallel copy |
| Merge engine | `internal/merge` | none | `GroupByTenant`, `SortGroup`, `DeepMerge`, `TrackingMerge` |
| Render | `internal/render` | none | `Render` (deterministic YAML), `Hash` |
| Apply helper | `internal/apply` | the output ConfigMap | cached read, skip when equal, forced server-side apply, cached re-read |
| Bootstrap | `internal/controller/bootstrap.go` | hash cache | per target: record the hash of the ConfigMap that exists, or create an empty one |
| Hash cache | `internal/controller/hashcache.go` | target -> last hash | `Get`, `Set` under a mutex |
| Drift watch | `internal/controller/drift.go` | none | event filter, key mapping, field-manager extraction |
| Status helpers | `internal/controller/status.go`, `peers.go` | CR status | conditions, `conditionsChanged`, `computePeers` |
| Disabled-target watcher | `internal/controller/disabled.go` | CR status | mark each CR `Applied=False/TargetDisabled` |
| Validators | `internal/validate` | package-level defaults, primed once | strict decoding into upstream `Limits`, `Validate` |
| Admission webhook | `internal/webhook` | none | validate on create and update, failurePolicy Ignore |
| Tenant ownership policy | Helm chart | none | a CEL rule on `spec.tenantId` |
| Wiring | `cmd/main.go`, `internal/config` | flags | which controllers and bootstrap targets a process has |
| Replicas | `cmd/main.go`, `bootstrap.go` (`NeedLeaderElection`) | the lease | every replica runs the bootstrap, only the leader the controllers; a leader that loses the lease exits |

### How they interact

Everything goes through the API server. The manager's client **reads from informer
caches and writes to the API server**, so a component does not in general see its own
last write. CR events (filtered by generation) and events of the output ConfigMap
(unfiltered but for the name) put one and the same key into a target's queue; a worker
takes it out and runs `Reconcile`, which reads everything again. The bootstrap runs in
a goroutine of its own from the moment the caches have synced; nothing waits for it, and
an error it returns ends the process. `HashCache` is written by bootstrap and
reconcilers. The two targets share the process, the hash cache (one entry each) and the
bootstrap goroutine, and nothing else. Two replicas share nothing but the API server: the
follower has a ConfigMap cache and a bootstrap, and starts its CR informers and controllers
when it gets the lease.

### What is hard

* A reconcile works on a snapshot that may be out of date at every later step. Nothing
  but a later event corrects what it wrote, so a filter that drops one event too many,
  or a status update that does not count as a change, loses an update for good.
* The decision to skip a write is taken on the cached ConfigMap.
* The ConfigMap is also written by third parties and by the bootstrap.
* Status updates carry the resourceVersion of the cached CR, which may have been edited,
  or deleted and recreated under the same name.
* A patch may have been carried out though its reply was lost; the process may die
  between any two steps; a watch may break and be replaced by a list.
* A replica bootstraps when its process starts and leads much later; a deposed leader works on
  until it notices, with a snapshot the new leader knows nothing of.
* What may get in is decided by the policy and the webhook on a request; what is done with it
  is decided by the reconciler, later, from a cache, and the webhook may not have answered.
* Documents are merged pairwise while the reports are about whole groups of writers, and
  Go walks maps in random order and panics on comparing maps.

`PROJECT.json` lists these as hazards, each with its line and the properties that cover it.

## 2. The modules

| Module | Models | Used by |
|---|---|---|
| `TenantOutput` | the pure part of a reconcile: defaulting the tenant, validation, grouping, sorting, merging, second validation, rendering, peers | `Reconciler` |
| `Reconciler` | one target: CRs and ConfigMap, caches, queue, reconcile loop, bootstrap, crash and restart | all below |
| `OverridesService` | the abstract specification: what the backends are served | `ReconcilerService` |
| `ReconcilerService` | the refinement mapping from `Reconciler` to it | `MCReconciler` |
| `ReconcilerClaims` | a statement of a comment the code does not keep | `MCReconciler` |
| `ReconcilerInv` | the inductive invariants | proofs, `MCReconciler` |
| `ReconcilerProofs`, `WakeupProofs`, `ServiceProofs`, `CompositionProofs`, `DisabledProofs`, `ReplicaProofs`, `ReplicasProofs`, `MergeProofs` | theorems | |
| `Operator` | both targets in one process: `Reconciler` twice, one bootstrap goroutine | `MCOperator` |
| `Replicas` | two replicas on one target: `Reconciler` twice, with leader election | `MCReplicas` |
| `Admission` | ownership policy and webhook in front of the CRs of `Reconciler` | `MCAdmission` |
| `DisabledTarget` | the disabled-target watcher, for either kind | `MCDisabledTarget` |
| `TrackingMerge` | one call of `TrackingMerge`: the loop over the CRs and their leaves | `MCTrackingMerge` |
| `OverridesDocument` | nested documents: `DeepMerge`, `walkLeaves`, `leafValuesEqual` | `MCTrackingMerge` |
| `FieldManagers` | the extraction of the writer to blame for drift | `MCTrackingMerge` |
| `MC*` | the instances TLC checks | |

### TenantOutput

A *snapshot of specs* is a function from CR names to specs; `Desired(specs)` is the body
of the ConfigMap. Namespaces, names and tenant IDs are numbers: their rank in lexical
order, 0 for the empty string, which is all that defaulting and sorting look at. Documents
are flat functions from field to value (nested ones are `TrackingMerge`'s subject). The
upstream validators, third-party code, are the constant `ValidOverrides`, a set of
documents about which nothing is assumed. `Uncomparable` are the pairs of
values on which `leafValuesEqual` panics: lists of one length that hold maps. YAML text and SHA-256 are injective constructors:
rendering is deterministic and the properties only compare bodies and hashes.

### Reconciler

The API server and the caches are **histories**. `crHist` is a sequence of snapshots of
all CRs: the first element is what the cache shows, the last what the API server holds,
and each pair of neighbours is a watch event still on its way. `DeliverCR` drops the first
element and queues the key if the pair passes the generation filter; `RelistCR` jumps to
the last one, as a reflector does when its watch has broken, and the handlers then see one
event per object, from what the cache had to what the list shows. `cmHist` is the same for
the output ConfigMap. The two advance independently, as two informers do.

| Code | Model |
|---|---|
| `checkDrift` | `CheckDrift` takes the key from the queue and compares the cached ConfigMap with the hash cache |
| `gather` .. `Render` | `Gather`: one read of the cached CRs and the pure computation; a panic in the merge is recovered by the controller and requeued |
| `apply.ConfigMap` | `ApplyGet` (cached read, skip), `PatchCM` (forced apply; one that changes nothing makes no event), `ReGet` (cached re-read, NotFound is an error) |
| `HashCache.Set` after the apply | part of `Applied`, in the step of the read that ends the apply |
| `updateStatuses` | `UpdateStatus(k)` per CR in any order; `StatusError(k)` for failures that are only logged, of writes that may have been carried out; `ReconcileDone` requeues after a 409 |
| errors of List, Get, Patch | `APIError`; a failing patch may have been carried out |
| `BootstrapRunnable.Start` | `BootGet`, `BootApplyGet`, `BootPatch`, `BootReGet`, `BootSet`, interleaved with the reconcile |
| error from `Start`, death of the process | `Exit`, `Crash`; `Restart` lists both kinds as they are, each object found being an Add event |

`fresh` stands for resourceVersions: the CRs among those listed whose live object is still
the one that was read. A status update succeeds exactly on those; it fails with NotFound
when the object is gone (ignored by the code), else with a 409. This covers a CR deleted
and recreated under its name, whose resourceVersion differs though the generation may not.
A status keeps what conditions say and not how they say it: the generation it is about,
the tenant, whether `Validated`, the hash in the `Applied` message, and the peers. Conflict
lists, message texts, transition times and the ConfigMap's generation are left out; a
change in those alone therefore does not count as a change of status in the model.
`drift` is set as in the code, and like in the code nothing but reporting depends on it.
The delays of the queue (rate limit, `statusConflictRequeueDelay`) are not modelled: a
waiting key may be taken at any time.

### OverridesService and ReconcilerService

`OverridesService` knows no queue, cache, reconcile or process. It has the moments of the CRs a
look may still see (`window`), the one looked at and being served (`view`), the body the backends
get (`served`), and whether the ConfigMap was missing and may be filled with the empty body
(`vacancy`). `Look` takes the oldest moment in the window, `Serve` renders it, `Advance` drops
old moments for good. So it says more than that every body is the union of some past snapshot:
the snapshots are served in order, none is skipped to and then gone back from, a third party's
content is replaced by a whole union and never mixed with it, and the empty body is put only in
the place of a ConfigMap that was seen to be missing.

`ReconcilerService` maps `crHist` (specs only) to the window, the listed CRs of a running
reconcile past `gather` to the view, the API server's ConfigMap to `served`; a vacancy is a
bootstrap that has found no ConfigMap, or still may. That the bootstrap can replace the output
of a reconcile that overtook it by the empty body is therefore part of the abstract
specification (`Fill`), as it is of the code; section 5 says what the comment has to say.

### Replicas

This replica is `Reconciler` as it stands, its peer an `INSTANCE` with variables of its own. The
last elements of both histories are the one API server: a step of one replica appends what it
wrote to the histories of the other (`ShownToPeer`, `ShownToThis`), and what it touched is no
longer `fresh` there. `leads` are the replicas whose controllers run, `lease` the one that got
the lease last; the two differ from the moment a new leader has taken the lease until the old
one notices and exits (`ThisStepsDown`), and in between both reconcile. A follower has only the
bootstrap and its ConfigMap cache, whose events queue nothing (`ThisFollows`). `ThisTakesLease`
starts the controllers: the CR informers list, and every object found, ConfigMap included, is an
Add event. The initial state is a leader at rest whose peer is about to start. A lost lease and a
crash are one budget, and so are a user's edit and a third party's deletion of the ConfigMap. By
symmetry only this replica loses its lease alive. How the lease is negotiated is
controller-runtime's business: the model assumes that a lease is not taken while its holder
renews it, and not that the holder stops in time.

### Admission

`Admission` replaces `UserEdit` by `AdmittedEdit`: `Create` and `Update` under the policy's CEL
expression in its default mode `namespace-equals-tenant`, then the webhook, which lets a spec
pass that validates (`Passes`) and any spec when it gives no answer (`Slips`). `unchecked`
remembers the CRs with an invalid spec that got in that way, or were there before the chart.
Deletions pass neither. Loki's validator is mapped in full; Mimir's is a copy.

### FieldManagers

One call of `extractConflictingFieldManager`: first the API server lists entries in any order
(`FieldsWritten`), then the loop visits them, one `Visit` per turn. The trimmed and cut name is a
function on names, times are integers, `NoTime` stands for a missing or zero one and for
`bestHasTime` being false. The run `Merge` explores it next to the other pure part of a reconcile.

### Operator, DisabledTarget, TrackingMerge

`Operator` is the process with both targets enabled: `Reconciler` for Loki, an `INSTANCE`
of it for Mimir with its own CRs and its own variables, `up` and `used` shared. The
bootstrap loop serves Loki, then Mimir. An exit of either is an exit of both. User edits,
API errors and relists are not repeated there: they concern one target alone.

`DisabledTarget` has a queue of names instead of one key, and a reconcile that is one
cached `Get` and one status update. A CR may carry the status of the days the target was
enabled.

`TrackingMerge` is one call, as a behaviour: it visits the leaves of each CR one by one in
every order, because Go iterates maps in any order. What it does with documents are four
constants, a document's leaves (`LeavesOf`), the merge of two (`Merge`), the comparison of two
leaves (`Compare`) and what a document hides of those below it (`Hides`); the laws the loop relies
on are assumptions. `OverridesDocument` has the recursive Go functions behind them: values are
scalars, lists and maps, compared as `leafValuesEqual` does, the panic included. `Merge.cfg` gives
them to the constants, and TLC then evaluates the laws on every pair of the 147 documents that can
be merged from those of the run.

## 3. What TLC checks

All bounds are constants of the cfg files. Two CRs in two namespaces are enough for every
pairwise effect of the reconcile loop (a shared tenant, a tie, a peer, a clash); three are
used for the merge, whose reports depend on triples. One CR is enough for `Tampering`,
which is about the ConfigMap as a whole, and for `Replicas`: the
replicas interfere on the ConfigMap as a whole and on one status at a time, and what matters is
whose snapshot is older; `MaxLag` bounds how many unseen moments a history may hold there (3: the
deposed leader's write, the new leader's and one more), since two leaders could write to and fro
without end while the old one does not notice. The number of disturbances of each
kind is `Limit`, since each is an actor that could go on for ever. No cfg checks for
deadlock: an operator at rest with nothing to do has stopped, as it should.

| Run | Instance | Properties |
|---|---|---|
| `Wakeups` | 2 CRs, 3 specs (defaulted tenant, foreign tenant, invalid), 2 edits, a ConfigMap without the key; 0.6 M states | `TypeOK`, `WakeupInv`, `SettledConverged`, `SettledObserved`, `ServesTheService` |
| `Tampering` | 1 CR; 1 edit, 1 third-party write or deletion, 1 broken watch of each kind, 1 failed status write; no ConfigMap at the start or a third party's; 2.0 M | `SettledConverged` |
| `Failures` | `MCAdmission`: specs invalid alone or together, one namespace with cross-namespace rights, 2 edits (so a deletion and recreation), 1 failed status write, 1 broken CR watch; 1.9 M | `OutputSafe`, `StatusTruthful`, `ContributorsEntitled`, `CheckedNotRejected` |
| `Convergence` | fairness; 1 edit, 1 crash, 1 API error, no ConfigMap at the start; 0.3 M | `Convergence`, `FirstEditInStatus`, `ServesTheService` |
| `Merge` | all groups of 3 out of 24 documents with 4 weight patterns, 0.8 M with all lists of up to 4 managedFields entries | `MergeIsLayering`, `ConflictsExplainOutput`, `ReportIsOfGroup`, `MostRecentOtherBlamed` |
| `Disabled` | fairness; 2 CRs, 2 edits, 1 crash, 1 failed update; 0.2 M | `SettledMarked`, `NeverAhead`, `EventuallyMarked` |
| `BothTargets` | fairness; 1 Mimir CR, 0 or 2 Loki CRs whose merge panics, 2 crashes; 0.1 M | `BothServe`, `MimirConverges`, `LokiConverges` |
| `Replicas` | fairness; 1 CR, 1 edit or deleted ConfigMap, 1 crash or lost lease; 0.2 M | `LeaderServes`, `HandoverConverges` |

* **SettledConverged**: when nothing is queued, running or on its way, the ConfigMap is
  exactly `Desired` of the live CRs. This is the promise of the code, asked where it can be
  kept. It needs the right event filters on both kinds and a restart that lists everything.
* **WakeupInv** says why it holds (section 4).
* **SettledObserved**, **StatusTruthful**, **FirstEditInStatus** are about statuses. The
  first: at rest each status is for its CR's current generation, until a status write has failed,
  which the code does not retry. The second, at all times: a
  status that claims the current generation has the verdict and the tenant of that very spec,
  even if it was computed for a deleted namesake. The third: the status at rest is exact,
  hash and peers included, as long as the specs changed only once and no status write
  failed. It is as strong as the code allows, see section 5.
* **OutputSafe**: the operator writes no tenant document that does not validate as merged.
* **ServesTheService** is the refinement: the whole loop, crashes, errors and bootstrap included,
  implements `OverridesService`.
* **ContributorsEntitled**: a reconcile merges into a tenant only CRs of namespaces the chart's
  values entitle to it. The policy judges `spec.tenantId` on a request; the tenant is derived
  later, from a cached spec and with a default of its own.
* **CheckedNotRejected**: a status never rejects the current generation of a CR the webhook said
  yes to. It relates the webhook's verdict to that of a reconcile long after, through deletions,
  recreations and updates that slipped past.
* **LeaderServes**, **HandoverConverges**: no update is lost between two replicas, and after a
  hand-over one leader is left and the output at rest. Both except the case of section 5
  (neither CR nor ConfigMap left), which `NothingToServe` names.
* **BothServe** is `SettledConverged` of both targets of one process, whichever of them has ended
  it, at whatever step of the other.
* **MostRecentOtherBlamed** compares the loop with a definition that has none: whom a
  drift is attributed to is one of the latest other writers, in whatever order they are listed.
* **Convergence**, **MimirConverges**, **LokiConverges**, **EventuallyMarked**: the system
  does come to rest, in the right state, though its own writes wake it up again.
* **MergeIsLayering** compares the folded `DeepMerge` with a definition that does not fold:
  a leaf is served if some CR wrote it and no later one hides it. **ConflictsExplainOutput**
  relates the reported conflicts to that document: no writer of a served leaf is overridden
  silently, and the winner's value is the one served.
* **ReportIsOfGroup** says exactly what is reported, as a function of the group and so whatever
  order Go walks the maps in: which paths, each once; the losers of a path (the writers whose *next*
  writer had another value, each once and in layering order); its winner (the last writer to
  contradict the one before it); and when `SameWeight` is set. The order in which the paths are
  listed is Go's. It states what the code computes; where that is not what the comments of
  `conflict.go` say (values 1, 2, 1 or 1, 1, 2), see section 5.

**Fairness** is weak fairness of the informers (`DeliverCR`, `DeliverCM`), of the queue's
worker (`ReconcileStep`), of the bootstrap goroutine and of `Restart`: goroutines the
manager starts and a kubelet that restarts the pod. Each step stays enabled until it is
taken or made void, so weak fairness suffices. Nothing is assumed of users, third parties,
relists, errors or crashes except that `Limit` bounds them; the properties say `<>[]`, that
is, once these have stopped. In `Operator` each controller has its own fairness, since it
has its own worker. In `Replicas` each replica has three: its worker or bootstrap, its informers,
and its life (the kubelet restarts it, it notices a lost lease, it takes an expired one). That a
lease is lost is never assumed. The output of the current leader may be overwritten by a deposed
one with an older snapshot; the ConfigMap event repairs it.

## 4. What TLAPS proves

For every set of names, fields, values, specs, validators, initial states and limits:

| Theorem | Says |
|---|---|
| `TypeCorrect` | `Spec => []TypeOK` |
| `StatusIsTruthful` | `Spec => []StatusTruthful` |
| `OutputIsSafe` | `Spec => []OutputSafe` |
| `WorkIsRemembered` | `Spec /\ RelistsWake => []WakeupInv` |
| `NoLostWakeup` | `Spec /\ RelistsWake => []SettledConverged` |
| `StatusesCatchUp` | `Spec /\ RelistsWake => []SettledObserved` |
| `UnbrokenWatchesSuffice` | `Spec => RelistsWake`, if `Limit["relistCR"] = 0` |
| `LossNeedsDeletion` | `Spec /\ [][Undeleted]_vars => [](SettledConverged /\ SettledObserved)` |
| `FirstEditIsRemembered` | `Spec => []FirstEditInv` |
| `FirstEditIsInStatus` | `Spec => []FirstEditInStatus` |
| `SharedProcessIsSafe` | `SharedSpec /\ RelistsWake => [](TypeOK /\ OutputSafe /\ StatusTruthful /\ SettledConverged /\ SettledObserved)` |
| `BothAreServed` | `OperatorSpec => []BothServe` |
| `NoUpdateLostBetween` | `ReplicasSpec => []LeaderServes` |
| `ReplicasWriteSafely` | `ReplicasSpec => [](OutputSafe /\ StatusTruthful)` |
| `ReconcilerImplementsService` | `Spec => ServesTheService` |
| `AdmissionImplements` | `AdmissionSpec => Spec` |
| `ContributorsAreEntitled` | `AdmissionSpec => []ContributorsEntitled`, if the CRs there were before the policy satisfy it |
| `CheckedAreNotRejected` | `AdmissionSpec => []CheckedNotRejected` |
| `StatusNeverAhead` | `DisabledTarget!Spec => []NeverAhead` |
| `RestMeansMarked` | `DisabledTarget!Spec => []SettledMarked` |
| `MergeLayers` | `TrackingMerge!Spec => []MergeIsLayering` |
| `ConflictsExplain` | `TrackingMerge!Spec => []ConflictsExplainOutput` |
| `ReportIsExact` | `TrackingMerge!Spec => []ReportIsOfGroup` |
| `RightWriterBlamed` | `FieldsSpec => []MostRecentOtherBlamed` |

Assumptions on constants (named, next to the constants, evaluated by TLC in every run):
names have a namespace and a name, specs are records of the right shape, `Absent`, `NoKey`,
`NoBody` and third-party contents are not bodies the operator renders, `NoView` is no snapshot,
limits are naturals; a group of CRs is a sequence; and the laws of documents in `TrackingMerge`,
which are statements about `DeepMerge`, `walkLeaves` and `leafValuesEqual` and would need induction
over documents to be proved.

**Base invariant** (`BaseInv`, in `ReconcilerProofs`): types; a process that is down is in
the middle of nothing and has no pending events; what a reconcile holds at which step; and
`FreshInv`, a CR whose resourceVersion is current equals the live object. The last makes
`StatusTruthful` inductive: a status is only written onto the object it was computed from,
and an edit raises the generation above what the status claims.

**Wake-up invariant** (`WakeupInv`, in `ReconcilerInv`). `SettledConverged` says nothing
about a running system, so it is far from inductive. The strengthening says where work
still to be done is remembered:

1. `ChangesWake`: a snapshot of which the live one has not kept the specs, or the statuses that
   were about the current generation (`Kept`), is followed in the history by an event that passes
   the generation filter;
2. `SeenCurrent`: of what a running reconcile has listed the live CRs have kept as much, or the key
   is queued, or such an event is coming;
3. `WrittenBody`: after the re-read the ConfigMap holds the reconcile's body, or the key is
   queued, or a ConfigMap event is coming;
4. `IdleConverged`: an idle operator that sees a ConfigMap has converged, or one of these;
5. `ConfigMapAwaited`: one that sees none has a bootstrap that has yet to create it;
6. `StatusInHand`: a CR whose status is not about its current generation is on the list of the
   running reconcile or will be, or another reconcile follows.

With `BaseInv` and `BodyFromSeen` (the body is that of the listed CRs) every step preserves
it; there is one lemma per action. The first four, `OutputInHand`, do not need the bootstrap and
are used again for the replicas; (5) is where one replica alone needs its own.

A relist can merge a deletion and a creation into one update between equal generations, which
breaks (1). The theorems therefore assume of the environment what is needed and no more:
`RelistsWake` says that a list which replaces a broken CR watch wakes the operator if one of the
events it stands for would have. `ClaimRelist` shows that it cannot be dropped. It holds when CR
watches do not break (`UnbrokenWatchesSuffice`), and, which is the stronger result, whenever no
CR is deleted (`LossNeedsDeletion`): between two moments of the history generations then only grow
(`Growing`), so no two changes cancel out. Relists of the ConfigMap need no assumption.

**First edit** (`FirstEditInv`, in `ReconcilerInv`). That a status at rest is exact follows a status
through the caches of successive reconciles: one may compute from CRs older than its predecessor's
writes, and may skip a write because a cached status looks right. As long as there was one edit,
every snapshot between the oldest the operator still works on (`Earliest`) and the live one has the
objects from before the edit or those from after it, in that order (`BeforeThenAfter`). While some
are from before, every status is the initial one or the one due before (`StatusesFromBefore`), so
none can look right by accident for the state after; and a status exact for a snapshot of the state
after is exact in the live one as well (`ExactStays`), so what is skipped needs no write. What is
not exact is in hand (`ExactInHand`). The theorem does not assume `RelistsWake`: one edit alone
cannot cancel out, so a relist that hides it still sees a generation change. With a second edit
`StatusesFromBefore` fails, and so does the property (section 5). `FirstEditInv` was checked with
TLC as an invariant of the `Convergence` instance (0.2 M states) before it was proved; it is not
part of a run, where evaluating it would cost more than the run itself.

**Both targets** (`WakeupProofs`, `CompositionProofs`). An error of one target's bootstrap ends the
other target's process too, a step `Reconciler` has no action for. `SharedSpec` adds it
(`EndedByOther`: an exit at any moment, any number of times, charged to no budget), and
`SharedProcessIsSafe` shows that no safety property depends on its absence. `BothAreServed` then
shows that what the operator does is, seen by either target, a step of its `SharedSpec`, and that
no relist occurs. For Mimir this is said of an instance of the proofs (`MimirP`), whose definitions
are matched with those of `Mimir` one by one, and whose assumptions are `MimirAssumption`.

**Replicas** (`ReplicaProofs`, `ReplicasProofs`). The invariant `ReplicasInv` is local but for the
one thing the replicas share: `OneServer` says that both histories end in the same API server, and
`ReplicaInv(leading)` is said of each replica, with `OutputInHand` for one that leads and hardly
more than types for a follower, which has only to see what exists. `ReplicaProofs` shows, of an
arbitrary replica, that its own steps keep `ReplicaInv` and that another's do, given only what an
outsider can do: append to the histories a ConfigMap, or CRs whose change wakes the controllers or
has `Kept` what the last snapshot had, and take away `fresh`ness. `ReplicasProofs` instantiates that
for the peer, and shows that what one replica shows the other is of that kind. Deposed leaders need
no treatment of their own: two leaders are two replicas that both keep `ReplicaInv(TRUE)`.
Where an idle leader sees no ConfigMap, `LeaderServes` leaves room for `NothingToServe` alone:
`LeaderAwaits`, the replicas' version of (5), says that otherwise there was a CR to wake the
new leader. TLC checked `ReplicasInv` on the bounds of the run `Replicas` before it was proved.

**Merge** (`MergeProofs`). `MergeInv` relates the loop's four maps to the leaves visited so far:
`provenance` has the last visited writer of a path; a conflict's losers, winner and `SameWeight` are
those of the pairs of successive visited writers that disagree (`Reported`, `LosersInOrder`), and its
winner has the value of the last visited writer, which it need not be; `order` lists the conflicts
(`Listed`); all visited writers of a path without a conflict agree, so that it has no such pair; and
the document so far is the layering of the CRs merged. A visit adds at most the pair of the last
writer and the current one, which is why the report cannot depend on the order of visits. TLC checked
the parts about conflicts as invariants of the instance `Merge` before they were proved. The three
properties follow for groups of any length, any weights and every order of
the leaves, also when a comparison panics half-way.

**Field managers** (`MergeProofs`). The invariant says what the loop has found in the entries
visited so far: a latest one with a time, and a first one without.

**Refinement** (`ServiceProofs`). One lemma per action (or group of actions) says which abstract
action it is under the mapping, or that the mapping does not see it. `BaseInv` supplies the types
and that a process that is down holds nothing; `BodyFromSeen` makes the patch a `Serve`: the body
is that of the snapshot being served. `EndReconcile`, by success, error, panic or the death of the
process, is `Forget`. The part that takes care is the vacancy: a step may end one when the cache
no longer shows it, and only a deletion, or a restart after one, makes a new one.

**Admission** (`CompositionProofs`). Every step behind admission is a step of `Reconciler`, so all
its invariants carry over. `ContributorsEntitled` becomes inductive when it is said of every
snapshot a cache may still show and of the CRs a reconcile has listed, not only of the live ones;
`CheckedNotRejected` follows from `StatusTruthful` and from `unchecked` being right about the live
specs.

**Disabled target** (`DisabledProofs`). `NeverAhead` needs `FreshIsLive` (an update with the live
resourceVersion was computed from the live CR). `SettledMarked` needs to know where an unmarked
CR is remembered: `Woken` says its name is queued, being reconciled, or changed by an event still
to come, and `ChangesPass` says that a CR which a cached snapshot shows as done, and which is not
done now, was changed in between in a way that passes the generation filter. Assumed of the CRs
from the enabled days: no status is ahead of its object. Watches do not break here; `DisabledTarget` has no relist, and the merged deletion and creation of `ClaimRelist` would
go unnoticed here as well.

So every invariant and every safety property of the passing runs is proved, the wake-ups under the
hypothesis named. Left to TLC is everything under fairness (`Convergence`, `HandoverConverges`,
`MimirConverges`, `LokiConverges`, `EventuallyMarked`), since neither liveness nor `ENABLED` is
within the provers' reach, and the laws of documents, which are about recursive operators.
`ClaimRelist`, `ClaimPanic`, `ClaimApplied` and `ClaimReplicas` are counterexamples, with nothing to
prove.

## 5. Where comments and code disagree

Runs that expect a violation, each with a finding in `PROJECT.json`:

* `ClaimApplied`: two CRs valid alone and invalid together keep `Applied=True` while their
  tenant is left out of the output.
* `ClaimReplicas`: the leader dies, the last CR and the ConfigMap are deleted, and another replica
  takes the lease. Its bootstrap ran when its process started, its informers find nothing to tell
  it about, and the ConfigMap stays missing, though `bootstrap.go:20-23` says that the bootstrap
  *guarantees the file [...] always exists, even before any CR is authored*. Any later CR, or a
  restart, repairs it.
* `ClaimRelist`: a CR deleted and recreated while the watch is broken looks unchanged to the
  generation filter and stays unreconciled until another event, or the ConfigMap informer's
  resync (10 hours by default, not modelled).
* `ClaimPanic`: two CRs of a tenant setting the same list-of-maps field make every reconcile of
  the target panic.

Met on the way, and not kept as runs:

* Between the bootstrap's read (no ConfigMap) and its forced apply of the empty body a reconcile
  can write the real content, which is overwritten until the reconciler is woken by the event:
  `bootstrap.go:56-57` wants to avoid *briefly* serving the empty body. The abstract specification
  allows it by its action `Fill`.
* The read after the apply (`apply.go:104`) is a cached one and may not find the ConfigMap just
  created; from the bootstrap this error ends the process. `LokiConverges` and `MimirConverges`
  hold in spite of it.
* The status comparison (`loki_controller.go:286`) uses the cached status and status writes wake
  nobody, so after several edits in a row a status may stay out of date at rest, though the
  README (212-215) offers the hash as something to verify against. `FirstEditInStatus` states
  what does hold.
* `checkDrift` (line 194) may report drift when the cache does not show the operator's own last
  write yet, though lines 83-84 conclude that *a third party clobbered the file*.
* `merge/conflict.go` says that a conflict has *one Winner (the last CR to write that leaf)* and
  *the list of prior CRs that wrote the same leaf with a different value* (32-34), but compares each
  writer with the next only (55-66). When three CRs write 1, 2, 1 the first is a `Loser` though it
  wrote the very value that wins, and gets a `FieldOverridden` event (`loki_controller.go:268-276`);
  with 1, 1, 2 the first CR, which is overridden, is not among the `Losers` and gets none; with
  1, 2, 2 the `Winner` is not the last writer. `SameWeight` may be set while no loser has the
  winner's weight (14-15). `ReportIsOfGroup` says exactly what is reported instead. The order of
  the reported conflicts depends on map iteration, though line 78 speaks of *deterministic output*.
* `disabled.go:134` emits its event before the status write, so a refused write repeats it
  (106-107 say *on first transition*); line 131 moves `observedGeneration` while the
  `Validated` condition keeps its old verdict.

## 6. Not modelled

Metrics, events, logging and the banner (write-only); flags, TLS, probes, the webhook's HTTP
server and its Source-Code header; the upstream `Limits` schemas (a constant) and the once-only
priming of their defaults; labels; periodic resync and all delays; conflict lists and message
texts in statuses; the election protocol; the policy's modes `template` and `custom`, whose
expression the administrator writes (mode `off` is `Reconciler` with `UserEdit`); two targets
configured with one and the same ConfigMap (`config.go` does not reject it; two reconcilers would
then wake and overwrite each other without end); a hash in the cache that is older than the
ConfigMap, which only makes for a false drift report.

## 7. Plan

Done: the core, both targets, the disabled-target watcher, the merge, the abstract service and its
refinement, the replicas, admission and the field managers, and the proofs of section 4. Left, the most consequential first:

1. A second instance of `Operator` with one shared ConfigMap, which the configuration allows.
2. `Operator` with edits of the CRs (with one edit and one crash it has 4 million states, too many
   for the liveness run); `SharedSpec` would then have to let the other target spend its edits.
3. `Replicas` over both targets, and with API errors.

## 8. Running it

    tlc -workers 2 -config Wakeups.cfg MCReconciler
    tlc -workers 2 -config Merge.cfg MCTrackingMerge
    tlc -workers 2 -config Disabled.cfg MCDisabledTarget
    tlc -workers 2 -config BothTargets.cfg MCOperator
    tlc -workers 2 -config Failures.cfg MCAdmission
    tlc -workers 2 -config Replicas.cfg MCReplicas
    tlapm ReconcilerProofs.tla
    tlapm WakeupProofs.tla
    tlapm ServiceProofs.tla
    tlapm CompositionProofs.tla
    tlapm DisabledProofs.tla
    tlapm ReplicaProofs.tla
    tlapm ReplicasProofs.tla
    tlapm MergeProofs.tla

`ClaimReplicas` belongs to `MCReplicas`, the other cfg files (`Tampering`, `Convergence`,
`ClaimApplied`, `ClaimRelist`, `ClaimPanic`) to `MCReconciler`.
Operators marked *Mutant* in the modules are plausible bugs of the definition that follows them;
substituting one for that definition must make TLC report the property `PROJECT.json` names.
