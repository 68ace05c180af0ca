--------------------------- MODULE DisabledTarget ---------------------------
(***************************************************************************)
(* The watcher of a kind whose target is disabled: LokiDisabledReconciler  *)
(* or MimirDisabledReconciler.  It marks every CR Applied=False with       *)
(* reason TargetDisabled.  Its queue holds CR names, its client reads from *)
(* the informer cache.  crHist is a history as in module Reconciler: first *)
(* element the cache, last the API server, neighbours the watch events.    *)
(* The watch does not break here (see Reconciler.RelistCR).                *)
(***************************************************************************)
EXTENDS Integers, Sequences

CONSTANTS
  Names,       \* the CR names users may create
  Specs,       \* the specs users may submit
  InitialCRs,  \* what may stand under a name when the watcher is first started
  Absent,      \* no such object
  Limit        \* per kind of disturbance, how often it may happen

Disturbances == {"edit", "crash", "fault"}

ASSUME LimitAssumption == Limit \in [Disturbances -> Nat]

(* Only the Applied condition is the watcher's concern.  While the target  *)
(* was enabled the active reconciler set it to True or False.              *)
CRs ==
  [spec : Specs, generation : Nat,
   status : [observedGeneration : Nat,
             applied : {"none", "True", "False", "TargetDisabled"}]]

ASSUME ObjectAssumption ==
  /\ Absent \notin Names \cup CRs
  /\ InitialCRs \subseteq CRs
  /\ \A cr \in InitialCRs : cr.status.observedGeneration <= cr.generation

VARIABLES
  crHist,   \* history of the CRs: Names -> CR or Absent
  up,       \* the operator process runs
  queue,    \* names in the work queue, or waiting out a delay
  busy,     \* name being reconciled, or Absent
  got,      \* the CR Reconcile has read, or Absent
  fresh,    \* its resourceVersion is still the live one
  used      \* how often each disturbance has happened

vars == <<crHist, up, queue, busy, got, fresh, used>>

Cached == crHist[1]
Live   == crHist[Len(crHist)]

Push(crs) == crHist' = IF up THEN Append(crHist, crs) ELSE <<crs>>

Spend(kind) == /\ used[kind] < Limit[kind]
               /\ used' = [used EXCEPT ![kind] = @ + 1]

NoStatus == [observedGeneration |-> 0, applied |-> "none"]

NewCR(spec) == [spec |-> spec, generation |-> 1, status |-> NoStatus]

-----------------------------------------------------------------------------
(* Users, through the API server (external).                               *)

WriteCR(n, cr) ==
  /\ Push([Live EXCEPT ![n] = cr])
  /\ fresh' = (fresh /\ n # busy)

CreateCR(n, spec) ==
  /\ Live[n] = Absent
  /\ WriteCR(n, NewCR(spec))

UpdateSpec(n, spec) ==
  /\ Live[n] # Absent
  /\ Live[n].spec # spec
  /\ WriteCR(n, [Live[n] EXCEPT !.spec = spec, !.generation = @ + 1])

DeleteCR(n) == Live[n] # Absent /\ WriteCR(n, Absent)

UserEdit ==
  /\ Spend("edit")
  /\ \E n \in Names :
       \/ \E spec \in Specs : CreateCR(n, spec) \/ UpdateSpec(n, spec)
       \/ DeleteCR(n)
  /\ UNCHANGED <<up, queue, busy, got>>

-----------------------------------------------------------------------------
(* GenerationChangedPredicate lets creates, deletes and spec changes pass. *)
GenerationChanged(old, new) ==
  \/ (old = Absent) # (new = Absent)
  \/ old # Absent /\ new # Absent /\ old.generation # new.generation

Deliver ==
  /\ up
  /\ Len(crHist) > 1
  /\ queue' = queue \cup { n \in Names : GenerationChanged(crHist[1][n], crHist[2][n]) }
  /\ crHist' = Tail(crHist)
  /\ UNCHANGED <<up, busy, got, fresh, used>>

EndReconcile == busy' = Absent /\ got' = Absent /\ fresh' = FALSE

(* applyDisabledStatus: conditionTransitioned compares LastTransitionTime, *)
(* which upsertCondition moves exactly when the condition is not yet there *)
(* as desired.                                                             *)
Transitioned(cr) == cr.status.applied # "TargetDisabled"

(* Mutant: a change of the generation alone is not written.                *)
GenDriftedIgnored(cr) == FALSE

GenDrifted(cr) == cr.status.observedGeneration # cr.generation

Disabled(cr) ==
  [cr.status EXCEPT !.applied = "TargetDisabled",
                    !.observedGeneration = cr.generation]

(* Reconcile up to its status write: take a name from the queue, read the  *)
(* cached CR; leave it if its status is as it should be.                   *)
Get(n) ==
  /\ up
  /\ busy = Absent
  /\ n \in queue
  /\ queue' = queue \ {n}
  /\ LET cr      == Cached[n]
         changed == cr # Absent /\ (Transitioned(cr) \/ GenDrifted(cr))
     IN  /\ busy' = IF changed THEN n ELSE Absent
         /\ got' = IF changed THEN cr ELSE Absent
         /\ fresh' = (changed /\ \A i \in DOMAIN crHist : crHist[i][n] = cr)
  /\ UNCHANGED <<crHist, up, used>>

(* Mutants: the update carries no resourceVersion; a failed update is not  *)
(* retried.                                                                *)
UpdateUnversioned ==
  /\ busy # Absent
  /\ IF Live[busy] # Absent THEN Push([Live EXCEPT ![busy].status = Disabled(got)])
                            ELSE UNCHANGED crHist
  /\ EndReconcile
  /\ UNCHANGED <<up, queue, used>>

UpdateErrorSwallowed ==
  /\ busy # Absent
  /\ Spend("fault")
  /\ EndReconcile
  /\ UNCHANGED <<crHist, up, queue>>

(* The update carries the resourceVersion that was read.  A conflict puts  *)
(* the name back after a delay, a CR that is gone is forgotten.            *)
Update ==
  /\ busy # Absent
  /\ \/ /\ fresh
        /\ Push([Live EXCEPT ![busy].status = Disabled(got)])
        /\ UNCHANGED queue
     \/ /\ ~ fresh /\ Live[busy] # Absent
        /\ queue' = queue \cup {busy}
        /\ UNCHANGED crHist
     \/ /\ ~ fresh /\ Live[busy] = Absent
        /\ UNCHANGED <<crHist, queue>>
  /\ EndReconcile
  /\ UNCHANGED <<up, used>>

(* Any other error of the update, which may have been carried out, is      *)
(* returned: the queue retries the name.                                   *)
UpdateError ==
  /\ busy # Absent
  /\ Spend("fault")
  /\ \/ UNCHANGED crHist
     \/ fresh /\ Push([Live EXCEPT ![busy].status = Disabled(got)])
  /\ queue' = queue \cup {busy}
  /\ EndReconcile
  /\ UNCHANGED <<up>>

Crash ==
  /\ up
  /\ Spend("crash")
  /\ up' = FALSE
  /\ queue' = {}
  /\ EndReconcile
  /\ crHist' = <<Live>>

Restart ==
  /\ ~ up
  /\ up' = TRUE
  /\ queue' = { n \in Names : Live[n] # Absent }
  /\ UNCHANGED <<crHist, busy, got, fresh, used>>

-----------------------------------------------------------------------------
(* The process has just been given the configuration that disables the     *)
(* target: a CR may be new, or carry the status of the enabled days.       *)
Init ==
  /\ \E crs \in [Names -> {Absent} \cup InitialCRs] : crHist = <<crs>>
  /\ up = FALSE
  /\ queue = {}
  /\ busy = Absent
  /\ got = Absent
  /\ fresh = FALSE
  /\ used = [kind \in Disturbances |-> 0]

ReconcileStep == Update \/ \E n \in Names : Get(n)

Next ==
  \/ UserEdit
  \/ Deliver
  \/ ReconcileStep
  \/ UpdateError
  \/ Crash
  \/ Restart

Spec == Init /\ [][Next]_vars

(* The informer, the worker and the kubelet keep running.                  *)
Fairness ==
  /\ WF_vars(Deliver)
  /\ WF_vars(ReconcileStep)
  /\ WF_vars(Restart)

FairSpec == Spec /\ Fairness

-----------------------------------------------------------------------------
Settled == up /\ queue = {} /\ busy = Absent /\ Len(crHist) = 1

Marked ==
  \A n \in Names : Live[n] # Absent =>
    /\ Live[n].status.applied = "TargetDisabled"
    /\ Live[n].status.observedGeneration = Live[n].generation

(* LokiDisabledReconciler: CRs of a disabled target are never silently     *)
(* ignored.  When the watcher is at rest every CR says TargetDisabled for  *)
(* its current generation, though reads were stale, updates were refused   *)
(* and the process died in between.                                        *)
SettledMarked == Settled => Marked

(* The watcher does come to rest with every CR marked, once users and      *)
(* failures leave it alone.                                                *)
EventuallyMarked == <>[](Settled /\ Marked)

(* A status never gets ahead of the object it stands in: what was computed *)
(* for a CR that was deleted is not written to its namesake.               *)
NeverAhead ==
  \A n \in Names : Live[n] # Absent =>
    Live[n].status.observedGeneration <= Live[n].generation
=============================================================================
