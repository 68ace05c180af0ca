--------------------------- MODULE ReconcilerInv ---------------------------
(***************************************************************************)
(* The inductive invariants behind Reconciler's safety properties.         *)
(***************************************************************************)
EXTENDS Reconciler

PastGather == pc \in {"apply", "patch", "reget", "status"}

(* Only a running process is in the middle of something, and only a        *)
(* reconcile past gather holds CRs and a body.                             *)
PhaseInv ==
  /\ ~ up => pc = "idle" /\ boot = "get" /\ Len(crHist) = 1 /\ Len(cmHist) = 1
  /\ pc \in {"idle", "gather"} => fresh = {} /\ todo = {}
  /\ todo \subseteq Present(seen)
  /\ PastGather => body \in Bodies

(* A CR whose resourceVersion is still current is the live object.         *)
FreshInv ==
  \A k \in fresh : seen[k] # Absent /\ Live(crHist)[k] = seen[k]

BaseInv == TypeOK /\ PhaseInv /\ FreshInv

(* The body of a reconcile is that of the CRs it listed.                   *)
BodyFromSeen == PastGather => body = Desired(SpecsOf(seen))

-----------------------------------------------------------------------------
(* No CR event still to be delivered will put the key in the queue.        *)
NoWakeupPending ==
  \A j \in 1 .. Len(crHist) - 1 : ~ GenerationChanged(crHist[j], crHist[j+1])

(* What is left alone from one snapshot to another without a wake-up: the  *)
(* specs, and that a status is about its CR's current generation.          *)
Observed(cr) == cr = Absent \/ cr.status.observedGeneration = cr.generation

Kept(old, new) ==
  /\ SpecsOf(new) = SpecsOf(old)
  /\ \A k \in Keys : Observed(old[k]) => Observed(new[k])

(* A snapshot of which the live one has not kept that is followed by an    *)
(* event that passes the generation filter.                                *)
ChangesWake ==
  \A i \in DOMAIN crHist :
    ~ Kept(crHist[i], Live(crHist)) =>
      \E j \in i .. Len(crHist) - 1 : GenerationChanged(crHist[j], crHist[j+1])

(* The CRs a reconcile works on have the live specs, unless the reconcile  *)
(* will run again.                                                         *)
SeenCurrent ==
  PastGather /\ ~ queued /\ NoWakeupPending => Kept(seen, Live(crHist))

(* Once a reconcile has read its write back, the ConfigMap holds its body  *)
(* unless an event about it is on its way or the key is queued.            *)
WrittenBody ==
  /\ pc = "reget" /\ ~ queued /\ Len(cmHist) = 1 /\ Cached(cmHist) # Absent
       => Live(cmHist) = body
  /\ pc = "status" /\ ~ queued
       => /\ Cached(cmHist) # Absent
          /\ Len(cmHist) = 1 => Live(cmHist) = body

(* An idle operator has either converged, or is about to be woken, or sees *)
(* no ConfigMap.                                                           *)
IdleConverged ==
  /\ up /\ pc = "idle" /\ ~ queued
  /\ Cached(cmHist) # Absent /\ Len(cmHist) = 1 /\ NoWakeupPending
  => Converged

(* Where the bootstrap is as long as it has not seen one either.           *)
BeforeCM == {"get", "apply", "patch", "reget"}

ConfigMapAwaited ==
  up /\ pc = "idle" /\ ~ queued /\ Cached(cmHist) = Absent => boot \in BeforeCM

(* A status that is not about its CR's current generation is on the list   *)
(* of the running reconcile or to be, unless another will be woken.        *)
StatusInHand ==
  /\ up /\ ~ queued /\ NoWakeupPending
  /\ pc # "gather" /\ used["statusError"] = 0
  => \A k \in Keys :
       \/ Observed(Live(crHist)[k])
       \/ pc \in {"apply", "patch", "reget"}
       \/ pc = "status" /\ (k \in todo \/ conflictHit)

(* What every step preserves about the output.  It says where the work     *)
(* still to be done is remembered: in a watch event, in the queue, or in   *)
(* the reconcile that is running.                                          *)
OutputInHand ==
  /\ ChangesWake
  /\ SeenCurrent
  /\ WrittenBody
  /\ IdleConverged

(* That of SettledConverged and SettledObserved.                           *)
WakeupInv == OutputInHand /\ ConfigMapAwaited /\ StatusInHand

(* A list that replaces a broken watch wakes the operator if an event it   *)
(* stands for would have.                                                  *)
RelistWakes ==
  RelistCR => NoWakeupPending \/ GenerationChanged(Cached(crHist), Live(crHist))

-----------------------------------------------------------------------------
(* FirstEditInStatus: what has been edited at most once is in one of two   *)
(* states, before the edit and after it.                                   *)
Objects(crs) ==
  [k \in Keys |-> IF crs[k] = Absent THEN {} ELSE {<<crs[k].spec, crs[k].generation>>}]

(* The status a reconcile of these CRs gives to one of them.               *)
Due(crs, k) == computeDesiredStatus(crs, k, Hash(Desired(SpecsOf(crs))))

Exact(crs, k) == crs[k] # Absent /\ crs[k].status = Due(crs, k)

(* The oldest CRs that the operator still works on.                        *)
Earliest == IF PastGather THEN seen ELSE Cached(crHist)

BeforeThenAfter ==
  LET before == Objects(Earliest)
      after  == Objects(Live(crHist))
  IN  /\ \A i \in DOMAIN crHist : Objects(crHist[i]) \in {before, after}
      /\ \A i, j \in DOMAIN crHist :
           i <= j /\ Objects(crHist[i]) = after => Objects(crHist[j]) = after
      /\ before # after => /\ SpecsOf(Earliest) # SpecsOf(Live(crHist))
                           /\ GenerationChanged(Earliest, Live(crHist))
      /\ used["edit"] = 0 => before = after

(* As long as the operator works on the state before, no status is about   *)
(* the one after.                                                          *)
StatusesFromBefore ==
  used["edit"] = 0 \/ Objects(Earliest) # Objects(Live(crHist)) =>
    \A i \in DOMAIN crHist : \A k \in Present(crHist[i]) :
      \/ crHist[i][k].status = NoStatus
      \/ Earliest[k] # Absent /\ crHist[i][k].status = Due(Earliest, k)

(* An exact status stays exact: what is skipped because a cached status is *)
(* exact needs no update.                                                  *)
ExactStays ==
  \A crs \in {Earliest} \cup { crHist[i] : i \in DOMAIN crHist } : \A k \in Keys :
    Objects(crs) = Objects(Live(crHist)) /\ Exact(crs, k) => Exact(Live(crHist), k)

(* StatusInHand, for exact statuses.                                       *)
ExactInHand ==
  /\ up /\ ~ queued /\ NoWakeupPending
  /\ pc # "gather" /\ used["statusError"] = 0
  => \A k \in Present(Live(crHist)) :
       \/ Exact(Live(crHist), k)
       \/ pc \in {"apply", "patch", "reget"}
       \/ pc = "status" /\ (k \in todo \/ conflictHit)

OneEdit == BeforeThenAfter /\ StatusesFromBefore /\ ExactStays

FirstEditInv == used["edit"] <= 1 => WakeupInv /\ OneEdit /\ ExactInHand
=============================================================================
