----------------------------- MODULE Admission -----------------------------
(***************************************************************************)
(* What stands between a user's request and the API server: the tenant     *)
(* ownership policy of the chart, in its default mode, and the validating  *)
(* webhook, whose failurePolicy lets a request pass when it gives no       *)
(* answer.  Neither sees deletions, status updates or what is merged.      *)
(***************************************************************************)
EXTENDS Reconciler

CONSTANT crossNamespaceNamespaces   \* those that may write any tenant

VARIABLE unchecked   \* CRs whose invalid spec got in while the webhook gave no answer

admissionVars == <<vars, unchecked>>

-----------------------------------------------------------------------------
(* The CEL expression, evaluated by the API server; an unset tenantId is 0. *)
OwnershipExpression(namespace, tenantId) ==
  \/ tenantId = 0
  \/ tenantId = namespace
  \/ namespace \in crossNamespaceNamespaces

validateSpec(spec) == Validate(spec.overrides)

Create(k, spec) ==
  /\ CreateCR(k, spec)
  /\ OwnershipExpression(k.ns, spec.tenantId)

(* Mutant: the policy matches creations only.                              *)
UpdateUnmatched(k, spec) == UpdateSpec(k, spec)

Update(k, spec) ==
  /\ UpdateSpec(k, spec)
  /\ OwnershipExpression(k.ns, spec.tenantId)

(* Mutant: updates are answered like deletions.                            *)
PassesCreated(k, spec) ==
  /\ Live(crHist)[k] = Absent => validateSpec(spec)
  /\ unchecked' = unchecked \ {k}

(* A spec the validator accepts gets in, answered or not.                  *)
Passes(k, spec) ==
  /\ validateSpec(spec)
  /\ unchecked' = unchecked \ {k}

(* failurePolicy Ignore: no answer in time is as good as a yes.            *)
Slips(k, spec) ==
  /\ ~ validateSpec(spec)
  /\ unchecked' = unchecked \cup {k}

AdmittedEdit ==
  /\ Spend("edit")
  /\ \E k \in Keys :
       \/ \E spec \in Specs :
            /\ Create(k, spec) \/ Update(k, spec)
            /\ Passes(k, spec) \/ Slips(k, spec)
       \/ DeleteCR(k) /\ unchecked' = unchecked \ {k}
  /\ UNCHANGED <<cmHist, up, queued, hashCache, pc, drift, seen, body, todo,
                 conflictHit, bootVars>>

-----------------------------------------------------------------------------
(* CRs that exist when the chart is installed have passed no webhook.      *)
AdmissionInit ==
  /\ Init
  /\ unchecked = { k \in Present(Live(crHist)) :
                     ~ validateSpec(Live(crHist)[k].spec) }

AdmissionNext ==
  \/ AdmittedEdit
  \/ /\ \/ Tamper
        \/ DeliverCR
        \/ DeliverCM
        \/ RelistCR
        \/ RelistCM
        \/ ReconcileStep
        \/ APIError
        \/ \E k \in Keys : StatusError(k)
        \/ BootStep
        \/ Crash
        \/ Restart
     /\ UNCHANGED unchecked

AdmissionSpec == AdmissionInit /\ [][AdmissionNext]_admissionVars

-----------------------------------------------------------------------------
(* Whom the chart's values say a tenant belongs to.                        *)
MayWrite(namespace, tenant) ==
  tenant = namespace \/ namespace \in crossNamespaceNamespaces

(* A reconcile merges into a tenant only CRs of namespaces the tenant      *)
(* belongs to: what the policy asks of spec.tenantId, set or unset, on     *)
(* creation and on every update, is enough for the tenant the reconciler   *)
(* derives from it, long after, from a cache.                              *)
ContributorsEntitled ==
  \A k \in Present(seen) : MayWrite(k.ns, Effective(k, seen[k].spec))

(* Who got the webhook's yes is not told otherwise by the reconciler: no   *)
(* status for the current generation of a checked CR rejects it.           *)
CheckedNotRejected ==
  \A k \in Present(Live(crHist)) \ unchecked :
    LET cr == Live(crHist)[k]
    IN  cr.status.observedGeneration = cr.generation => cr.status.validated
=============================================================================
