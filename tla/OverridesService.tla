-------------------------- MODULE OverridesService --------------------------
(***************************************************************************)
(* What the operator promises the backends, without queues, caches,        *)
(* reconciles or processes: the body they are served is the rendered union *)
(* of the valid CRs of one moment, the moments never go back in time, and  *)
(* the empty body is put only where the ConfigMap was missing.             *)
(***************************************************************************)
EXTENDS Integers, Sequences

CONSTANTS
  Snapshots,    \* the specs all CRs may have at one moment
  Desired(_),   \* the body that serves a snapshot
  EmptyBody,    \* the body that serves no tenant
  ForeignBodies, \* what a third party may leave in the ConfigMap's place
  Missing,      \* the third party deleted the ConfigMap
  NoView        \* no moment is being served

VARIABLES
  window,   \* the moments a look may still see, the last one being now
  view,     \* the moment looked at and being served, or NoView
  served,   \* what stands in the ConfigMap's place
  vacancy   \* the ConfigMap was missing and the empty body may still fill it

serviceVars == <<window, view, served, vacancy>>

Suffixes(s) == { SubSeq(s, i, Len(s)) : i \in 1 .. Len(s) }

ServiceInit ==
  /\ \E specs \in Snapshots : window = <<specs>>
  /\ view = NoView
  /\ served \in ForeignBodies
  /\ vacancy = (served = Missing)

(* The CRs change, or are rewritten with the specs they have.              *)
Change ==
  /\ \E specs \in Snapshots : window' \in Suffixes(Append(window, specs))
  /\ UNCHANGED <<view, served, vacancy>>

(* The oldest moments go out of sight.                                     *)
Advance ==
  /\ window' \in Suffixes(window)
  /\ UNCHANGED <<view, served, vacancy>>

Look ==
  /\ view' = window[1]
  /\ UNCHANGED <<window, served, vacancy>>

(* The moment looked at is served, and may be served again.                *)
Serve ==
  /\ view # NoView
  /\ served' = Desired(view)
  /\ view' \in {view, NoView}
  /\ UNCHANGED <<window, vacancy>>

(* The moment is given up: the next one served is looked at anew.          *)
Forget ==
  /\ view' = NoView
  /\ window' \in Suffixes(window)
  /\ vacancy' \in {vacancy, served = Missing}
  /\ UNCHANGED served

(* The empty body fills a vacancy, once.                                   *)
Fill ==
  /\ vacancy
  /\ vacancy' = FALSE
  /\ served' = EmptyBody
  /\ UNCHANGED <<window, view>>

(* A vacancy is over, or was never noticed.                                *)
Close ==
  /\ vacancy' = FALSE
  /\ UNCHANGED <<window, view, served>>

Interfere ==
  /\ served' \in ForeignBodies
  /\ vacancy' \in {vacancy, served' = Missing}
  /\ UNCHANGED <<window, view>>

ServiceNext ==
  Change \/ Advance \/ Look \/ Serve \/ Forget \/ Fill \/ Close \/ Interfere

ServiceSpec == ServiceInit /\ [][ServiceNext]_serviceVars
=============================================================================
