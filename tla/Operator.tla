------------------------------ MODULE Operator ------------------------------
(***************************************************************************)
(* The operator process with both targets enabled.  The Loki target is     *)
(* module Reconciler as it stands; the Mimir target, whose reconciler is a *)
(* parallel copy of the code, is a second instance of it.  They have their *)
(* own CRs, ConfigMap, queue and worker, and share the process and the     *)
(* bootstrap goroutine, which serves Loki first and Mimir after it.        *)
(***************************************************************************)
EXTENDS Reconciler

CONSTANTS MimirKeys, MimirSpecs, MimirInitialSpecs   \* those of Mimir's kind

VARIABLES
  mimirCrHist, mimirCmHist, mimirQueued, mimirHashCache, mimirPc, mimirDrift,
  mimirSeen, mimirBody, mimirFresh, mimirTodo, mimirConflictHit, mimirBoot,
  mimirBootHash

Mimir == INSTANCE Reconciler WITH
  Keys <- MimirKeys, Specs <- MimirSpecs, InitialSpecs <- MimirInitialSpecs,
  crHist <- mimirCrHist, cmHist <- mimirCmHist, queued <- mimirQueued,
  hashCache <- mimirHashCache, pc <- mimirPc, drift <- mimirDrift,
  seen <- mimirSeen, body <- mimirBody, fresh <- mimirFresh, todo <- mimirTodo,
  conflictHit <- mimirConflictHit, boot <- mimirBoot, bootHash <- mimirBootHash

ASSUME MimirAssumption ==
  /\ MimirKeys \subseteq [ns : Nat \ {0}, name : Nat \ {0}]
  /\ MimirSpecs \subseteq [tenantId : Nat, weight : Int, overrides : OverrideMaps]
  /\ Absent \notin MimirSpecs \cup Mimir!CRs
  /\ MimirInitialSpecs \subseteq [MimirKeys -> MimirSpecs \cup {Absent}]
  /\ \A x \in {Absent, NoKey, NoBody} \cup Foreign : x \notin Mimir!Bodies

lokiVars == <<crHist, cmHist, queued, hashCache, locals, bootVars>>

mimirVars == <<mimirCrHist, mimirCmHist, mimirQueued, mimirHashCache, mimirPc,
               mimirDrift, mimirSeen, mimirBody, mimirFresh, mimirTodo,
               mimirConflictHit, mimirBoot, mimirBootHash>>

operatorVars == <<lokiVars, mimirVars, up, used>>

-----------------------------------------------------------------------------
(* What one target does while the process lives.  Later edits of the CRs,  *)
(* third parties, API errors and broken watches concern one target alone   *)
(* and are left to module Reconciler.                                      *)
LokiReconcile == ReconcileStep /\ UNCHANGED mimirVars

LokiWatches == (DeliverCR \/ DeliverCM) /\ UNCHANGED mimirVars

(* Mutant: Mimir's key waits for Loki's queue to be empty.                 *)
MimirCheckDriftBehindLoki ==
  Mimir!CheckDrift /\ pc = "idle" /\ ~ queued /\ UNCHANGED lokiVars

MimirCheckDrift == Mimir!CheckDrift /\ UNCHANGED lokiVars

MimirGather == Mimir!Gather /\ UNCHANGED lokiVars

MimirApply ==
  /\ Mimir!ApplyGet \/ Mimir!PatchCM \/ Mimir!ReGet
  /\ UNCHANGED lokiVars

MimirUpdateStatuses ==
  /\ Mimir!ReconcileDone \/ \E k \in MimirKeys : Mimir!UpdateStatus(k)
  /\ UNCHANGED lokiVars

MimirReconcile ==
  MimirCheckDrift \/ MimirGather \/ MimirApply \/ MimirUpdateStatuses

MimirWatches == (Mimir!DeliverCR \/ Mimir!DeliverCM) /\ UNCHANGED lokiVars

-----------------------------------------------------------------------------
(* The loop over the targets.  An error of either ends the process, and    *)
(* the other target's work with it.                                        *)
BootstrapLoki ==
  /\ BootStep
  /\ IF up' THEN UNCHANGED mimirVars ELSE Mimir!Exit

BootstrapMimir ==
  /\ boot = "done"
  /\ Mimir!BootStep
  /\ IF up' THEN UNCHANGED lokiVars ELSE Exit

Bootstrap == BootstrapLoki \/ BootstrapMimir

ProcessCrash == Crash /\ Mimir!Exit

ProcessRestart == Restart /\ Mimir!Restart

OperatorInit == Init /\ Mimir!Init

OperatorNext ==
  \/ LokiReconcile
  \/ LokiWatches
  \/ MimirReconcile
  \/ MimirWatches
  \/ Bootstrap
  \/ ProcessCrash
  \/ ProcessRestart

OperatorSpec == OperatorInit /\ [][OperatorNext]_operatorVars

(* Each controller has a worker of its own.                                *)
OperatorFairness ==
  /\ WF_operatorVars(LokiReconcile)
  /\ WF_operatorVars(LokiWatches)
  /\ WF_operatorVars(MimirReconcile)
  /\ WF_operatorVars(MimirWatches)
  /\ WF_operatorVars(Bootstrap)
  /\ WF_operatorVars(ProcessRestart)

FairOperatorSpec == OperatorSpec /\ OperatorFairness

-----------------------------------------------------------------------------
(* Whatever has ended the process, at whatever step of either target: a    *)
(* target at rest has written the union of its CRs, however far the other  *)
(* has come.                                                               *)
BothServe == SettledConverged /\ Mimir!SettledConverged

(* Mimir's output converges whatever becomes of Loki's: a Loki target that *)
(* fails every reconcile does not hold the Mimir target back, nor does the *)
(* bootstrap that serves Loki first and ends the process on an error.      *)
MimirConverges == <>[](Mimir!Settled /\ Mimir!Converged)

(* Loki's output converges beside Mimir's, unless its own CRs make every   *)
(* merge panic.                                                            *)
LokiConverges ==
  <>[](MergePanics(SpecsOf(Live(crHist))) \/ (Settled /\ Converged))
=============================================================================
