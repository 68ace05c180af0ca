------------------------------ MODULE Replicas ------------------------------
(***************************************************************************)
(* Two replicas of the operator on one target, with leader election.  This *)
(* replica is module Reconciler as it stands, its peer a second instance;  *)
(* each has caches, a queue and a hash cache of its own, and both write to *)
(* the same API server: the last elements of their histories agree.        *)
(*                                                                         *)
(* Every replica runs the bootstrap.  The controllers, with their CR       *)
(* informers, start when it gets the lease and run until it ends; a leader *)
(* whose lease has gone to the other may go on working until it notices.   *)
(***************************************************************************)
EXTENDS Reconciler

CONSTANT MaxLag   \* bound on the moments a history spans

ASSUME MaxLagAssumption == MaxLag \in Nat \ {0}

VARIABLES
  peerCrHist, peerCmHist, peerUp, peerQueued, peerHashCache, peerPc, peerDrift,
  peerSeen, peerBody, peerFresh, peerTodo, peerConflictHit, peerBoot,
  peerBootHash,
  leads,  \* the replicas whose controllers run
  lease   \* the replica that got the lease last

Peer == INSTANCE Reconciler WITH
  crHist <- peerCrHist, cmHist <- peerCmHist, up <- peerUp,
  queued <- peerQueued, hashCache <- peerHashCache, pc <- peerPc,
  drift <- peerDrift, seen <- peerSeen, body <- peerBody, fresh <- peerFresh,
  todo <- peerTodo, conflictHit <- peerConflictHit, boot <- peerBoot,
  bootHash <- peerBootHash

thisVars == <<crHist, cmHist, process>>

(* What the other replica's steps leave alone in a replica.                *)
thisOwn == <<up, queued, hashCache, pc, drift, seen, body, todo, conflictHit,
             bootVars>>

peerOwn == <<peerUp, peerQueued, peerHashCache, peerPc, peerDrift, peerSeen,
             peerBody, peerTodo, peerConflictHit, peerBoot, peerBootHash>>

peerVars == <<peerCrHist, peerCmHist, peerFresh, peerOwn>>

election == <<leads, lease>>

replicaVars == <<thisVars, peerVars, used, election>>

-----------------------------------------------------------------------------
(* A change of the API server's objects from before to after, as the       *)
(* watches of the other replica show it.                                   *)
Shown(before, after, hist, watched) ==
  IF Live(after) = Live(before) THEN hist
  ELSE IF watched THEN Append(hist, Live(after)) ELSE <<Live(after)>>

Touched(before, after) == { k \in Keys : Live(after)[k] # Live(before)[k] }

(* Two leaders can overwrite each other for as long as the deposed one is  *)
(* not told; the histories of what they wrote are kept bounded.            *)
BoundedLag ==
  /\ Len(crHist) <= MaxLag /\ Len(cmHist) <= MaxLag
  /\ Len(peerCrHist) <= MaxLag /\ Len(peerCmHist) <= MaxLag

ShownToPeer ==
  /\ peerCrHist' = Shown(crHist, crHist', peerCrHist, "peer" \in leads)
  /\ peerCmHist' = Shown(cmHist, cmHist', peerCmHist, peerUp)
  /\ peerFresh' = peerFresh \ Touched(crHist, crHist')
  /\ UNCHANGED peerOwn
  /\ BoundedLag'

ShownToThis ==
  /\ crHist' = Shown(peerCrHist, peerCrHist', crHist, "this" \in leads)
  /\ cmHist' = Shown(peerCmHist, peerCmHist', cmHist, up)
  /\ fresh' = fresh \ Touched(peerCrHist, peerCrHist')
  /\ UNCHANGED thisOwn
  /\ BoundedLag'

-----------------------------------------------------------------------------
(* The controllers of a leader, the lease holder or one deposed.           *)
ThisReconciles ==
  /\ "this" \in leads
  /\ ReconcileStep
  /\ ShownToPeer
  /\ UNCHANGED election

PeerReconciles ==
  /\ "peer" \in leads
  /\ Peer!ReconcileStep
  /\ ShownToThis
  /\ UNCHANGED election

ThisWatches ==
  /\ "this" \in leads
  /\ DeliverCR \/ DeliverCM
  /\ ShownToPeer
  /\ UNCHANGED election

PeerWatches ==
  /\ "peer" \in leads
  /\ Peer!DeliverCR \/ Peer!DeliverCM
  /\ ShownToThis
  /\ UNCHANGED election

(* A follower's ConfigMap cache is the bootstrap's: its events queue       *)
(* nothing.                                                                *)
ThisFollows ==
  /\ up /\ "this" \notin leads
  /\ Len(cmHist) > 1
  /\ cmHist' = Tail(cmHist)
  /\ UNCHANGED <<crHist, process, peerVars, used, election>>

PeerFollows ==
  /\ peerUp /\ "peer" \notin leads
  /\ Len(peerCmHist) > 1
  /\ peerCmHist' = Tail(peerCmHist)
  /\ UNCHANGED <<peerCrHist, peerFresh, peerOwn, thisVars, used, election>>

(* NeedLeaderElection is false: leader or not, a replica bootstraps.  An   *)
(* error ends it.                                                          *)
ThisBootstraps ==
  /\ BootStep
  /\ ShownToPeer
  /\ leads' = IF up' THEN leads ELSE leads \ {"this"}
  /\ UNCHANGED lease

PeerBootstraps ==
  /\ Peer!BootStep
  /\ ShownToThis
  /\ leads' = IF peerUp' THEN leads ELSE leads \ {"peer"}
  /\ UNCHANGED lease

-----------------------------------------------------------------------------
(* Mutant: the lease of a process that is gone does not expire.            *)
LeaseExpiredNever == FALSE

LeaseExpired == lease \notin leads

(* A leader that does not renew the lease in time loses it, which counts   *)
(* as a crash.  That is kept for the first leader, this replica: the other *)
(* way round is the same with the names swapped.                           *)
LeaseLost ==
  /\ lease = "this" /\ "this" \in leads
  /\ Spend("crash")

(* Mutant: the controllers wait for the first change.                      *)
StartQueueEmpty(crs, cm) == FALSE

(* The CR informers list and the handlers are told of every object the     *)
(* caches have.                                                            *)
StartQueue(crs, cm) == Present(crs) # {} \/ cm # Absent

ThisTakesLease ==
  /\ up /\ "this" \notin leads
  /\ LeaseExpired
  /\ lease' = "this"
  /\ leads' = leads \cup {"this"}
  /\ crHist' = <<Live(crHist)>>
  /\ queued' = StartQueue(Live(crHist), Cached(cmHist))
  /\ UNCHANGED <<cmHist, up, hashCache, locals, bootVars, peerVars,
                 used>>

PeerTakesLease ==
  /\ peerUp /\ "peer" \notin leads
  /\ \/ LeaseExpired /\ UNCHANGED used
     \/ LeaseLost
  /\ lease' = "peer"
  /\ leads' = leads \cup {"peer"}
  /\ peerCrHist' = <<Live(peerCrHist)>>
  /\ peerQueued' = StartQueue(Live(peerCrHist), Cached(peerCmHist))
  /\ UNCHANGED <<thisVars, peerCmHist, peerUp, peerHashCache, peerPc, peerDrift,
                 peerSeen, peerBody, peerFresh, peerTodo, peerConflictHit,
                 peerBoot, peerBootHash>>

(* A leader that notices that the lease is lost ends its process.          *)
ThisStepsDown ==
  /\ "this" \in leads /\ lease # "this"
  /\ Exit
  /\ leads' = leads \ {"this"}
  /\ UNCHANGED <<peerVars, used, lease>>

(* A process that dies keeps the lease until it expires.                   *)
ThisCrashes ==
  /\ Crash
  /\ leads' = leads \ {"this"}
  /\ UNCHANGED <<peerVars, lease>>

PeerCrashes ==
  /\ Peer!Crash
  /\ leads' = leads \ {"peer"}
  /\ UNCHANGED <<thisVars, lease>>

(* A new process begins as a follower.                                     *)
ThisStarts ==
  /\ ~ up
  /\ up' = TRUE
  /\ UNCHANGED <<crHist, cmHist, queued, hashCache, locals, bootVars, peerVars,
                 used, election>>

PeerStarts ==
  /\ ~ peerUp
  /\ peerUp' = TRUE
  /\ UNCHANGED <<peerCrHist, peerCmHist, peerQueued, peerHashCache, peerPc,
                 peerDrift, peerSeen, peerBody, peerFresh, peerTodo,
                 peerConflictHit, peerBoot, peerBootHash, thisVars, used,
                 election>>

(* Users and third parties, whom both replicas watch.  Of the latter only  *)
(* the one that deletes the ConfigMap is kept, and counts as an edit.      *)
CRsEdited == UserEdit /\ ShownToPeer /\ UNCHANGED election

ConfigMapDeleted ==
  /\ Spend("edit")
  /\ Live(cmHist) # Absent
  /\ cmHist' = Push(cmHist, Absent)
  /\ UNCHANGED <<crHist, process>>
  /\ ShownToPeer
  /\ UNCHANGED election

-----------------------------------------------------------------------------
(* A CR whose status is that of the output being served.                   *)
SettledCRs(specs) ==
  LET new == [k \in Keys |-> IF specs[k] = Absent THEN Absent
                                                 ELSE NewCR(specs[k])]
  IN  [k \in Keys |->
         IF specs[k] = Absent THEN Absent
         ELSE [new[k] EXCEPT !.status =
                 computeDesiredStatus(new, k, Hash(Desired(specs)))]]

(* This replica leads and is at rest; its peer is about to start.          *)
ReplicasInit ==
  /\ \E specs \in InitialSpecs :
       /\ crHist = <<SettledCRs(specs)>>
       /\ cmHist = <<Desired(specs)>>
       /\ hashCache = Hash(Desired(specs))
  /\ up = TRUE
  /\ queued = FALSE
  /\ pc = "idle" /\ drift = FALSE /\ seen = Nothing /\ body = NoBody
  /\ fresh = {} /\ todo = {} /\ conflictHit = FALSE
  /\ boot = "done" /\ bootHash = NoHash
  /\ used = [kind \in Disturbances |-> 0]
  /\ leads = {"this"} /\ lease = "this"
  /\ peerCrHist = crHist /\ peerCmHist = cmHist
  /\ peerUp = FALSE /\ peerQueued = FALSE /\ peerHashCache = NoHash
  /\ peerPc = "idle" /\ peerDrift = FALSE /\ peerSeen = Nothing
  /\ peerBody = NoBody /\ peerFresh = {} /\ peerTodo = {}
  /\ peerConflictHit = FALSE
  /\ peerBoot = "get" /\ peerBootHash = NoHash

ThisStep ==
  \/ ThisReconciles
  \/ ThisWatches
  \/ ThisFollows
  \/ ThisBootstraps
  \/ ThisTakesLease
  \/ ThisStepsDown
  \/ ThisStarts

PeerStep ==
  \/ PeerReconciles
  \/ PeerWatches
  \/ PeerFollows
  \/ PeerBootstraps
  \/ PeerTakesLease
  \/ PeerStarts

ReplicasNext ==
  \/ ThisStep
  \/ PeerStep
  \/ ThisCrashes
  \/ PeerCrashes
  \/ CRsEdited
  \/ ConfigMapDeleted

ReplicasSpec == ReplicasInit /\ [][ReplicasNext]_replicaVars

(* What the elector and the kubelet do for a replica.  An expired lease is *)
(* taken; that a lease is lost is never assumed.                           *)
ThisLives == ThisStarts \/ ThisStepsDown \/ ThisTakesLease

PeerLives == PeerStarts \/ (LeaseExpired /\ PeerTakesLease)

ReplicasFairness ==
  /\ WF_replicaVars(ThisReconciles \/ ThisBootstraps)
  /\ WF_replicaVars(ThisWatches \/ ThisFollows)
  /\ WF_replicaVars(ThisLives)
  /\ WF_replicaVars(PeerReconciles \/ PeerBootstraps)
  /\ WF_replicaVars(PeerWatches \/ PeerFollows)
  /\ WF_replicaVars(PeerLives)

FairReplicasSpec == ReplicasSpec /\ ReplicasFairness

-----------------------------------------------------------------------------
(* A new leader that finds neither a CR nor a ConfigMap is told of nothing *)
(* and its bootstrap is over: the ConfigMap stays missing.                 *)
NothingToServe == Live(cmHist) = Absent /\ Present(Live(crHist)) = {}

LeaderAtRest == IF lease = "this" THEN Settled ELSE Peer!Settled

(* Two replicas never lose an update between them: when the one that holds *)
(* the lease is at rest, the ConfigMap is the union of the valid CRs,      *)
(* whatever the other, a follower's bootstrap or a deposed leader with an  *)
(* old snapshot, has written before or is about to write.                  *)
LeaderServes ==
  lease \in leads /\ LeaderAtRest => Converged \/ NothingToServe

(* After a hand-over exactly one replica goes on leading, and the output   *)
(* comes to rest at the union of the valid CRs: the deposed leader and the *)
(* new one do not keep overwriting each other.                             *)
HandoverConverges ==
  <>[](leads = {lease} /\ LeaderAtRest /\ (Converged \/ NothingToServe))

(* bootstrap.go: the ConfigMap the backends mount always exists, even      *)
(* before any CR is authored.  Asked with the leader at rest and the       *)
(* bootstraps of both replicas done.                                       *)
ConfigMapAlwaysExists ==
  leads = {lease} /\ LeaderAtRest /\ boot = "done" /\ peerBoot = "done" =>
    Live(cmHist) # Absent
=============================================================================
