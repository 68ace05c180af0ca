-------------------------- MODULE MCDisabledTarget --------------------------
(***************************************************************************)
(* Two CRs; at the start a CR may be absent, new, or have been edited and  *)
(* applied while the target was enabled.                                   *)
(***************************************************************************)
EXTENDS DisabledTarget

CONSTANTS MaxEdits, MaxCrashes, MaxFaults

MCInitialCRs ==
  { NewCR(s) : s \in Specs } \cup
  { [spec |-> s, generation |-> 2,
     status |-> [observedGeneration |-> 2, applied |-> "True"]] : s \in Specs }

MCLimit ==
  [kind \in Disturbances |->
     CASE kind = "edit"  -> MaxEdits
       [] kind = "crash" -> MaxCrashes
       [] kind = "fault" -> MaxFaults]
=============================================================================
