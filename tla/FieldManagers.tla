--------------------------- MODULE FieldManagers ---------------------------
(***************************************************************************)
(* drift.go: whom a drifted ConfigMap is attributed to, from the entries   *)
(* of its managedFields, which the API server lists in any order.  One     *)
(* call is a behaviour: the loop over the entries, turn by turn.           *)
(***************************************************************************)
EXTENDS Integers, Sequences

CONSTANTS
  Managers,   \* names a field manager may have
  ourManager, \* the operator's
  shortName,  \* names trimmed and cut to 64 bytes, "" when nothing is left
  EntryTimes, \* when an entry was written
  NoTime,     \* the entry does not say
  MaxEntries  \* bound on the entries of one ConfigMap

ASSUME EntryTimesAssumption == EntryTimes \subseteq Int /\ NoTime \notin EntryTimes

ASSUME MaxEntriesAssumption == MaxEntries \in Nat

Entries == [manager : Managers, time : EntryTimes \cup {NoTime}]

VARIABLES
  managedFields, \* the entries of the output ConfigMap
  visited,       \* how many of them the loop has visited
  bestName, bestTime, \* NoTime as long as bestHasTime is false
  fallbackName

found == <<bestName, bestTime, fallbackName>>

fieldsVars == <<managedFields, visited, found>>

(* The API server has listed one more writer; any list can come about      *)
(* before the call.                                                        *)
FieldsWritten ==
  /\ visited = 0
  /\ Len(managedFields) < MaxEntries
  /\ \E mf \in Entries : managedFields' = Append(managedFields, mf)
  /\ UNCHANGED <<visited, found>>

-----------------------------------------------------------------------------
FieldsInit ==
  /\ managedFields = <<>>
  /\ visited = 0
  /\ bestName = "" /\ bestTime = NoTime /\ fallbackName = ""

IsOther(mf) == mf.manager # ourManager /\ shortName[mf.manager] # ""

(* Mutant: the last entry with a time wins.                                *)
LaterAlways(time) == TRUE

Later(time) == bestTime = NoTime \/ time > bestTime

Blame(mf) ==
  IF mf.time = NoTime
  THEN /\ fallbackName' = IF fallbackName = "" THEN shortName[mf.manager]
                                               ELSE fallbackName
       /\ UNCHANGED <<bestName, bestTime>>
  ELSE /\ IF Later(mf.time)
          THEN bestName' = shortName[mf.manager] /\ bestTime' = mf.time
          ELSE UNCHANGED <<bestName, bestTime>>
       /\ UNCHANGED fallbackName

(* One turn of the loop.                                                   *)
Visit ==
  /\ visited < Len(managedFields)
  /\ visited' = visited + 1
  /\ LET mf == managedFields[visited + 1]
     IN  IF IsOther(mf) THEN Blame(mf) ELSE UNCHANGED found
  /\ UNCHANGED managedFields

unknownFieldManager == "unknown"

(* What the call returns after the loop.                                   *)
extractConflictingFieldManager ==
  CASE bestTime # NoTime -> bestName
    [] bestTime = NoTime /\ fallbackName # "" -> fallbackName
    [] OTHER -> unknownFieldManager

FieldsNext == FieldsWritten \/ Visit

FieldsSpec == FieldsInit /\ [][FieldsNext]_fieldsVars

-----------------------------------------------------------------------------
(* The drift is attributed to a most recent of the others that wrote the   *)
(* ConfigMap; an entry without a time counts only when none has one, and   *)
(* nobody is blamed only when there is no other.  The order of the entries *)
(* decides between writers of the same time at most.                       *)
MostRecentOtherBlamed ==
  visited = Len(managedFields) =>
    LET others == { i \in DOMAIN managedFields : IsOther(managedFields[i]) }
        latest == { i \in others : \A j \in others :
                      managedFields[j].time # NoTime =>
                        /\ managedFields[i].time # NoTime
                        /\ managedFields[j].time <= managedFields[i].time }
        blamed == extractConflictingFieldManager
    IN  IF others = {} THEN blamed = unknownFieldManager
        ELSE blamed \in { shortName[managedFields[i].manager] : i \in latest }
=============================================================================
