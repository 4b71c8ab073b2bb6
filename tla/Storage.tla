------------------------------ MODULE Storage ------------------------------
(***************************************************************************)
(* What an agent keeps outside itself: its sessions (DurableSessions) and  *)
(* what it remembers (Memory).  The two share no state; the steps followed *)
(* are of the one or of the other, and the other stays at one start.       *)
(***************************************************************************)
EXTENDS DurableSessions, Memory

VARIABLE used

storageVars == <<used, sessionVars, vars>>

StorageInit ==
  /\ \/ /\ used = "sessions"
        /\ kind = (CHOOSE k \in Kinds : TRUE) /\ calls = (CHOOSE history \in Histories : TRUE)
     \/ /\ used = "memory"
        /\ backend = "redis" /\ ttl = NoTtl /\ home = (CHOOSE h \in [Requests -> Processes] : TRUE)
  /\ SessionInit /\ Init

Keeping     == used = "sessions" /\ UNCHANGED <<used, vars>>
Remembering == used = "memory" /\ UNCHANGED <<used, sessionVars>>

StorageNext == (SessionNext /\ Keeping) \/ (Next /\ Remembering)

StorageSpec == StorageInit /\ [][StorageNext]_storageVars

\* The fairness is that of FairSessionSpec and of Memory's FairSpec.
FairStorageSpec ==
  /\ StorageSpec
  /\ \A r \in Requests :
       WF_storageVars(Lock(r) /\ Keeping) /\ WF_storageVars((Insert(r) \/ Finish(r)) /\ Keeping)
  /\ WF_storageVars(stage # "idle" /\ ~WaitsForStore /\ Step /\ Remembering)
=============================================================================
