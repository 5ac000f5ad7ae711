---------------------- MODULE DiscoveryPersistence_proofs ----------------------
(***************************************************************************)
(* Proofs about the discovery server with its state on disk.  Between two  *)
(* crashes the process takes the steps ClusterDiscoveryServer_proofs and   *)
(* DiscoveryBroadcast_proofs reason about, or leaves the server's memory   *)
(* alone; a crash resets it.                                               *)
(***************************************************************************)
EXTENDS DiscoveryPersistence, DiscoveryBroadcast_proofs

(***************************************************************************)
(* The file and the persister's copy.  Unless a Save is under way, or the  *)
(* last Save or the Load of this process has failed, a restart that can    *)
(* read the file loads what the persister has: in particular after a       *)
(* restart from a torn file, when both are empty.  Neither ever holds an   *)
(* affiliate without an id.                                                *)
(***************************************************************************)
LoadInv ==
    /\ saving = "idle" => Stored = pstate
    /\ Named(pstate) = pstate
    /\ Named(Stored) = Stored

\* Everything the restarted process relies on.
MemoryInv == QueueInv /\ TotalOrder /\ TimeInv /\ FreshInv /\ ListFresh

-----------------------------------------------------------------------------
\* What a step is for the server's memory.
LEMMA MemoryStep == [PersistNext]_allVars => [Next]_vars \/ Crash
  BY DEF PersistNext, PersistStep, PersistReceive, SaveCreate, SaveWrite, Next, allVars

LEMMA LoadedMapType ==
    ASSUME NEW A \in SUBSET ClusterAffiliate
    PROVE  LoadedMap(A) \in [ClusterAffiliateID -> ClusterAffiliate \cup {Nil}]
  <1> SUFFICES ASSUME NEW k \in ClusterAffiliateID, \E a \in A : KeyOf(a) = k
               PROVE  (CHOOSE a \in A : KeyOf(a) = k) \in ClusterAffiliate
    BY DEF LoadedMap
  <1> QED
    OBVIOUS

LEMMA LoadType ==
    ASSUME PersistTypeOK
    PROVE  /\ Stored \in SUBSET ClusterAffiliate
           /\ \A loaded \in Load : loaded.affiliates \in SUBSET ClusterAffiliate
  <1>1. Stored \in SUBSET ClusterAffiliate
    BY DEF PersistTypeOK, Stored
  <1> QED
    BY <1>1 DEF Load

\* A restarted process satisfies what a new one does.
LEMMA RestartResets ==
    ASSUME PersistTypeOK, Crash
    PROVE  MemoryInv'
  <1> USE ConstantsAssumption DEF Crash
  <1>1. clusterAffiliates' \in [ClusterAffiliateID -> ClusterAffiliate \cup {Nil}]
    <2>1. PICK loaded \in Load : clusterAffiliates' = LoadedMap(loaded.affiliates)
      OBVIOUS
    <2> QED
      BY <2>1, LoadType, LoadedMapType
  <1>2. TypeOK'
    BY <1>1 DEF PersistTypeOK, TypeOK, NoMsg, WatchResponse, Control, Procs, Chans
  <1>3. RequestInv'
    BY DEF RequestInv, HasRequest, Procs
  <1>4. HolderInv'
    BY DEF HolderInv
  <1>5. LockInv' /\ VisitInv'
    BY DEF LockInv, VisitInv
  <1>6. StartInv'
    BY DEF StartInv, Procs, Chans
  <1>7. TimeInv'
    BY DEF TimeInv, PersistTypeOK, TypeOK
  <1>8. FreshInv' /\ ListFresh'
    BY DEF FreshInv, Swept, ListFresh, Procs
  <1>9. TotalOrder'
    BY DEF TotalOrder, Pending, SuffixOf, Chans
  <1> QED
    BY <1>2, <1>3, <1>4, <1>5, <1>6, <1>7, <1>8, <1>9 DEF MemoryInv, QueueInv, Typed

LEMMA InitMemory == PersistInit => MemoryInv
  BY InitQueue, InitOrder, InitTime, InitFresh DEF PersistInit, MemoryInv

LEMMA NextMemory == PersistTypeOK /\ MemoryInv /\ [PersistNext]_allVars => MemoryInv'
  <1> SUFFICES ASSUME PersistTypeOK, MemoryInv, [PersistNext]_allVars PROVE MemoryInv'
    OBVIOUS
  <1>1. CASE [Next]_vars
    <2>1. QueueInv /\ Typed
      BY DEF MemoryInv, QueueInv
    <2> QED
      BY <1>1, <2>1, NextQueue, NextOrder, NextTime, NextFresh, NextListFresh DEF MemoryInv
  <1>2. CASE Crash
    BY <1>2, RestartResets
  <1> QED
    BY <1>1, <1>2, MemoryStep

-----------------------------------------------------------------------------
\* statePersister's map stays well-formed, and free of affiliates without an id.
LEMMA AppliedType ==
    ASSUME NEW A \in SUBSET ClusterAffiliate, NEW m \in WatchResponse
    PROVE  /\ Applied(A, m) \in SUBSET ClusterAffiliate
           /\ Named(A) = A => Named(Applied(A, m)) = Applied(A, m)
  <1>1. Named(m.affiliates) \in SUBSET ClusterAffiliate
    BY DEF Named, WatchResponse
  <1> QED
    BY <1>1 DEF Applied, Named

LEMMA InitPersist == PersistInit => PersistTypeOK /\ LoadInv
  <1> SUFFICES ASSUME PersistInit PROVE PersistTypeOK /\ LoadInv
    OBVIOUS
  <1>1. /\ file \in [parses: BOOLEAN, affiliates: SUBSET ClusterAffiliate]
        /\ file.affiliates = {}
    <2>1. PICK intact \in BOOLEAN : file = [parses |-> intact, affiliates |-> {}]
      BY Zenon DEF PersistInit, Complete, Torn
    <2> QED
      BY <2>1
  <1>2. Stored = {}
    BY <1>1 DEF Stored
  <1> QED
    BY <1>1, <1>2, InitTyped DEF PersistInit, PersistTypeOK, LoadInv, Typed, Named

LEMMA NextPersist ==
    PersistTypeOK /\ MemoryInv /\ LoadInv /\ [PersistNext]_allVars => PersistTypeOK' /\ LoadInv'
  <1> SUFFICES ASSUME PersistTypeOK, MemoryInv, LoadInv, [PersistNext]_allVars
               PROVE  PersistTypeOK' /\ LoadInv'
    OBVIOUS
  <1>0. TypeOK'
    BY NextMemory DEF MemoryInv, QueueInv, Typed
  <1>1. CASE UNCHANGED <<persistVars, crashes>>
    BY <1>0, <1>1 DEF PersistTypeOK, LoadInv, Stored, persistVars
  <1>2. CASE PersistReceive
    <2>1. Head(chan[Persister]) \in WatchResponse
      BY <1>2 DEF PersistReceive, PersisterReceive, PersistTypeOK, TypeOK, Chans
    <2>2. pstate' \in SUBSET ClusterAffiliate /\ Named(pstate') = pstate'
      BY <1>2, <2>1, AppliedType DEF PersistReceive, PersistTypeOK, LoadInv
    <2> QED
      BY <1>0, <1>2, <2>2 DEF PersistReceive, PersistTypeOK, LoadInv, Stored
  <1>3. CASE SaveCreate \/ SaveWrite
    <2>1. pstate' = pstate /\ crashes' = crashes
      BY <1>3 DEF SaveCreate, SaveWrite
    <2>2. CASE file' = Torn /\ saving' \in {"write", "failed"}
      <3>1. Stored' = {} /\ file' \in [parses: BOOLEAN, affiliates: SUBSET ClusterAffiliate]
        BY <2>2 DEF Torn, Stored, PersistTypeOK
      <3> QED
        BY <1>0, <2>1, <2>2, <3>1 DEF PersistTypeOK, LoadInv, Named
    <2>3. CASE file' = file /\ saving' = "failed"
      <3>1. Stored' = Stored
        BY <2>3 DEF Stored
      <3> QED
        BY <1>0, <2>1, <2>3, <3>1 DEF PersistTypeOK, LoadInv
    <2>4. CASE file' = Complete(pstate) /\ saving' = "idle"
      <3>1. Stored' = pstate /\ file' \in [parses: BOOLEAN, affiliates: SUBSET ClusterAffiliate]
        BY <2>4 DEF Complete, Stored, PersistTypeOK
      <3> QED
        BY <1>0, <2>1, <2>4, <3>1 DEF PersistTypeOK, LoadInv
    <2> QED
      BY <1>3, <2>2, <2>3, <2>4 DEF SaveCreate, SaveWrite
  <1>4. CASE Crash
    <2>1. Stored' = Stored /\ file' = file /\ crashes' \in Nat
      BY <1>4 DEF Crash, Stored, PersistTypeOK
    <2>2. \/ saving' = "idle" /\ pstate' = Stored
          \/ saving' = "failed" /\ pstate' = {}
      BY <1>4 DEF Crash, Load, LoadInv, Named
    <2>3. Named({}) = {}
      BY DEF Named
    <2> QED
      BY <1>0, <2>1, <2>2, <2>3, LoadType DEF PersistTypeOK, LoadInv
  <1> QED
    BY <1>1, <1>2, <1>3, <1>4 DEF PersistNext, PersistStep, allVars

\* The state file, the persister's copy and the map of a restarted process are always
\* made of well-formed affiliates, also after crashes in the middle of a Save.
THEOREM PersistTypeCorrect == PersistSpec => []PersistTypeOK
  <1> QED
    BY InitPersist, NextPersist, InitMemory, NextMemory, PTL DEF PersistSpec

\* Whatever crashed or failed before, a crash loses nothing that the persister has
\* processed, unless it hits a Save, or follows a failed Save or Load that no later Save has
\* made up for, or the restarted process cannot read the file.
THEOREM NothingSavedIsLost == PersistSpec => Durable
  <1> DEFINE Keeps == crashes' # crashes /\ saving = "idle" /\ saving' = "idle" =>
                          clusterAffiliates' = LoadedMap(pstate)
  <1>1. PersistTypeOK /\ LoadInv /\ [PersistNext]_allVars => [Keeps]_allVars
    <2> SUFFICES ASSUME LoadInv, PersistNext, crashes' # crashes, saving = "idle",
                        saving' = "idle"
                 PROVE  clusterAffiliates' = LoadedMap(pstate)
      OBVIOUS
    <2>1. Crash
      BY DEF PersistNext, PersistStep, PersistReceive, SaveCreate, SaveWrite
    <2>2. PICK loaded \in Load : /\ clusterAffiliates' = LoadedMap(loaded.affiliates)
                                 /\ saving' = IF loaded.ok THEN "idle" ELSE "failed"
      BY <2>1 DEF Crash
    <2>3. loaded.affiliates = Stored
      BY <2>2 DEF Load
    <2> QED
      BY <2>2, <2>3 DEF LoadInv
  <1>2. PersistSpec => [][Keeps]_allVars
    <2> HIDE DEF Keeps
    <2> QED
      BY <1>1, InitPersist, NextPersist, InitMemory, NextMemory, PTL DEF PersistSpec
  <1> QED
    BY <1>2 DEF Durable

\* List stays fresh when entries come from the state file: what a restart loads may have
\* expired long ago, and still an affiliate in an answer that had expired when the List
\* arrived was only registered since, with a negative TTL.
THEOREM ListFreshAfterRestart == PersistSpec => []ListFresh
  <1>1. MemoryInv => ListFresh
    BY DEF MemoryInv
  <1> QED
    BY <1>1, InitPersist, NextPersist, InitMemory, NextMemory, PTL DEF PersistSpec

\* Crashes do not upset the order of broadcasts either.
THEOREM OrderedAfterRestart == PersistSpec => []TotalOrder
  <1>1. MemoryInv => TotalOrder
    BY DEF MemoryInv
  <1> QED
    BY <1>1, InitPersist, NextPersist, InitMemory, NextMemory, PTL DEF PersistSpec

=============================================================================
