------------------------- MODULE DiscoveryPersistence -------------------------
(***************************************************************************)
(* The discovery server with its state on disk: statePersister             *)
(* (cluster_discovery_server.go) feeding the JSONFileStateProvider         *)
(* (json_file_state_provider.go), and process crashes and restarts.        *)
(*                                                                         *)
(* Everything in memory dies with the process; the file survives.  Save    *)
(* truncates the file before it writes it, so a crash or a failed write    *)
(* between the two leaves a file that does not parse, and Load takes a     *)
(* file it cannot read or parse for an empty one.                          *)
(***************************************************************************)
EXTENDS ClusterDiscoveryServer

CONSTANTS
    EmptyID,      \* the affiliate id ""
    FileFaults,   \* which of os.Create ("create"), file.Write ("write") and
                  \* os.ReadFile ("read") may fail
    MaxCrashes    \* bound on the number of crashes

ASSUME PersistenceAssumption ==
    /\ FileFaults \subseteq {"create", "write", "read"}
    /\ MaxCrashes \in Nat

VARIABLES
    pstate,    \* statePersister's own copy of the affiliates
    file,      \* the state file: whether it parses, and the affiliates it lists
    saving,    \* where Save is, or how the last Save or Load ended
    crashes

persistVars == <<pstate, file, saving>>
allVars == <<vars, persistVars, crashes>>

PersistTypeOK ==
    /\ TypeOK
    /\ pstate \in SUBSET ClusterAffiliate
    /\ file \in [parses: BOOLEAN, affiliates: SUBSET ClusterAffiliate]
    /\ saving \in {"idle", "create", "write", "failed"}
    /\ crashes \in Nat

-----------------------------------------------------------------------------
\* What Save leaves when it is done, and after truncating or a partial write.
Complete(A) == [parses |-> TRUE, affiliates |-> A]
Torn == [parses |-> FALSE, affiliates |-> {}]

\* The affiliates in the file; none in one that does not parse or does not exist.
\* (Encoding and decoding an affiliate gives back the fields modelled here.)
Stored == IF file.parses THEN file.affiliates ELSE {}

\* JSONFileStateProvider.Load: the outcomes, and whether the file was read.  A file
\* that cannot be read loads as no affiliates and is left as it is.
Load ==
    {[ok |-> TRUE, affiliates |-> Stored]}
    \cup {[ok |-> FALSE, affiliates |-> {}] : x \in FileFaults \cap {"read"}}

\* Only affiliates with an id take part in persistence.
Named(A) == {a \in A : a.id # EmptyID}

\* Mutant: an affiliate that is already known is not overwritten.
Applied_KeepsFirst(A, m) ==
    LET B == Named(m.affiliates)
        Others == {a \in A : \A b \in B : KeyOf(a) # KeyOf(b)} IN
    IF m.deleted THEN Others
    ELSE A \cup {b \in B : \A a \in A : KeyOf(a) # KeyOf(b)}

\* statePersister's map after message m.
Applied(A, m) ==
    LET B == Named(m.affiliates)
        Others == {a \in A : \A b \in B : KeyOf(a) # KeyOf(b)} IN
    IF m.deleted THEN Others ELSE Others \cup B

\* The first start finds no file and creates one with an empty list; if that fails
\* there is none, or a part of one, which loads in the same way.
PersistInit ==
    /\ Init
    /\ pstate = {}
    /\ \/ file = Complete({})
       \/ FileFaults # {} /\ file = Torn
    /\ saving = "idle"
    /\ crashes = 0

\* Mutant: deletions are not saved until the next update.
PersistReceive_SkipsDeletes ==
    /\ saving \in {"idle", "failed"}
    /\ PersisterReceive
    /\ pstate' = Applied(pstate, Head(chan[Persister]))
    /\ saving' = IF Head(chan[Persister]).deleted THEN "idle" ELSE "create"
    /\ UNCHANGED <<file, crashes>>

\* statePersister takes the next message and calls Save with its whole map.
PersistReceive ==
    /\ saving \in {"idle", "failed"}
    /\ PersisterReceive
    /\ pstate' = Applied(pstate, Head(chan[Persister]))
    /\ saving' = "create"
    /\ UNCHANGED <<file, crashes>>

\* os.Create truncates the file.  Save that fails logs the error and returns; the
\* persister goes on to its next message.
SaveCreate ==
    /\ saving = "create"
    /\ \/ file' = Torn /\ saving' = "write"
       \/ "create" \in FileFaults /\ file' = file /\ saving' = "failed"
    /\ UNCHANGED <<vars, pstate, crashes>>

\* file.Write and file.Sync; a write that fails has written a part at most.
SaveWrite ==
    /\ saving = "write"
    /\ \/ file' = Complete(pstate) /\ saving' = "idle"
       \/ "write" \in FileFaults /\ file' = Torn /\ saving' = "failed"
    /\ UNCHANGED <<vars, pstate, crashes>>

\* The process dies and is started again: NewClusterDiscoveryServer loads the
\* file, the persister starts from the same list, clients have to reconnect.
Crash ==
    /\ crashes < MaxCrashes
    /\ crashes' = crashes + 1
    /\ \E loaded \in Load :
          /\ clusterAffiliates' = LoadedMap(loaded.affiliates)
          /\ pstate' = Named(loaded.affiliates)
          /\ saving' = IF loaded.ok THEN "idle" ELSE "failed"
    /\ watchers' = {Persister}
    /\ mutex' = Nil
    /\ todo' = {}
    /\ target' = Nil
    /\ chan' = [c \in Chans |-> <<>>]
    /\ reclaimed' = {}
    /\ pc' = [p \in Procs |-> "idle"]
    /\ gcNow' = [p \in Procs |-> 0]
    /\ msg' = [p \in Procs |-> NoMsg]
    /\ ret' = [p \in Procs |-> "idle"]
    /\ req' = [h \in Handlers |-> Nil]
    /\ resp' = [h \in Handlers |-> {}]
    /\ cluster' = [s \in Streams |-> Nil]
    /\ view' = [s \in Streams |-> [a \in AffiliateID |-> Nil]]
    /\ UNCHANGED <<file, now, calls>>

PersistStep ==
    \/ ServerNext /\ UNCHANGED <<persistVars, crashes>>
    \/ PersistReceive
    \/ SaveCreate
    \/ SaveWrite

PersistNext == PersistStep \/ Crash

PersistSpec == PersistInit /\ [][PersistNext]_allVars

-----------------------------------------------------------------------------
(***************************************************************************)
(* Safety.                                                                 *)
(***************************************************************************)

\* Whatever went wrong before, a crash loses nothing the persister has processed and
\* a restart finds exactly that state again, with three exceptions: a Save was under
\* way, the last Save (or, without one, the Load) of the process had failed, or the
\* restarted process cannot read the file.
Durable ==
    [][crashes' # crashes /\ saving = "idle" /\ saving' = "idle" =>
          clusterAffiliates' = LoadedMap(pstate)]_allVars

(***************************************************************************)
(* Liveness.  The persister is a goroutine like the others, so its steps   *)
(* are scheduled fairly; a save that may fail does not fail for ever.      *)
(***************************************************************************)
PersistFairness ==
    /\ ServerFairness
    /\ WF_allVars(PersistReceive)
    /\ WF_allVars(SaveCreate)
    /\ WF_allVars(SaveWrite)
    /\ SF_allVars(SaveCreate /\ saving' = "write")
    /\ SF_allVars(SaveWrite /\ file'.parses)

FairPersistSpec == PersistSpec /\ PersistFairness

\* The file holds the present content of k.
Saved(k) == file.parses /\ clusterAffiliates[k] \in file.affiliates

Detached == Persister \in reclaimed

\* As long as the Go collector has not reclaimed the persister's watcher, the file
\* catches up with every registered affiliate that has an id: through crashes, torn
\* files and failed saves, the periodic rebroadcast brings it there again.
SavedWhileAttached ==
    \A k \in ClusterAffiliateID :
        k[2] # EmptyID /\ <>[](clusterAffiliates[k] # Nil /\ ~Detached)
        => []<>Saved(k) \/ <>Wedged

\* What --state-path promises: the peer state is saved.  An affiliate that stays
\* registered is in the file again and again, whatever the Go collector does.
SavedAlways ==
    \A k \in ClusterAffiliateID :
        k[2] # EmptyID /\ <>[](clusterAffiliates[k] # Nil)
        => []<>Saved(k) \/ <>Wedged

Ghost(k) ==
    /\ clusterAffiliates[k] = Nil
    /\ file.parses
    /\ \E a \in file.affiliates : KeyOf(a) = k

\* What --state-path promises of deletions: an affiliate a client has deleted does
\* not stay in the file for good.
GhostsLeave ==
    \A k \in ClusterAffiliateID :
        []~Detached => []<>~Ghost(k) \/ <>Wedged

=============================================================================
