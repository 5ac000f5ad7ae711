------------------------- MODULE LinkConfigReconciler -------------------------
(***************************************************************************)
(* controllers/linkconfig_controller.go for one Machine: the Machine and   *)
(* its LinkConfigs in the API server, the controller's lagging caches, its *)
(* work queue, Reconcile with the calls EnsureRoutes makes to the node,    *)
(* and the node itself.                                                    *)
(*                                                                         *)
(* The controller remembers which interfaces it manages only in an         *)
(* annotation of the Machine, which it writes after the node has been      *)
(* changed and verified.                                                   *)
(***************************************************************************)
EXTENDS TalosInjector, Sequences

CONSTANTS
    Name,            \* names of LinkConfigs
    DefaultName,     \* the one a Machine without the annotation uses
    Specs,           \* route sets users write in a LinkConfig
    Invalid,         \* a LinkConfig spec that extractDesiredRoutes refuses
    Pod,             \* pods that carry the label of the virtual machine
    Annotations,     \* network annotations of pods, NoAnnotation among them or not
    NoAnnotation,    \* a pod without the annotation
    Address, MachineIP,  \* addresses; the internal one of the Machine
    Faults,          \* which calls may go wrong, see Fault
    CacheLag,        \* whether reconciles may read outdated caches
    MaxEdits         \* bound on the users' edits and the changes of pods

\* "list": linkConfigToMachines cannot list the Machines; "get": the active
\* configuration cannot be read; "apply": it is rejected; "reply": it takes effect but
\* the answer is lost; "wait": the routes do not show up in time; "patch": the
\* annotation is not written; "crash": the controller dies.
Fault == {"list", "get", "apply", "reply", "wait", "patch", "crash"}

\* An entry of k8s.ovn.org/pod-networks: its parsable addresses, and gateway_ip
\* followed by gateway_ips, NoGateway where blank.
ovnPodNetwork == [ips: SUBSET Address, gateways: Seq(Gateway \cup {NoGateway})]

ASSUME ReconcilerAssumption ==
    /\ DefaultName \in Name
    /\ Specs \subseteq SUBSET Route
    /\ Invalid \notin Specs
    /\ Nil \notin Annotations \cup Gateway \cup {NoAnnotation, NoGateway}
    /\ \A a \in Annotations \ {NoAnnotation} : \A n \in a : n \in ovnPodNetwork
    /\ MachineIP \in Address
    /\ Faults \subseteq Fault
    /\ CacheLag \in BOOLEAN
    /\ MaxEdits \in Nat

\* The annotation dockyards.io/link-config-state.
AppliedState == [name: Name, generation: Nat, routes: SUBSET Route]

ASSUME NilAssumption == Nil \notin AppliedState

Machine ==
    [deleting: BOOLEAN, linkConfig: Name \cup {Nil},
     address: {"none", "external", "internal"}, state: AppliedState \cup {Nil}]

LinkConfig == [generation: Nat, spec: Specs \cup {Invalid}]

Job ==
    [state: AppliedState \cup {Nil}, name: Name, generation: Nat,
     routes: SUBSET Route, managed: SUBSET Interface, update: MachineConfig]

VARIABLES
    machine, linkConfigs,               \* objects in the API server
    secret,                             \* whether the talosconfig secret exists
    pods,                               \* annotation of each pod, Nil if there is no pod
    machineCache, linkConfigCache,      \* the controller's copies
    queued,                             \* the Machine is in the work queue
    pc, job,                            \* Reconcile's control state and locals
    config,                             \* machine configuration of the node
    routeSpecs,                         \* routes the node has derived from it
    edits

vars == <<machine, linkConfigs, secret, pods, machineCache, linkConfigCache,
          queued, pc, job, config, routeSpecs, edits>>

clusterVars == <<secret, pods>>
apiVars   == <<machine, linkConfigs, clusterVars, edits>>
cacheVars == <<machineCache, linkConfigCache>>
nodeVars  == <<config, routeSpecs>>

TypeOK ==
    /\ machine \in Machine
    /\ linkConfigs \in [Name -> LinkConfig \cup {Nil}]
    /\ secret \in BOOLEAN
    /\ pods \in [Pod -> Annotations \cup {Nil}]
    /\ machineCache \in Machine
    /\ linkConfigCache \in [Name -> LinkConfig \cup {Nil}]
    /\ queued \in BOOLEAN
    /\ pc \in {"idle", "get", "apply", "wait", "persist"}
    /\ job \in Job \cup {Nil}
    /\ config \in MachineConfig
    /\ routeSpecs \in SUBSET Route
    /\ edits \in Nat

\* A new Machine, not yet reconciled, on a node whose configuration has no routes
\* but may have documents for some interfaces.
Init ==
    /\ machine = [deleting |-> FALSE, linkConfig |-> Nil,
                  address |-> "none", state |-> Nil]
    /\ linkConfigs = [n \in Name |-> Nil]
    /\ secret = FALSE
    /\ pods \in [Pod -> Annotations \cup {Nil}]
    /\ machineCache = machine
    /\ linkConfigCache = linkConfigs
    /\ queued = TRUE
    /\ pc = "idle"
    /\ job = Nil
    /\ config \in [Interface -> {Nil, {}}]
    /\ routeSpecs = {}
    /\ edits = 0

-----------------------------------------------------------------------------
(***************************************************************************)
(* Users and the other controllers of the cluster.                         *)
(***************************************************************************)
Edit ==
    /\ edits < MaxEdits
    /\ edits' = edits + 1

\* Creating starts at generation 1, a change of the spec increments it.
WriteLinkConfig(n, spec) ==
    /\ Edit
    /\ linkConfigs[n] # Nil => linkConfigs[n].spec # spec
    /\ linkConfigs' = [linkConfigs EXCEPT ![n] =
          [generation |-> IF @ = Nil THEN 1 ELSE @.generation + 1, spec |-> spec]]
    /\ UNCHANGED <<machine, clusterVars, cacheVars, queued, pc, job, nodeVars>>

DeleteLinkConfig(n) ==
    /\ Edit
    /\ linkConfigs[n] # Nil
    /\ linkConfigs' = [linkConfigs EXCEPT ![n] = Nil]
    /\ UNCHANGED <<machine, clusterVars, cacheVars, queued, pc, job, nodeVars>>

SelectLinkConfig(n) ==
    /\ Edit
    /\ machine.linkConfig # n
    /\ machine' = [machine EXCEPT !.linkConfig = n]
    /\ UNCHANGED <<linkConfigs, clusterVars, cacheVars, queued, pc, job, nodeVars>>

DeleteMachine ==
    /\ Edit
    /\ ~machine.deleting
    /\ machine' = [machine EXCEPT !.deleting = TRUE]
    /\ UNCHANGED <<linkConfigs, clusterVars, cacheVars, queued, pc, job, nodeVars>>

AddressAppears(a) ==
    /\ machine.address = "none" \/ (machine.address = "external" /\ a = "internal")
    /\ machine' = [machine EXCEPT !.address = a]
    /\ UNCHANGED <<linkConfigs, clusterVars, edits, cacheVars, queued, pc, job, nodeVars>>

\* The controller watches neither the secret nor the pods.
SecretAppears ==
    /\ ~secret
    /\ secret' = TRUE
    /\ UNCHANGED <<machine, linkConfigs, pods, edits, cacheVars, queued, pc, job, nodeVars>>

\* A pod comes, gets another annotation, or goes.
PodChanges(q, a) ==
    /\ Edit
    /\ pods[q] # a
    /\ pods' = [pods EXCEPT ![q] = a]
    /\ UNCHANGED <<machine, linkConfigs, secret, cacheVars, queued, pc, job, nodeVars>>

-----------------------------------------------------------------------------
(***************************************************************************)
(* Caches and watches.                                                     *)
(***************************************************************************)
SelectedName(m) == IF m.linkConfig = Nil THEN DefaultName ELSE m.linkConfig

SyncMachine ==
    /\ machineCache # machine
    /\ machineCache' = machine
    /\ queued' = TRUE
    /\ UNCHANGED <<apiVars, linkConfigCache, pc, job, nodeVars>>

\* Mutant: a change of a LinkConfig queues nothing.
SyncLinkConfig_Ignores(n) ==
    /\ linkConfigCache[n] # linkConfigs[n]
    /\ linkConfigCache' = [linkConfigCache EXCEPT ![n] = linkConfigs[n]]
    /\ UNCHANGED <<apiVars, machineCache, queued, pc, job, nodeVars>>

\* linkConfigToMachines looks the Machine up in the cache and queues it if it uses
\* the LinkConfig of the event; if it cannot list the Machines the event is lost.
SyncLinkConfig(n) ==
    /\ linkConfigCache[n] # linkConfigs[n]
    /\ linkConfigCache' = [linkConfigCache EXCEPT ![n] = linkConfigs[n]]
    /\ \/ queued' = (queued \/ SelectedName(machineCache) = n)
       \/ "list" \in Faults /\ queued' = queued
    /\ UNCHANGED <<apiVars, machineCache, pc, job, nodeVars>>

\* The caches list everything anew from time to time.
Resync ==
    /\ ~queued
    /\ queued' = TRUE
    /\ UNCHANGED <<apiVars, cacheVars, pc, job, nodeVars>>

-----------------------------------------------------------------------------
(***************************************************************************)
(* Reconcile.  Reading the two caches, which lag independently, is one     *)
(* step.  An error puts the Machine back into the queue.                   *)
(***************************************************************************)
managedInterfacesFromState(state) ==
    IF state = Nil THEN {} ELSE Interfaces(state.routes)

\* Mutant: the interfaces of the last applied state are forgotten.
mergeManagedInterfaces_Forgets(state, routes) == Interfaces(routes)

mergeManagedInterfaces(state, routes) ==
    Interfaces(routes) \cup managedInterfacesFromState(state)

WithGateway(routes, g) ==
    {IF r.gateway = NoGateway THEN [r EXCEPT !.gateway = g] ELSE r : r \in routes}

NeedsGateway(routes) == \E r \in routes : r.gateway = NoGateway

\* The first gateway that is not blank, trimmed; Nil if there is none.
gatewayFromOVNNetwork(n) ==
    LET I == {i \in 1..Len(n.gateways) : n.gateways[i] # NoGateway} IN
    IF I = {} THEN Nil
    ELSE TrimSpace(n.gateways[CHOOSE i \in I : \A j \in I : i <= j])

\* Mutant: the address of the Machine plays no part.
Matching_Any(a) == a

Matching(a) == {n \in a : MachineIP \in n.ips}

\* The networks are visited in the random order of a Go map and the first match
\* decides, for better or (Nil) for worse.
selectGatewayFromOVNPodNetworks(a) ==
    IF Matching(a) = {} THEN {Nil} ELSE {gatewayFromOVNNetwork(n) : n \in Matching(a)}

\* Pods with the annotation come first; the order among them is the cache's.
findVMPodForMachine ==
    LET annotated == {q \in Pod : pods[q] \notin {Nil, NoAnnotation}} IN
    IF annotated # {} THEN annotated ELSE {q \in Pod : pods[q] # Nil}

\* What deriveGatewayFromVMPod may return, Nil for an error.
deriveGatewayFromVMPod(m) ==
    IF m.address # "internal" \/ findVMPodForMachine = {} THEN {Nil}
    ELSE UNION {IF pods[q] = NoAnnotation THEN {Nil}
                ELSE selectGatewayFromOVNPodNetworks(pods[q]) : q \in findVMPodForMachine}

\* extractNodeFromMachine or extractTalosConfigFromClusterSecret fails.
NodeFails(m) == m.address = "none" \/ ~secret

\* reconcileMissingLinkConfig has nothing to do.
NothingToClean(m) ==
    m.state # Nil => \/ m.state.name # SelectedName(m)
                     \/ managedInterfacesFromState(m.state) = {}

Done == pc' = "idle" /\ job' = Nil

Fail == Done /\ queued' = TRUE

Takes ==
    /\ pc = "idle"
    /\ queued
    /\ CacheLag \/ (machineCache = machine /\ linkConfigCache = linkConfigs)

Ignores(m) ==
    \/ m.deleting
    \/ linkConfigCache[SelectedName(m)] = Nil /\ NothingToClean(m)

Refuses(m) ==
    LET lc == linkConfigCache[SelectedName(m)] IN
    \/ lc # Nil /\ lc.spec = Invalid
    \/ NodeFails(m)
    \/ /\ lc # Nil /\ lc.spec # Invalid
       /\ NeedsGateway(lc.spec)
       /\ Nil \in deriveGatewayFromVMPod(m)

ReconcileIgnores ==
    /\ Takes
    /\ Ignores(machineCache)
    /\ Done
    /\ queued' = FALSE
    /\ UNCHANGED <<apiVars, cacheVars, nodeVars>>

ReconcileRefuses ==
    /\ Takes
    /\ ~Ignores(machineCache)
    /\ Refuses(machineCache)
    /\ Fail
    /\ UNCHANGED <<apiVars, cacheVars, nodeVars>>

\* What EnsureRoutes is called with: no routes if the LinkConfig is gone.
StartsWith(routes) ==
    LET m  == machineCache
        lc == linkConfigCache[SelectedName(m)] IN
    /\ pc' = "get"
    /\ job' = [state |-> m.state,
               name |-> SelectedName(m),
               generation |-> IF lc = Nil THEN 0 ELSE lc.generation,
               routes |-> routes,
               managed |-> mergeManagedInterfaces(m.state, routes),
               update |-> [i \in Interface |-> Nil]]
    /\ queued' = FALSE
    /\ UNCHANGED <<apiVars, cacheVars, nodeVars>>

ReconcileStarts ==
    LET m  == machineCache
        lc == linkConfigCache[SelectedName(m)] IN
    /\ Takes
    /\ ~Ignores(m)
    /\ ~NodeFails(m)
    /\ \/ lc = Nil /\ StartsWith({})
       \/ /\ lc # Nil /\ lc.spec # Invalid
          /\ IF NeedsGateway(lc.spec)
             THEN \E g \in deriveGatewayFromVMPod(m) \ {Nil} :
                     StartsWith(WithGateway(lc.spec, g))
             ELSE StartsWith(lc.spec)

-----------------------------------------------------------------------------
(***************************************************************************)
(* EnsureRoutes: read the active configuration, replace it as a whole if   *)
(* the managed routes differ, wait for the node to derive the routes.      *)
(***************************************************************************)
Updated ==
    reconcileManagedLinkRoutes(config,
        desiredRouteConfigsByInterface(
            normalizeManagedInterfaces(job.managed, job.routes), job.routes))

GetActive ==
    /\ pc = "get"
    /\ ~DesiredFails(job.routes)
    /\ pc' = IF job.managed = {} THEN "persist"
             ELSE IF Updated = config THEN "wait" ELSE "apply"
    /\ job' = [job EXCEPT !.update = Updated]
    /\ UNCHANGED <<apiVars, cacheVars, queued, nodeVars>>

GetFails ==
    /\ pc = "get"
    /\ "get" \in Faults \/ DesiredFails(job.routes)
    /\ Fail
    /\ UNCHANGED <<apiVars, cacheVars, nodeVars>>

Apply ==
    /\ pc = "apply"
    /\ config' = job.update
    /\ pc' = "wait"
    /\ UNCHANGED <<apiVars, cacheVars, queued, job, routeSpecs>>

ApplyFails ==
    /\ pc = "apply"
    /\ \/ "apply" \in Faults /\ config' = config
       \/ "reply" \in Faults /\ config' = job.update
    /\ Fail
    /\ UNCHANGED <<apiVars, cacheVars, routeSpecs>>

\* waitForRoutesApplied returns once every route is there, at once without routes.
Wait ==
    /\ pc = "wait"
    /\ ~ExpectedFails(job.routes)
    /\ job.routes \subseteq routeSpecs
    /\ pc' = "persist"
    /\ UNCHANGED <<apiVars, cacheVars, queued, job, nodeVars>>

WaitFails ==
    /\ pc = "wait"
    /\ \/ ExpectedFails(job.routes)
       \/ "wait" \in Faults /\ job.routes # {}
    /\ Fail
    /\ UNCHANGED <<apiVars, cacheVars, nodeVars>>

-----------------------------------------------------------------------------
\* persistReconciledLinkConfigState compares with the annotation as it was read and
\* writes with a merge patch, which no concurrent change makes fail.
NewState == [name |-> job.name, generation |-> job.generation, routes |-> job.routes]

Persist ==
    /\ pc = "persist"
    /\ machine' = IF NewState = job.state THEN machine
                  ELSE [machine EXCEPT !.state = NewState]
    /\ Done
    /\ UNCHANGED <<linkConfigs, clusterVars, edits, cacheVars, queued, nodeVars>>

PersistFails ==
    /\ pc = "persist"
    /\ "patch" \in Faults
    /\ NewState # job.state
    /\ Fail
    /\ UNCHANGED <<apiVars, cacheVars, nodeVars>>

\* The controller dies and starts again: fresh caches, and every Machine is queued.
Crash ==
    /\ "crash" \in Faults
    /\ pc # "idle"
    /\ Fail
    /\ machineCache' = machine
    /\ linkConfigCache' = linkConfigs
    /\ UNCHANGED <<apiVars, nodeVars>>

\* Talos derives its route specs from the configuration.
NodeDerives ==
    /\ routeSpecs # RoutesOf(config)
    /\ routeSpecs' = RoutesOf(config)
    /\ UNCHANGED <<apiVars, cacheVars, queued, pc, job, config>>

-----------------------------------------------------------------------------
UserStep ==
    \/ \E n \in Name : \/ \E spec \in Specs \cup {Invalid} : WriteLinkConfig(n, spec)
                       \/ DeleteLinkConfig(n)
                       \/ SelectLinkConfig(n)
    \/ DeleteMachine
    \/ \E a \in {"external", "internal"} : AddressAppears(a)
    \/ SecretAppears
    \/ \E q \in Pod, a \in Annotations \cup {Nil} : PodChanges(q, a)

WatchStep == SyncMachine \/ Resync \/ \E n \in Name : SyncLinkConfig(n)

ReconcileStep ==
    \/ ReconcileIgnores \/ ReconcileRefuses \/ ReconcileStarts
    \/ GetActive \/ GetFails
    \/ Apply \/ ApplyFails
    \/ Wait \/ WaitFails
    \/ Persist \/ PersistFails

Next == UserStep \/ WatchStep \/ ReconcileStep \/ Crash \/ NodeDerives

Spec == Init /\ [][Next]_vars

-----------------------------------------------------------------------------
(***************************************************************************)
(* Properties.                                                             *)
(***************************************************************************)

\* Interfaces with routes in the node's configuration.
Configured(c) == {i \in Interface : c[i] # Nil /\ c[i] # {}}

\* Between two reconciles the annotation names every interface that carries routes,
\* so that the next reconcile knows what to prune.  Holds while no call fails after
\* it took effect and reconciles read current caches.
AnnotationCovers ==
    pc = "idle" => Configured(config) \subseteq managedInterfacesFromState(machine.state)

\* When EnsureRoutes has returned and the annotation is about to be written, the managed
\* interfaces of the node have exactly the routes the annotation will claim, whatever
\* failed before, was retried, or was read from an outdated cache.
AppliedWhenPersisted ==
    pc = "persist" =>
        {r \in RoutesOf(config) : r.interface \in job.managed} = job.routes

\* Reconcile replaces the whole machine configuration, and yet changes it only at
\* interfaces that have routes in the LinkConfig or in the annotation it has read.
UnmanagedKept ==
    [][\A i \in Interface :
          config'[i] # config[i] =>
              i \in Interfaces(job.routes) \cup managedInterfacesFromState(job.state)]_vars

(***************************************************************************)
(* Liveness: watches deliver, queued work is done, the node derives its    *)
(* routes, and a call that is repeated does not fail for ever.             *)
(***************************************************************************)
Fairness ==
    /\ WF_vars(SyncMachine)
    /\ \A n \in Name : WF_vars(SyncLinkConfig(n))
    /\ WF_vars(NodeDerives)
    /\ WF_vars(ReconcileStep)
    /\ SF_vars(GetActive)
    /\ SF_vars(Apply)
    /\ SF_vars(Wait)
    /\ SF_vars(Persist)

FairSpec == Spec /\ Fairness

\* controller-runtime resyncs its caches (every ten hours unless told otherwise).  Only
\* two cases need it: an event that linkConfigToMachines loses, and a pod that changes
\* after a successful reconcile, for nothing watches the pods.
FaultySpec == FairSpec /\ WF_vars(Resync)

SelectedConfig == linkConfigs[SelectedName(machine)]

\* The gateway of the network with the Machine's address, when all pods that have the
\* annotation agree on it: "selects the network entry matching the machine internal
\* IP" and "uses gateway_ip (or first value in gateway_ips)".
AgreedOn(g) ==
    LET entries == {pods[q] : q \in {p \in Pod : pods[p] \notin {Nil, NoAnnotation}}} IN
    /\ entries # {}
    /\ \A a \in entries :
          /\ \E n \in a : MachineIP \in n.ips
          /\ \A n \in a : MachineIP \in n.ips =>
                \E i \in 1..Len(n.gateways) :
                    /\ g = TrimSpace(n.gateways[i])
                    /\ \A j \in 1..(i - 1) : n.gateways[j] = NoGateway

\* The routes it asks for, gateways filled in if they can be.
Desired ==
    IF SelectedConfig = Nil THEN {}
    ELSE IF SelectedConfig.spec = Invalid THEN {}
    ELSE IF \E g \in Gateway : AgreedOn(g)
    THEN WithGateway(SelectedConfig.spec, CHOOSE g \in Gateway : AgreedOn(g))
    ELSE SelectedConfig.spec

\* Everything Reconcile needs is there and the LinkConfig in use makes sense.
Satisfiable ==
    /\ ~machine.deleting
    /\ machine.address = "internal"
    /\ secret
    /\ SelectedConfig # Nil
    /\ SelectedConfig.spec # Invalid
    /\ ~DesiredFails(Desired)
    /\ ~ExpectedFails(Desired)

\* Once users leave a satisfiable configuration alone, every desired route gets onto
\* the node and stays there, whatever calls fail on the way and however late the
\* caches are.
DesiredApplied ==
    <>[]Satisfiable => <>[](Desired \subseteq routeSpecs)

\* "Reconciliation is authoritative for managed interfaces: removed routes are pruned
\* from Talos machine config": in the end the node has the desired routes only.
Authoritative ==
    <>[]Satisfiable => <>[](RoutesOf(config) = Desired)

\* "If the selected LinkConfig is deleted" its routes go away.
CleanedUp ==
    <>[](/\ ~machine.deleting
         /\ machine.address # "none"
         /\ secret
         /\ SelectedConfig = Nil
         /\ machine.state # Nil
         /\ machine.state.name = SelectedName(machine))
    => <>[](RoutesOf(config) = {})

=============================================================================
