---------------------- MODULE LinkConfigReconciler_proofs ----------------------
(***************************************************************************)
(* Proofs about LinkConfigReconciler, for any interfaces, routes, pods and *)
(* LinkConfigs.                                                            *)
(***************************************************************************)
EXTENDS LinkConfigReconciler, NaturalsLeast

(***************************************************************************)
(* Outside of its idle state Reconcile has a job, whose managed interfaces *)
(* are those of its routes and of the state it has read.                   *)
(***************************************************************************)
JobInv ==
    pc # "idle" =>
        /\ job \in Job
        /\ job.managed = Interfaces(job.routes) \cup managedInterfacesFromState(job.state)

(***************************************************************************)
(* Nothing goes wrong between the moment the node is changed and the       *)
(* moment the annotation is written, reconciles read current caches, and   *)
(* no LinkConfig names a gateway with blanks around it (which passes       *)
(* desiredRouteConfigsByInterface and fails the verification).             *)
(***************************************************************************)
Undisturbed ==
    /\ ~CacheLag
    /\ Faults \cap {"reply", "wait", "patch", "crash"} = {}
    /\ \A spec \in Specs : \A r \in spec : r.gateway \notin Padded

(***************************************************************************)
(* Where the interfaces that carry routes are recorded, phase by phase:    *)
(* until the node is changed in the annotation, from then on in the job.   *)
(***************************************************************************)
CoverInv ==
    /\ AnnotationCovers
    /\ pc # "idle" => /\ job.state = machine.state
                      /\ \A r \in job.routes : r.gateway \notin Padded
    /\ pc \in {"get", "apply"} =>
          Configured(config) \subseteq managedInterfacesFromState(machine.state)
    /\ pc \in {"apply", "wait"} => ~DesiredFails(job.routes)
    /\ pc = "apply" => Configured(job.update) \subseteq Interfaces(job.routes)
    /\ pc \in {"wait", "persist"} => Configured(config) \subseteq Interfaces(job.routes)

-----------------------------------------------------------------------------
(***************************************************************************)
(* The operators of the injector.                                          *)
(***************************************************************************)

\* A trimmed gateway is a gateway, and needs no trimming any more.
LEMMA TrimSpaceType ==
    ASSUME NEW g \in Gateway
    PROVE  TrimSpace(g) \in Gateway \ Padded
  BY GatewayAssumption DEF TrimSpace

LEMMA InterfacesType ==
    ASSUME NEW routes \in SUBSET Route
    PROVE  Interfaces(routes) \in SUBSET Interface
  BY DEF Interfaces, Route

\* What desiredRouteConfigsByInterface makes of routes whose gateways parse.
LEMMA DesiredType ==
    ASSUME NEW managed \in SUBSET Interface, NEW routes \in SUBSET Route, ~DesiredFails(routes)
    PROVE  /\ desiredRouteConfigsByInterface(managed, routes) \in [managed -> SUBSET RouteConfig]
           /\ \A i \in managed \ Interfaces(routes) :
                 desiredRouteConfigsByInterface(managed, routes)[i] = {}
  <1>1. ASSUME NEW r \in routes
        PROVE  [network |-> r.network, gateway |-> TrimSpace(r.gateway)] \in RouteConfig
    <2>1. r.network \in Network \cup {Default} /\ r.gateway \in Gateway
      BY DEF Route, DesiredFails
    <2>2. TrimSpace(r.gateway) \in Gateway
      BY <2>1, TrimSpaceType
    <2> QED
      BY <2>1, <2>2 DEF RouteConfig
  <1>2. desiredRouteConfigsByInterface(managed, routes) \in [managed -> SUBSET RouteConfig]
    BY <1>1 DEF desiredRouteConfigsByInterface
  <1>3. ASSUME NEW i \in managed \ Interfaces(routes)
        PROVE  desiredRouteConfigsByInterface(managed, routes)[i] = {}
    BY DEF desiredRouteConfigsByInterface, Interfaces
  <1> QED
    BY <1>2, <1>3

\* reconcileManagedLinkRoutes: a machine configuration again, in which interfaces that are
\* not managed keep what they had and managed ones without desired routes carry none.
LEMMA ReconciledType ==
    ASSUME NEW c \in MachineConfig, NEW managed \in SUBSET Interface,
           NEW desired \in [managed -> SUBSET RouteConfig]
    PROVE  LET new == reconcileManagedLinkRoutes(c, desired) IN
           /\ new \in MachineConfig
           /\ \A i \in Interface \ managed : new[i] = c[i]
           /\ \A i \in managed : desired[i] = {} => new[i] \in {Nil, {}}
  BY DEF reconcileManagedLinkRoutes, MachineConfig

\* The routes a configuration describes.
LEMMA RoutesOfType ==
    ASSUME NEW c \in MachineConfig
    PROVE  RoutesOf(c) \in SUBSET Route
  <1> SUFFICES ASSUME NEW i \in Interface, c[i] # Nil, NEW d \in c[i]
               PROVE  [network |-> d.network, gateway |-> d.gateway, interface |-> i] \in Route
    BY DEF RoutesOf
  <1>1. d \in RouteConfig
    BY DEF MachineConfig
  <1> QED
    BY <1>1 DEF RouteConfig, Route

-----------------------------------------------------------------------------
(***************************************************************************)
(* The gateway derived from the pods.                                      *)
(***************************************************************************)

\* gatewayFromOVNNetwork finds a gateway if there is one, and trims it.
LEMMA OVNGatewayType ==
    ASSUME NEW n \in ovnPodNetwork
    PROVE  gatewayFromOVNNetwork(n) \in (Gateway \ Padded) \cup {Nil}
  <1> DEFINE I == {i \in 1..Len(n.gateways) : n.gateways[i] # NoGateway}
             first == CHOOSE i \in I : \A j \in I : i <= j
  <1>1. n.gateways \in Seq(Gateway \cup {NoGateway})
    BY DEF ovnPodNetwork
  <1>2. CASE I = {}
    BY <1>2 DEF gatewayFromOVNNetwork
  <1>3. CASE I # {}
    <2>1. I \in SUBSET Nat
      BY <1>1
    <2>2. \E i \in I : \A j \in I : i <= j
      <3> HIDE DEF I
      <3> QED
        BY <1>3, <2>1, LeastNumber
    <2>3. first \in I
      <3> HIDE DEF I
      <3> QED
        BY <2>2
    <2> HIDE DEF first
    <2>4. n.gateways[first] \in Gateway
      BY <1>1, <2>3
    <2>5. gatewayFromOVNNetwork(n) = TrimSpace(n.gateways[first])
      BY <1>3 DEF gatewayFromOVNNetwork, first
    <2> QED
      BY <2>4, <2>5, TrimSpaceType
  <1> QED
    BY <1>2, <1>3

\* Whatever pod and whatever network deriveGatewayFromVMPod hits upon.
LEMMA DerivedGatewayType ==
    ASSUME TypeOK, NEW m, NEW g \in deriveGatewayFromVMPod(m)
    PROVE  g \in (Gateway \ Padded) \cup {Nil}
  <1>1. CASE g = Nil
    BY <1>1
  <1>2. CASE g # Nil
    <2>1. PICK q \in findVMPodForMachine :
             pods[q] # NoAnnotation /\ g \in selectGatewayFromOVNPodNetworks(pods[q])
      BY <1>2 DEF deriveGatewayFromVMPod
    <2>2. q \in Pod /\ pods[q] # Nil
      BY <2>1 DEF findVMPodForMachine
    <2>3. pods[q] \in Annotations \ {NoAnnotation}
      BY <2>1, <2>2 DEF TypeOK
    <2>4. PICK n \in Matching(pods[q]) : g = gatewayFromOVNNetwork(n)
      BY <1>2, <2>1 DEF selectGatewayFromOVNPodNetworks
    <2>5. n \in ovnPodNetwork
      BY <2>3, <2>4, ReconcilerAssumption DEF Matching
    <2> QED
      BY <2>4, <2>5, OVNGatewayType
  <1> QED
    BY <1>1, <1>2

LEMMA WithGatewayType ==
    ASSUME NEW routes \in SUBSET Route, NEW g \in Gateway
    PROVE  WithGateway(routes, g) \in SUBSET Route
  <1> SUFFICES ASSUME NEW r \in routes PROVE [r EXCEPT !.gateway = g] \in Route
    BY DEF WithGateway
  <1> QED
    BY DEF Route
-----------------------------------------------------------------------------
(***************************************************************************)
(* TypeOK and JobInv, action by action.                                    *)
(***************************************************************************)

LEMMA InitTypes == Init => TypeOK /\ JobInv
  <1> SUFFICES ASSUME Init PROVE TypeOK /\ JobInv
    OBVIOUS
  <1>1. machine \in Machine /\ linkConfigs \in [Name -> LinkConfig \cup {Nil}]
    BY DEF Init, Machine
  <1>2. config \in MachineConfig
    BY DEF Init, MachineConfig
  <1> QED
    BY <1>1, <1>2 DEF Init, TypeOK, JobInv

\* The LinkConfig that Reconcile finds in the cache.
LEMMA SelectedType ==
    ASSUME TypeOK
    PROVE  LET lc == linkConfigCache[SelectedName(machineCache)] IN
           /\ SelectedName(machineCache) \in Name
           /\ machineCache.state \in AppliedState \cup {Nil}
           /\ lc # Nil => lc.generation \in Nat
           /\ lc # Nil /\ lc.spec # Invalid => lc.spec \in Specs /\ lc.spec \in SUBSET Route
  <1>1. /\ SelectedName(machineCache) \in Name
        /\ machineCache.state \in AppliedState \cup {Nil}
    BY ReconcilerAssumption DEF TypeOK, Machine, SelectedName
  <1>2. linkConfigCache[SelectedName(machineCache)] \in LinkConfig \cup {Nil}
    BY <1>1 DEF TypeOK
  <1> QED
    BY <1>1, <1>2, ReconcilerAssumption DEF LinkConfig

\* Reconcile starts with routes; a gateway that needs trimming can only have come from
\* the LinkConfig itself.
LEMMA StartedRoutes ==
    ASSUME TypeOK, ReconcileStarts
    PROVE  \E routes \in SUBSET Route :
              /\ StartsWith(routes)
              /\ Undisturbed => \A r \in routes : r.gateway \notin Padded
  <1> DEFINE m  == machineCache
             lc == linkConfigCache[SelectedName(m)]
             Clean(routes) == Undisturbed => \A r \in routes : r.gateway \notin Padded
  <1>1. CASE lc = Nil
    <2>1. StartsWith({}) /\ {} \in SUBSET Route
      BY <1>1 DEF ReconcileStarts
    <2> QED
      BY <2>1
  <1>2. CASE lc # Nil
    <2>1. lc.spec # Invalid
      BY <1>2 DEF ReconcileStarts
    <2>2. lc.spec \in Specs /\ lc.spec \in SUBSET Route
      BY <1>2, <2>1, SelectedType
    <2>3. Clean(lc.spec)
      BY <2>2 DEF Undisturbed
    <2>4. CASE ~NeedsGateway(lc.spec)
      <3>1. StartsWith(lc.spec)
        BY <1>2, <2>4 DEF ReconcileStarts
      <3> QED
        BY <2>2, <2>3, <3>1
    <2>5. CASE NeedsGateway(lc.spec)
      <3>1. PICK g \in deriveGatewayFromVMPod(m) \ {Nil} : StartsWith(WithGateway(lc.spec, g))
        BY <1>2, <2>5 DEF ReconcileStarts
      <3>2. g \in Gateway \ Padded
        BY <3>1, DerivedGatewayType
      <3>3. WithGateway(lc.spec, g) \in SUBSET Route
        BY <2>2, <3>2, WithGatewayType
      <3>4. ASSUME Undisturbed, NEW r \in lc.spec
            PROVE  (IF r.gateway = NoGateway THEN [r EXCEPT !.gateway = g] ELSE r).gateway
                      \notin Padded
        <4>1. r \in Route /\ r.gateway \notin Padded
          BY <2>2, <2>3, <3>4
        <4>2. [r EXCEPT !.gateway = g].gateway = g
          BY <4>1 DEF Route
        <4> QED
          BY <3>2, <4>1, <4>2
      <3>5. Clean(WithGateway(lc.spec, g))
        BY <3>4 DEF WithGateway
      <3> QED
        BY <3>1, <3>3, <3>5
    <2> QED
      BY <2>4, <2>5
  <1> QED
    BY <1>1, <1>2

LEMMA StartedJob ==
    ASSUME TypeOK, NEW routes \in SUBSET Route, StartsWith(routes)
    PROVE  /\ job' \in Job
           /\ job'.state = machineCache.state
           /\ job'.routes = routes
           /\ job'.managed = Interfaces(routes) \cup managedInterfacesFromState(job'.state)
  <1> DEFINE m  == machineCache
             lc == linkConfigCache[SelectedName(m)]
             gen == IF lc = Nil THEN 0 ELSE lc.generation
             managed == mergeManagedInterfaces(m.state, routes)
             update == [i \in Interface |-> Nil]
  <1>1. SelectedName(m) \in Name /\ m.state \in AppliedState \cup {Nil} /\ gen \in Nat
    BY SelectedType
  <1>2. managed = Interfaces(routes) \cup managedInterfacesFromState(m.state)
    BY DEF mergeManagedInterfaces
  <1>3. managedInterfacesFromState(m.state) \in SUBSET Interface
    <2>1. CASE m.state = Nil
      BY <2>1 DEF managedInterfacesFromState
    <2>2. CASE m.state # Nil
      <3>1. m.state.routes \in SUBSET Route
        BY <1>1, <2>2 DEF AppliedState
      <3> QED
        BY <2>2, <3>1, InterfacesType DEF managedInterfacesFromState
    <2> QED
      BY <2>1, <2>2
  <1>4. managed \in SUBSET Interface
    BY <1>2, <1>3, InterfacesType
  <1>5. update \in MachineConfig
    BY DEF MachineConfig
  <1>6. job' = [state |-> m.state, name |-> SelectedName(m), generation |-> gen,
                routes |-> routes, managed |-> managed, update |-> update]
    BY DEF StartsWith
  <1> HIDE DEF m, gen, managed, update
  <1>7. job' \in Job /\ job'.state = m.state /\ job'.routes = routes /\ job'.managed = managed
    BY <1>1, <1>4, <1>5, <1>6 DEF Job
  <1> QED
    BY <1>2, <1>7 DEF m

\* What GetActive computes.
LEMMA UpdatedType ==
    ASSUME TypeOK, JobInv, pc # "idle", ~DesiredFails(job.routes)
    PROVE  /\ Updated \in MachineConfig
           /\ \A i \in Interface \ job.managed : Updated[i] = config[i]
           /\ \A i \in job.managed \ Interfaces(job.routes) : Updated[i] \in {Nil, {}}
  <1> DEFINE managed == normalizeManagedInterfaces(job.managed, job.routes)
             desired == desiredRouteConfigsByInterface(managed, job.routes)
  <1>1. /\ job.managed \in SUBSET Interface
        /\ job.routes \in SUBSET Route
        /\ config \in MachineConfig
    BY DEF JobInv, Job, TypeOK
  <1>2. managed = job.managed
    BY DEF JobInv, normalizeManagedInterfaces
  <1>3. managed \in SUBSET Interface
    BY <1>1, <1>2
  <1> HIDE DEF managed
  <1>4. /\ desired \in [managed -> SUBSET RouteConfig]
        /\ \A i \in managed \ Interfaces(job.routes) : desired[i] = {}
    BY <1>1, <1>3, DesiredType
  <1>5. Updated = reconcileManagedLinkRoutes(config, desired)
    BY DEF Updated, managed
  <1> HIDE DEF desired
  <1>6. /\ Updated \in MachineConfig
        /\ \A i \in Interface \ managed : Updated[i] = config[i]
        /\ \A i \in managed : desired[i] = {} => Updated[i] \in {Nil, {}}
    <2> DEFINE new == reconcileManagedLinkRoutes(config, desired)
    <2>1. /\ new \in MachineConfig
          /\ \A i \in Interface \ managed : new[i] = config[i]
          /\ \A i \in managed : desired[i] = {} => new[i] \in {Nil, {}}
      BY <1>1, <1>3, <1>4, ReconciledType, Zenon
    <2> HIDE DEF new
    <2>2. Updated = new
      BY <1>5 DEF new
    <2> QED
      BY <2>1, <2>2
  <1> QED
    BY <1>2, <1>4, <1>6
\* Users, other controllers and the watches leave the running reconcile alone.
LEMMA EnvironmentTypes ==
    ASSUME TypeOK, UserStep \/ WatchStep
    PROVE  /\ TypeOK'
           /\ UNCHANGED <<pc, job, config>>
           /\ machine'.state = machine.state
  <1> USE DEF Edit, clusterVars, apiVars, cacheVars, nodeVars
  <1>0. machine \in Machine
    BY DEF TypeOK
  <1>1. ASSUME NEW n \in Name, NEW spec \in Specs \cup {Invalid}, WriteLinkConfig(n, spec)
        PROVE  /\ TypeOK' /\ UNCHANGED <<pc, job, config>> /\ machine'.state = machine.state
    <2> DEFINE new == [generation |-> IF linkConfigs[n] = Nil THEN 1
                                      ELSE linkConfigs[n].generation + 1, spec |-> spec]
    <2>1. new \in LinkConfig
      BY DEF TypeOK, LinkConfig
    <2>2. linkConfigs' = [linkConfigs EXCEPT ![n] = new]
      BY <1>1 DEF WriteLinkConfig, TypeOK
    <2> HIDE DEF new
    <2>3. linkConfigs' \in [Name -> LinkConfig \cup {Nil}]
      BY <2>1, <2>2 DEF TypeOK
    <2> QED
      BY <1>1, <2>3 DEF WriteLinkConfig, TypeOK
  <1>2. ASSUME NEW n \in Name, DeleteLinkConfig(n)
        PROVE  /\ TypeOK' /\ UNCHANGED <<pc, job, config>> /\ machine'.state = machine.state
    BY <1>2 DEF DeleteLinkConfig, TypeOK
  <1>3. ASSUME NEW n \in Name, SelectLinkConfig(n)
        PROVE  /\ TypeOK' /\ UNCHANGED <<pc, job, config>> /\ machine'.state = machine.state
    <2>1. machine' \in Machine /\ machine'.state = machine.state
      BY <1>0, <1>3 DEF SelectLinkConfig, Machine
    <2> QED
      BY <1>3, <2>1 DEF SelectLinkConfig, TypeOK
  <1>4. CASE DeleteMachine
    <2>1. machine' \in Machine /\ machine'.state = machine.state
      BY <1>0, <1>4 DEF DeleteMachine, Machine
    <2> QED
      BY <1>4, <2>1 DEF DeleteMachine, TypeOK
  <1>5. ASSUME NEW a \in {"external", "internal"}, AddressAppears(a)
        PROVE  /\ TypeOK' /\ UNCHANGED <<pc, job, config>> /\ machine'.state = machine.state
    <2>1. machine' \in Machine /\ machine'.state = machine.state
      BY <1>0, <1>5 DEF AddressAppears, Machine
    <2> QED
      BY <1>5, <2>1 DEF AddressAppears, TypeOK
  <1>6. CASE SecretAppears
    BY <1>6 DEF SecretAppears, TypeOK
  <1>7. ASSUME NEW q \in Pod, NEW a \in Annotations \cup {Nil}, PodChanges(q, a)
        PROVE  /\ TypeOK' /\ UNCHANGED <<pc, job, config>> /\ machine'.state = machine.state
    BY <1>7 DEF PodChanges, TypeOK
  <1>8. CASE SyncMachine
    BY <1>8 DEF SyncMachine, TypeOK
  <1>9. CASE Resync
    BY <1>9 DEF Resync, TypeOK
  <1>10. ASSUME NEW n \in Name, SyncLinkConfig(n)
         PROVE  /\ TypeOK' /\ UNCHANGED <<pc, job, config>> /\ machine'.state = machine.state
    <2>1. queued' \in BOOLEAN
      BY <1>10 DEF SyncLinkConfig, TypeOK
    <2>2. linkConfigCache' \in [Name -> LinkConfig \cup {Nil}]
      BY <1>10 DEF SyncLinkConfig, TypeOK
    <2> QED
      BY <1>10, <2>1, <2>2 DEF SyncLinkConfig, TypeOK
  <1> QED
    BY <1>1, <1>2, <1>3, <1>4, <1>5, <1>6, <1>7, <1>8, <1>9, <1>10 DEF UserStep, WatchStep

LEMMA NewStateType ==
    ASSUME job \in Job
    PROVE  NewState \in AppliedState /\ NewState.routes = job.routes
  BY DEF Job, NewState, AppliedState

LEMMA TypesStep == TypeOK /\ JobInv /\ [Next]_vars => TypeOK' /\ JobInv'
  <1> SUFFICES ASSUME TypeOK, JobInv, [Next]_vars PROVE TypeOK' /\ JobInv'
    OBVIOUS
  <1> USE DEF clusterVars, apiVars, cacheVars, nodeVars, Done, Fail
  <1>1. CASE UserStep \/ WatchStep
    <2>1. TypeOK' /\ UNCHANGED <<pc, job>>
      BY <1>1, EnvironmentTypes
    <2> QED
      BY <2>1 DEF JobInv
  <1>2. CASE ReconcileIgnores
    BY <1>2 DEF ReconcileIgnores, TypeOK, JobInv
  <1>3. CASE ReconcileRefuses
    BY <1>3 DEF ReconcileRefuses, TypeOK, JobInv
  <1>4. CASE ReconcileStarts
    <2>1. PICK routes \in SUBSET Route : StartsWith(routes)
      BY <1>4, StartedRoutes
    <2>2. /\ job' \in Job
          /\ job'.managed = Interfaces(job'.routes) \cup managedInterfacesFromState(job'.state)
      BY <2>1, StartedJob
    <2>3. TypeOK'
      BY <2>1, <2>2 DEF StartsWith, TypeOK
    <2> QED
      BY <2>2, <2>3 DEF JobInv
  <1>5. CASE GetActive
    <2>1. job \in Job /\ Updated \in MachineConfig
      BY <1>5, UpdatedType DEF GetActive, JobInv
    <2>2. \A u \in MachineConfig :
             LET new == [job EXCEPT !.update = u] IN
             /\ new \in Job
             /\ new.managed = job.managed
             /\ new.routes = job.routes
             /\ new.state = job.state
      BY <2>1 DEF Job
    <2>3. job' = [job EXCEPT !.update = Updated]
      BY <1>5 DEF GetActive
    <2>4. /\ job' \in Job
          /\ job'.managed = job.managed
          /\ job'.routes = job.routes
          /\ job'.state = job.state
      BY <2>1, <2>2, <2>3
    <2>5. TypeOK'
      BY <1>5, <2>4 DEF GetActive, TypeOK
    <2> QED
      BY <1>5, <2>4, <2>5 DEF GetActive, JobInv
  <1>6. CASE GetFails
    BY <1>6 DEF GetFails, TypeOK, JobInv
  <1>7. CASE Apply
    <2>1. config' \in MachineConfig
      BY <1>7 DEF Apply, JobInv, Job
    <2> QED
      BY <1>7, <2>1 DEF Apply, TypeOK, JobInv
  <1>8. CASE ApplyFails
    <2>1. config' \in MachineConfig
      BY <1>8 DEF ApplyFails, JobInv, Job, TypeOK
    <2> QED
      BY <1>8, <2>1 DEF ApplyFails, TypeOK, JobInv
  <1>9. CASE Wait
    BY <1>9 DEF Wait, TypeOK, JobInv
  <1>10. CASE WaitFails
    BY <1>10 DEF WaitFails, TypeOK, JobInv
  <1>11. CASE Persist
    <2>1. NewState \in AppliedState
      BY <1>11, NewStateType DEF Persist, JobInv
    <2>2. \A s \in AppliedState : [machine EXCEPT !.state = s] \in Machine
      BY DEF TypeOK, Machine
    <2>3. machine' \in Machine
      BY <1>11, <2>1, <2>2 DEF Persist, TypeOK
    <2> QED
      BY <1>11, <2>3 DEF Persist, TypeOK, JobInv
  <1>12. CASE PersistFails
    BY <1>12 DEF PersistFails, TypeOK, JobInv
  <1>13. CASE Crash
    BY <1>13 DEF Crash, TypeOK, JobInv
  <1>14. CASE NodeDerives
    <2>1. routeSpecs' \in SUBSET Route
      BY <1>14, RoutesOfType DEF NodeDerives, TypeOK
    <2> QED
      BY <1>14, <2>1 DEF NodeDerives, TypeOK, JobInv
  <1>15. CASE UNCHANGED vars
    BY <1>15 DEF vars, TypeOK, JobInv
  <1> QED
    BY <1>1, <1>2, <1>3, <1>4, <1>5, <1>6, <1>7, <1>8, <1>9, <1>10, <1>11, <1>12, <1>13,
       <1>14, <1>15 DEF Next, ReconcileStep

(***************************************************************************)
(* Whatever users write, pods carry and calls do, every object and every   *)
(* local of Reconcile is well-formed; in particular each route in the      *)
(* configuration that EnsureRoutes applies has a gateway, its own or the   *)
(* derived one, and the annotation holds routes of known interfaces.       *)
(***************************************************************************)
THEOREM TypeCorrect == Spec => []TypeOK
  <1>1. Spec => [](TypeOK /\ JobInv)
    BY InitTypes, TypesStep, PTL DEF Spec
  <1> QED
    BY <1>1, PTL
-----------------------------------------------------------------------------
(***************************************************************************)
(* The annotation names every interface that carries routes.               *)
(***************************************************************************)

LEMMA InitCovers == Init => CoverInv
  BY DEF Init, CoverInv, AnnotationCovers, Configured

\* The update leaves routes only where the job has some: an interface that had routes and
\* is to have none is in the annotation, hence managed, hence emptied.
LEMMA UpdatedCovers ==
    ASSUME TypeOK, JobInv, CoverInv, pc = "get", ~DesiredFails(job.routes)
    PROVE  Configured(Updated) \subseteq Interfaces(job.routes)
  <1> SUFFICES ASSUME NEW i \in Interface, Updated[i] # Nil, Updated[i] # {},
                      i \notin Interfaces(job.routes)
               PROVE  FALSE
    BY DEF Configured
  <1>1. i \notin job.managed
    BY UpdatedType
  <1>2. Updated[i] = config[i]
    BY <1>1, UpdatedType
  <1>3. i \in Configured(config)
    BY <1>2 DEF Configured
  <1>4. i \in managedInterfacesFromState(job.state)
    BY <1>3 DEF CoverInv
  <1> QED
    BY <1>1, <1>4 DEF JobInv

LEMMA CoverStep ==
    ASSUME Undisturbed, TypeOK, JobInv, CoverInv, [Next]_vars
    PROVE  CoverInv'
  <1> USE DEF clusterVars, apiVars, cacheVars, nodeVars, Done, Fail
  <1>1. CASE UserStep \/ WatchStep
    <2>1. UNCHANGED <<pc, job, config>> /\ machine'.state = machine.state
      BY <1>1, EnvironmentTypes
    <2> QED
      BY <2>1 DEF CoverInv, AnnotationCovers, Configured
  <1>2. CASE ReconcileIgnores
    BY <1>2 DEF ReconcileIgnores, Takes, CoverInv, AnnotationCovers, Configured
  <1>3. CASE ReconcileRefuses
    BY <1>3 DEF ReconcileRefuses, Takes, CoverInv, AnnotationCovers, Configured
  <1>4. CASE ReconcileStarts
    <2>1. machineCache = machine /\ pc = "idle"
      BY <1>4 DEF ReconcileStarts, Takes, Undisturbed
    <2>2. PICK routes \in SUBSET Route :
             StartsWith(routes) /\ \A r \in routes : r.gateway \notin Padded
      BY <1>4, StartedRoutes
    <2>3. job'.state = machine.state /\ job'.routes = routes
      BY <2>1, <2>2, StartedJob
    <2>4. pc' = "get" /\ UNCHANGED <<machine, config>>
      BY <2>2 DEF StartsWith
    <2> QED
      BY <2>1, <2>2, <2>3, <2>4 DEF CoverInv, AnnotationCovers, Configured
  <1>5. CASE GetActive
    <2>1. /\ pc = "get" /\ ~DesiredFails(job.routes)
          /\ UNCHANGED <<machine, config>>
          /\ job' = [job EXCEPT !.update = Updated]
      BY <1>5 DEF GetActive
    <2>2. job \in Job
      BY <2>1 DEF JobInv
    <2>3. job'.state = job.state /\ job'.routes = job.routes /\ job'.update = Updated
      BY <2>1, <2>2 DEF Job
    <2>4. Configured(Updated) \subseteq Interfaces(job.routes)
      BY <2>1, UpdatedCovers
    <2>5. /\ job.state = machine.state
          /\ \A r \in job.routes : r.gateway \notin Padded
          /\ Configured(config) \subseteq managedInterfacesFromState(machine.state)
      BY <2>1 DEF CoverInv
    <2>6. /\ Configured(config)' = Configured(config)
          /\ Configured(job.update)' = Configured(Updated)
      BY <2>1, <2>3 DEF Configured
    <2>7. CASE job.managed = {}
      <3>1. pc' = "persist"
        BY <1>5, <2>7 DEF GetActive
      <3>2. managedInterfacesFromState(job.state) \subseteq job.managed
        BY <2>1 DEF JobInv
      <3>3. Configured(config) = {}
        BY <2>5, <2>7, <3>2
      <3> QED
        BY <2>3, <2>1, <2>5, <2>6, <3>1, <3>3 DEF CoverInv, AnnotationCovers
    <2>8. CASE job.managed # {} /\ Updated = config
      <3>1. pc' = "wait"
        BY <1>5, <2>8 DEF GetActive
      <3> QED
        BY <2>1, <2>3, <2>4, <2>5, <2>6, <2>8, <3>1 DEF CoverInv, AnnotationCovers
    <2>9. CASE job.managed # {} /\ Updated # config
      <3>1. pc' = "apply"
        BY <1>5, <2>9 DEF GetActive
      <3> QED
        BY <2>1, <2>3, <2>4, <2>5, <2>6, <3>1 DEF CoverInv, AnnotationCovers
    <2> QED
      BY <2>7, <2>8, <2>9
  <1>6. CASE GetFails
    BY <1>6 DEF GetFails, CoverInv, AnnotationCovers, Configured
  <1>7. CASE Apply
    BY <1>7 DEF Apply, CoverInv, AnnotationCovers, Configured
  <1>8. CASE ApplyFails
    <2>1. UNCHANGED <<machine, config>> /\ pc = "apply" /\ pc' = "idle"
      BY <1>8 DEF ApplyFails, Undisturbed
    <2> QED
      BY <2>1 DEF CoverInv, AnnotationCovers, Configured
  <1>9. CASE Wait
    BY <1>9 DEF Wait, CoverInv, AnnotationCovers, Configured
  <1>10. CASE WaitFails
    <2>1. pc = "wait" /\ ExpectedFails(job.routes)
      BY <1>10 DEF WaitFails, Undisturbed
    <2>2. ~DesiredFails(job.routes) /\ \A r \in job.routes : r.gateway \notin Padded
      BY <2>1 DEF CoverInv
    <2> QED
      BY <2>1, <2>2 DEF ExpectedFails, DesiredFails
  <1>11. CASE Persist
    <2>1. /\ pc = "persist" /\ pc' = "idle" /\ config' = config
          /\ machine' = IF NewState = job.state THEN machine
                        ELSE [machine EXCEPT !.state = NewState]
      BY <1>11 DEF Persist
    <2>2. NewState \in AppliedState /\ NewState.routes = job.routes
      BY <2>1, NewStateType DEF JobInv
    <2>3. managedInterfacesFromState(NewState) = Interfaces(job.routes)
      BY <2>2, NilAssumption DEF managedInterfacesFromState
    <2>4. \A s : [machine EXCEPT !.state = s].state = s
      BY DEF TypeOK, Machine
    <2>5. machine'.state = NewState
      BY <2>1, <2>4 DEF CoverInv
    <2>6. Configured(config) \subseteq Interfaces(job.routes)
      BY <2>1 DEF CoverInv
    <2>7. Configured(config') \subseteq managedInterfacesFromState(machine'.state)
      BY <2>1, <2>3, <2>5, <2>6
    <2> QED
      BY <2>1, <2>7 DEF CoverInv, AnnotationCovers, managedInterfacesFromState
  <1>12. CASE PersistFails
    BY <1>12 DEF PersistFails, Undisturbed
  <1>13. CASE Crash
    BY <1>13 DEF Crash, Undisturbed
  <1>14. CASE NodeDerives
    BY <1>14 DEF NodeDerives, CoverInv, AnnotationCovers, Configured
  <1>15. CASE UNCHANGED vars
    BY <1>15 DEF vars, CoverInv, AnnotationCovers, Configured
  <1> QED
    BY <1>1, <1>2, <1>3, <1>4, <1>5, <1>6, <1>7, <1>8, <1>9, <1>10, <1>11, <1>12, <1>13,
       <1>14, <1>15 DEF Next, ReconcileStep

(***************************************************************************)
(* persistReconciledLinkConfigState and EnsureRoutes together: if nothing  *)
(* fails between the change of the node and the patch of the annotation,   *)
(* and reconciles read current caches, then between two reconciles the     *)
(* annotation names every interface of the node that carries routes,       *)
(* whatever users edit meanwhile and however often reading or applying the *)
(* configuration fails.                                                    *)
(***************************************************************************)
THEOREM AnnotationAlwaysCovers ==
    ASSUME Undisturbed
    PROVE  Spec => []AnnotationCovers
  <1>1. TypeOK /\ JobInv /\ CoverInv /\ [Next]_vars => TypeOK' /\ JobInv' /\ CoverInv'
    BY TypesStep, CoverStep
  <1>2. Init => TypeOK /\ JobInv /\ CoverInv
    BY InitTypes, InitCovers
  <1>3. Spec => [](TypeOK /\ JobInv /\ CoverInv)
    BY <1>1, <1>2, PTL DEF Spec
  <1>4. CoverInv => AnnotationCovers
    BY DEF CoverInv
  <1> QED
    BY <1>3, <1>4, PTL
-----------------------------------------------------------------------------
(***************************************************************************)
(* What is on the node when the annotation is written.                     *)
(***************************************************************************)

\* The routes of some interfaces, and routes as desiredRouteConfigsByInterface applies them.
RoutesAt(c, interfaces) == {r \in RoutesOf(c) : r.interface \in interfaces}
TrimRoute(r) ==
    [network |-> r.network, gateway |-> TrimSpace(r.gateway), interface |-> r.interface]
Trimmed(routes) == {TrimRoute(r) : r \in routes}

(***************************************************************************)
(* What the update, and then the node, has on the managed interfaces: the  *)
(* job's routes, trimmed; once they are verified, the job's routes.        *)
(***************************************************************************)
ExactInv ==
    /\ pc = "apply" => /\ \A i \in Interface \ job.managed : job.update[i] = config[i]
                       /\ RoutesAt(job.update, job.managed) = Trimmed(job.routes)
    /\ pc = "wait" => RoutesAt(config, job.managed) = Trimmed(job.routes)
    /\ pc = "persist" => RoutesAt(config, job.managed) = job.routes

LEMMA TrimmedUnpadded ==
    ASSUME NEW routes \in SUBSET Route, \A r \in routes : r.gateway \notin Padded
    PROVE  Trimmed(routes) = routes
  <1>1. ASSUME NEW r \in routes PROVE TrimRoute(r) = r
    BY DEF TrimRoute, TrimSpace, Route
  <1> HIDE DEF TrimRoute
  <1> QED
    BY <1>1 DEF Trimmed

\* reconcileManagedLinkRoutes is authoritative: on the interfaces it manages it leaves the
\* desired routes and nothing else, whatever was there.
LEMMA ReconciledExactly ==
    ASSUME NEW c \in MachineConfig, NEW managed \in SUBSET Interface,
           NEW routes \in SUBSET Route, Interfaces(routes) \subseteq managed,
           ~DesiredFails(routes)
    PROVE  RoutesAt(reconcileManagedLinkRoutes(c,
                       desiredRouteConfigsByInterface(managed, routes)), managed)
              = Trimmed(routes)
  <1> DEFINE desired == desiredRouteConfigsByInterface(managed, routes)
             new == reconcileManagedLinkRoutes(c, desired)
  <1>1. desired \in [managed -> SUBSET RouteConfig]
    BY DesiredType
  <1>2. \A i \in managed : desired[i] =
           {[network |-> r.network, gateway |-> TrimSpace(r.gateway)] :
               r \in {q \in routes : q.interface = i}}
    BY DEF desiredRouteConfigsByInterface
  <1> HIDE DEF desired
  <1>3. \A i \in managed : new[i] = IF c[i] = Nil /\ desired[i] = {} THEN Nil ELSE desired[i]
    BY <1>1 DEF reconcileManagedLinkRoutes
  <1>4. \A i \in managed : desired[i] # Nil
    BY <1>1, DocumentAssumption
  <1> HIDE DEF new
  <1>5. ASSUME NEW r \in RoutesAt(new, managed) PROVE r \in Trimmed(routes)
    <2>1. PICK i \in Interface : /\ new[i] # Nil
                                 /\ \E d \in new[i] : r = [network |-> d.network,
                                       gateway |-> d.gateway, interface |-> i]
      BY <1>5 DEF RoutesAt, RoutesOf
    <2>2. PICK d \in new[i] : r = [network |-> d.network, gateway |-> d.gateway, interface |-> i]
      BY <2>1
    <2>3. i \in managed
      BY <1>5, <2>2 DEF RoutesAt
    <2>4. d \in desired[i]
      BY <1>3, <2>1, <2>2, <2>3
    <2>5. PICK q \in routes : /\ q.interface = i
                              /\ d = [network |-> q.network, gateway |-> TrimSpace(q.gateway)]
      BY <1>2, <2>3, <2>4
    <2>6. r = TrimRoute(q)
      BY <2>2, <2>5 DEF TrimRoute
    <2> QED
      BY <2>5, <2>6 DEF Trimmed
  <1>6. ASSUME NEW q \in routes PROVE TrimRoute(q) \in RoutesAt(new, managed)
    <2> DEFINE i == q.interface
               d == [network |-> q.network, gateway |-> TrimSpace(q.gateway)]
    <2>1. i \in managed /\ i \in Interface
      BY DEF Interfaces
    <2>2. d \in desired[i]
      BY <1>2, <2>1
    <2>3. new[i] = desired[i] /\ new[i] # Nil
      BY <1>3, <1>4, <2>1, <2>2
    <2>4. TrimRoute(q) = [network |-> d.network, gateway |-> d.gateway, interface |-> i]
      BY DEF TrimRoute
    <2>5. TrimRoute(q).interface = i
      BY DEF TrimRoute
    <2> HIDE DEF i, d
    <2>6. TrimRoute(q) \in RoutesOf(new)
      BY <2>1, <2>2, <2>3, <2>4 DEF RoutesOf
    <2> QED
      BY <2>1, <2>5, <2>6 DEF RoutesAt
  <1>7. RoutesAt(new, managed) = Trimmed(routes)
    BY <1>5, <1>6 DEF Trimmed
  <1> QED
    BY <1>7 DEF new, desired

LEMMA UpdatedExactly ==
    ASSUME TypeOK, JobInv, pc # "idle", ~DesiredFails(job.routes)
    PROVE  RoutesAt(Updated, job.managed) = Trimmed(job.routes)
  <1>1. /\ job.managed \in SUBSET Interface
        /\ job.routes \in SUBSET Route
        /\ config \in MachineConfig
        /\ Interfaces(job.routes) \subseteq job.managed
    BY DEF JobInv, Job, TypeOK
  <1>2. normalizeManagedInterfaces(job.managed, job.routes) = job.managed
    BY <1>1 DEF normalizeManagedInterfaces
  <1>3. Updated = reconcileManagedLinkRoutes(config,
                     desiredRouteConfigsByInterface(job.managed, job.routes))
    BY <1>2 DEF Updated
  <1> QED
    BY <1>1, <1>3, ReconciledExactly

LEMMA InitExact == Init => ExactInv
  BY DEF Init, ExactInv

\* GetActive, for whichever way it goes on.
LEMMA GetActiveExact ==
    ASSUME TypeOK, JobInv, GetActive
    PROVE  ExactInv'
  <1>1. /\ pc = "get" /\ ~DesiredFails(job.routes)
        /\ config' = config
        /\ job' = [job EXCEPT !.update = Updated]
    BY DEF GetActive, nodeVars
  <1>2. job \in Job
    BY <1>1 DEF JobInv
  <1>3. job'.managed = job.managed /\ job'.routes = job.routes /\ job'.update = Updated
    BY <1>1, <1>2 DEF Job
  <1>4. /\ \A i \in Interface \ job.managed : Updated[i] = config[i]
        /\ RoutesAt(Updated, job.managed) = Trimmed(job.routes)
    BY <1>1, UpdatedType, UpdatedExactly
  <1>5. CASE pc' = "apply"
    BY <1>1, <1>3, <1>4, <1>5 DEF ExactInv
  <1>6. CASE pc' = "wait" /\ Updated = config
    BY <1>1, <1>3, <1>4, <1>6 DEF ExactInv
  <1>7. CASE pc' = "persist" /\ job.managed = {}
    <2>1. RoutesAt(config', job'.managed) = {}
      BY <1>3, <1>7 DEF RoutesAt
    <2>2. job'.routes = {}
      BY <1>1, <1>3, <1>7 DEF JobInv, Interfaces
    <2> QED
      BY <1>7, <2>1, <2>2 DEF ExactInv
  <1> QED
    BY <1>5, <1>6, <1>7 DEF GetActive

\* Wait goes on only if no gateway has blanks around it: what was applied is what was asked.
LEMMA WaitExact ==
    ASSUME JobInv, ExactInv, Wait
    PROVE  ExactInv'
  <1>1. /\ pc = "wait" /\ pc' = "persist" /\ UNCHANGED <<job, config>>
        /\ ~ExpectedFails(job.routes)
    BY DEF Wait, nodeVars
  <1>2. job.routes \in SUBSET Route
    BY <1>1 DEF JobInv, Job
  <1>3. \A r \in job.routes : r.gateway \notin Padded
    BY <1>1 DEF ExpectedFails
  <1>4. RoutesAt(config, job.managed) = job.routes
    BY <1>1, <1>2, <1>3, TrimmedUnpadded DEF ExactInv
  <1> QED
    BY <1>1, <1>4 DEF ExactInv

LEMMA ExactStep ==
    ASSUME TypeOK, JobInv, ExactInv, [Next]_vars
    PROVE  ExactInv'
  <1> USE DEF clusterVars, apiVars, cacheVars, nodeVars, Done, Fail
  <1>1. CASE UserStep \/ WatchStep
    <2>1. UNCHANGED <<pc, job, config>>
      BY <1>1, EnvironmentTypes
    <2> QED
      BY <2>1 DEF ExactInv
  <1>2. CASE pc' \in {"idle", "get"}
    BY <1>2 DEF ExactInv
  <1>3. CASE ReconcileStep
    <2>1. CASE ReconcileIgnores \/ ReconcileRefuses \/ ReconcileStarts
      <3>1. pc' \in {"idle", "get"}
        BY <2>1 DEF ReconcileIgnores, ReconcileRefuses, ReconcileStarts, StartsWith
      <3> QED
        BY <1>2, <3>1
    <2>2. CASE GetFails \/ ApplyFails \/ WaitFails \/ Persist \/ PersistFails
      BY <1>2, <2>2 DEF GetFails, ApplyFails, WaitFails, Persist, PersistFails
    <2>3. CASE GetActive
      BY <2>3, GetActiveExact
    <2>4. CASE Apply
      BY <2>4 DEF Apply, ExactInv
    <2>5. CASE Wait
      BY <2>5, WaitExact
    <2> QED
      BY <1>3, <2>1, <2>2, <2>3, <2>4, <2>5 DEF ReconcileStep
  <1>4. CASE Crash
    BY <1>2, <1>4 DEF Crash
  <1>5. CASE NodeDerives \/ UNCHANGED vars
    BY <1>5 DEF NodeDerives, vars, ExactInv
  <1> QED
    BY <1>1, <1>3, <1>4, <1>5 DEF Next

LEMMA ExactAlways == Spec => [](TypeOK /\ JobInv /\ ExactInv)
  <1>1. TypeOK /\ JobInv /\ ExactInv /\ [Next]_vars => TypeOK' /\ JobInv' /\ ExactInv'
    BY TypesStep, ExactStep
  <1> QED
    BY <1>1, InitTypes, InitExact, PTL DEF Spec

(***************************************************************************)
(* EnsureRoutes: with every fault and however outdated the caches are,     *)
(* whenever the annotation is about to be written the managed interfaces   *)
(* of the node have exactly the routes it will claim.                      *)
(***************************************************************************)
THEOREM AlwaysAppliedWhenPersisted == Spec => []AppliedWhenPersisted
  <1>1. ExactInv => AppliedWhenPersisted
    BY DEF ExactInv, AppliedWhenPersisted, RoutesAt
  <1> QED
    BY <1>1, ExactAlways, PTL

LEMMA ConfigStep ==
    ASSUME TypeOK, JobInv, ExactInv, [Next]_vars, NEW i \in Interface, config'[i] # config[i]
    PROVE  i \in Interfaces(job.routes) \cup managedInterfacesFromState(job.state)
  <1> USE DEF clusterVars, apiVars, cacheVars, nodeVars
  <1>1. pc = "apply" /\ config' = job.update
    <2>1. config' # config
      OBVIOUS
    <2>2. ~(UserStep \/ WatchStep)
      BY <2>1, EnvironmentTypes
    <2>3. Apply \/ ApplyFails
      BY <2>1, <2>2 DEF Next, vars, ReconcileStep, ReconcileIgnores, ReconcileRefuses,
            ReconcileStarts, StartsWith, GetActive, GetFails, Wait, WaitFails, Persist,
            PersistFails, Crash, NodeDerives
    <2> QED
      BY <2>1, <2>3 DEF Apply, ApplyFails
  <1>2. i \in job.managed
    BY <1>1 DEF ExactInv
  <1> QED
    BY <1>1, <1>2 DEF JobInv

(***************************************************************************)
(* reconcileManagedLinkRoutes and the way ApplyConfiguration is used:      *)
(* although the configuration is written as a whole, and with every fault, *)
(* an interface changes only if the LinkConfig has routes for it or the    *)
(* annotation that Reconcile has read names it.                            *)
(***************************************************************************)
THEOREM UnmanagedAlwaysKept == Spec => UnmanagedKept
  <1> DEFINE Step == \A i \in Interface :
                        config'[i] # config[i] =>
                            i \in Interfaces(job.routes) \cup
                                  managedInterfacesFromState(job.state)
  <1>1. TypeOK /\ JobInv /\ ExactInv /\ [Next]_vars => [Step]_vars
    BY ConfigStep
  <1>2. Spec => [][Step]_vars
    BY <1>1, ExactAlways, PTL DEF Spec
  <1> QED
    BY <1>2 DEF UnmanagedKept

=============================================================================
