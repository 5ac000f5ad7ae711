---------------------------- MODULE TalosInjector ----------------------------
(***************************************************************************)
(* The pure part of internal/routes/talos_injector.go: which interfaces a  *)
(* call of EnsureRoutes manages, and what it makes of the node's machine   *)
(* configuration.  The calls to the node (read, apply, verify) are steps   *)
(* of LinkConfigReconciler.                                                *)
(*                                                                         *)
(* A machine configuration is a function from interfaces to the routes of  *)
(* the interface's LinkConfig document, Nil where there is no document.    *)
(* The code keeps routes sorted and compares sorted lists: here, sets.     *)
(***************************************************************************)
EXTENDS Integers

CONSTANTS
    Interface,
    Network,       \* destinations with their metric; Default is the empty destination
    Gateway,       \* gateways a route may name
    Unparsable,    \* those that are no IP address (a network that is none acts alike)
    Padded,        \* those that are an address with blanks around it
    Trim,          \* the address inside a padded one
    Default,
    NoGateway,     \* the gateway field is blank
    Nil

ASSUME GatewayAssumption ==
    /\ Unparsable \cap Padded = {}
    /\ Unparsable \cup Padded \subseteq Gateway
    /\ NoGateway \notin Gateway
    /\ Default \notin Network
    /\ Trim \in [Padded -> Gateway \ (Unparsable \cup Padded)]

Route ==
    [network: Network \cup {Default}, gateway: Gateway \cup {NoGateway},
     interface: Interface]

RouteConfig == [network: Network \cup {Default}, gateway: Gateway]

\* A missing document is not a document.
ASSUME DocumentAssumption == \A d \in SUBSET RouteConfig : d # Nil

MachineConfig == [Interface -> (SUBSET RouteConfig) \cup {Nil}]

Interfaces(routes) == {r.interface : r \in routes}

normalizeManagedInterfaces(managed, routes) == managed \cup Interfaces(routes)

TrimSpace(g) == IF g \in Padded THEN Trim[g] ELSE g

\* desiredRouteConfigsByInterface fails on a gateway that does not parse; it trims
\* the gateway first, so padding does no harm here.
DesiredFails(routes) ==
    \E r \in routes : r.gateway \in Unparsable \cup {NoGateway}

desiredRouteConfigsByInterface(managed, routes) ==
    [i \in managed |->
        {[network |-> r.network, gateway |-> TrimSpace(r.gateway)] :
            r \in {q \in routes : q.interface = i}}]

\* Mutants: the documents of unmanaged interfaces get lost, or are removed; an interface
\* that is to have no routes keeps what it has.
reconcileManagedLinkRoutes_Drops(config, desired) ==
    [i \in DOMAIN desired |->
        IF config[i] = Nil /\ desired[i] = {} THEN Nil ELSE desired[i]]
reconcileManagedLinkRoutes_Removes(config, desired) ==
    [i \in Interface |->
        IF i \notin DOMAIN desired \/ (config[i] = Nil /\ desired[i] = {})
        THEN Nil
        ELSE desired[i]]
reconcileManagedLinkRoutes_Keeps(config, desired) ==
    [i \in Interface |->
        IF i \notin DOMAIN desired \/ desired[i] = {} THEN config[i] ELSE desired[i]]

\* The routes of a managed interface's document are replaced; a document is added
\* only for an interface that gets routes; other interfaces keep what they have.
reconcileManagedLinkRoutes(config, desired) ==
    [i \in Interface |->
        IF i \notin DOMAIN desired \/ (config[i] = Nil /\ desired[i] = {})
        THEN config[i]
        ELSE desired[i]]

\* expectedMachineConfigRouteSpec parses the gateway without trimming it.
ExpectedFails(routes) ==
    \E r \in routes : r.gateway \in Unparsable \cup Padded \cup {NoGateway}

\* The routes a machine configuration describes.
RoutesOf(config) ==
    UNION {{[network |-> c.network, gateway |-> c.gateway, interface |-> i] :
               c \in config[i]} : i \in {j \in Interface : config[j] # Nil}}

=============================================================================
