---------------------------- MODULE MCLinkConfig ----------------------------
\* Small instances of LinkConfigReconciler for TLC.
EXTENDS LinkConfigReconciler

CONSTANTS e1, e2, n1, g1, g2, bad, padded, ip1, ip2

MCTrim == [p \in Padded |-> g1]

Net(ips, gateways) == [ips |-> ips, gateways |-> gateways]

\* The network of the Machine beside another one.
PodNetworks == {{Net({ip1}, <<g1>>), Net({ip2}, <<g2>>)}}

\* As the pod moves: another gateway, padded, behind a blank one; two networks with the
\* Machine's address, one of them without a gateway.
OddNetworks ==
    {NoAnnotation,
     {Net({ip1}, <<g2>>)},
     {Net({ip1}, <<NoGateway, padded>>), Net({ip2}, <<g2>>)},
     {Net({ip1}, <<NoGateway>>), Net({ip1, ip2}, <<g1>>)}}

\* No routes, one route that relies on the derived gateway, a default route with an
\* explicit one on another interface.
SmallSpecs ==
    {{},
     {[network |-> n1, gateway |-> NoGateway, interface |-> e1]},
     {[network |-> Default, gateway |-> g1, interface |-> e2]}}

\* One good route, one whose gateway is no address, one whose gateway is padded.
OddSpecs ==
    {{[network |-> n1, gateway |-> NoGateway, interface |-> e1]},
     {[network |-> n1, gateway |-> bad, interface |-> e1]},
     {[network |-> n1, gateway |-> padded, interface |-> e2]}}

=============================================================================
